---------------------------- MODULE ReviewsProofs ----------------------------
(***************************************************************************)
(* Theorems about Reviews, for any number of calls, permits and threads.   *)
(*                                                                         *)
(* A permit is neither lost nor made: the free ones and those in the       *)
(* closures of reviews always add up to MAX_CONCURRENT_REVIEWS.  That is   *)
(* inductive with three facts about who may hold one: a closure exists     *)
(* only once its caller has resolved the graph, a queued closure is in the *)
(* pool's queue once, and whoever waits for a slot or asks the judge is a  *)
(* review that needs one.                                                  *)
(***************************************************************************)
EXTENDS Reviews, FiniteSetTheorems, TLAPS

Holders == {c \in Calls : HoldsSlot(c)}

ReviewTypes ==
    /\ request \in [Calls -> Requests \cup {None}]
    /\ caller \in [Calls -> CallerPlaces]
    /\ work \in [Calls -> WorkPlaces]
    /\ queue \in Seq(Calls)
    /\ slots \in Nat

ClosureAfterResolve ==
    \A c \in Calls : caller[c] \in {"idle", "resolving"} => work[c] = "none"

QueuedOnce ==
    /\ \A i \in 1 .. Len(queue) : work[queue[i]] = "queued"
    /\ \A i, j \in 1 .. Len(queue) : i # j => queue[i] # queue[j]

OnlyReviewsWait ==
    \A c \in Calls : work[c] \in {"waiting", "asking"} => CallsJudge(c)

ReviewInv ==
    /\ ReviewTypes
    /\ ClosureAfterResolve
    /\ QueuedOnce
    /\ OnlyReviewsWait
    /\ PermitsAccounted

-----------------------------------------------------------------------------
LEMMA FiniteCalls == IsFiniteSet(Calls)
BY FS_Interval, ReviewsAssumption DEF Calls

LEMMA FiniteHolders == IsFiniteSet(Holders) /\ Cardinality(Holders) \in Nat
BY FiniteCalls, FS_Subset, FS_CardinalityType DEF Holders

(* What a step may do to the permits: nothing, give one to a review that   *)
(* has none, or take one back from a review that has it.                   *)
PermitStep ==
    \/ Holders' = Holders /\ slots' = slots
    \/ \E c \in Calls : /\ c \notin Holders /\ Holders' = Holders \cup {c}
                       /\ slots' = slots - 1
    \/ \E c \in Calls : /\ c \in Holders /\ Holders' = Holders \ {c}
                       /\ slots' = slots + 1

LEMMA PermitsKept ==
    ASSUME ReviewTypes, PermitsAccounted, PermitStep
    PROVE  PermitsAccounted'
<1>1. slots + Cardinality(Holders) = MAX_CONCURRENT_REVIEWS
  BY DEF PermitsAccounted, Holders
<1>2. slots' + Cardinality(Holders') = MAX_CONCURRENT_REVIEWS
  <2>1. CASE Holders' = Holders /\ slots' = slots
    BY <1>1, <2>1
  <2>2. ASSUME NEW c \in Calls, c \notin Holders, Holders' = Holders \cup {c}, slots' = slots - 1
        PROVE  slots' + Cardinality(Holders') = MAX_CONCURRENT_REVIEWS
    <3>1. Cardinality(Holders \cup {c}) = Cardinality(Holders) + 1
      BY <2>2, FiniteHolders, FS_AddElement
    <3> QED  BY <1>1, <2>2, <3>1, FiniteHolders DEF ReviewTypes
  <2>3. ASSUME NEW c \in Calls, c \in Holders, Holders' = Holders \ {c}, slots' = slots + 1
        PROVE  slots' + Cardinality(Holders') = MAX_CONCURRENT_REVIEWS
    <3>1. Cardinality(Holders \ {c}) = Cardinality(Holders) - 1
      BY <2>3, FiniteHolders, FS_RemoveElement
    <3> QED  BY <1>1, <2>3, <3>1, FiniteHolders DEF ReviewTypes
  <2> QED  BY <2>1, <2>2, <2>3 DEF PermitStep
<1> QED  BY <1>2 DEF PermitsAccounted, Holders

LEMMA InitInv == Init => ReviewInv
<1> SUFFICES ASSUME Init PROVE ReviewInv
  OBVIOUS
<1>1. Holders = {}
  BY DEF Init, Holders, HoldsSlot
<1>2. PermitsAccounted
  <2>1. Cardinality(Holders) = 0
    BY <1>1, FS_EmptySet
  <2>2. slots \in Nat /\ slots = MAX_CONCURRENT_REVIEWS
    BY ReviewsAssumption DEF Init
  <2>3. slots + Cardinality(Holders) = MAX_CONCURRENT_REVIEWS
    BY <2>1, <2>2
  <2> QED  BY <2>3 DEF PermitsAccounted, Holders
<1> QED
  BY <1>2, ReviewsAssumption DEF Init, ReviewInv, ReviewTypes, ClosureAfterResolve, QueuedOnce,
     OnlyReviewsWait, CallerPlaces, WorkPlaces

-----------------------------------------------------------------------------
(* Everything but the permits. *)
Places == ReviewTypes /\ ClosureAfterResolve /\ QueuedOnce /\ OnlyReviewsWait

(* Where the calls are stays consistent. *)
LEMMA PlacesStep ==
    ASSUME Places, [Next]_vars
    PROVE  Places'
<1> USE DEF Places, ReviewTypes, ClosureAfterResolve, QueuedOnce, OnlyReviewsWait,
       CallsJudge, HoldsSlot, Requests, Reviews, CallerPlaces, WorkPlaces, OnThread
<1>1. CASE UNCHANGED vars
  BY <1>1 DEF vars
<1>2. ASSUME NEW c \in Calls,
             \/ Arrive(c) \/ CallerStep(c) \/ Drop(c) \/ ThreadStep(c) \/ Report(c) \/ Panic(c)
      PROVE  Places'
  <2>1. ASSUME Arrive(c)
        PROVE  Places'
    BY <2>1 DEF Arrive, At
  <2>2. ASSUME ResolveGraph(c)
        PROVE  Places'
    <3>1. CASE request[c] = "missing"
      BY <2>2, <3>1 DEF ResolveGraph, At
    <3>2. CASE request[c] # "missing"
      <4>1. /\ work[c] = "none" /\ work' = [work EXCEPT ![c] = "queued"]
            /\ caller[c] = "resolving" /\ caller' = [caller EXCEPT ![c] = "awaiting"]
            /\ queue' = Append(queue, c) /\ UNCHANGED <<judge, request, slots>>
        BY <2>2, <3>2 DEF ResolveGraph, At
      <4>2. ReviewTypes' /\ ClosureAfterResolve' /\ OnlyReviewsWait'
        BY <4>1
      <4>3. \A i \in 1 .. Len(queue) : queue[i] # c
        BY <4>1
      <4>4. /\ Len(queue') = Len(queue) + 1 /\ queue'[Len(queue) + 1] = c
            /\ \A i \in 1 .. Len(queue) : queue'[i] = queue[i] /\ queue[i] \in Calls
        BY <4>1
      <4>5. QueuedOnce'
        BY <4>1, <4>3, <4>4
      <4> QED  BY <4>2, <4>5
    <3> QED  BY <3>1, <3>2
  <2>3. ASSUME Deliver(c)
        PROVE  Places'
    BY <2>3 DEF Deliver, At
  <2>4. ASSUME RecordAudit(c)
        PROVE  Places'
    BY <2>4 DEF RecordAudit, At
  <2>5. ASSUME Drop(c)
        PROVE  Places'
    BY <2>5 DEF Drop, At
  <2>6. ASSUME StartThread(c)
        PROVE  Places'
    BY <2>6 DEF StartThread, Goto
  <2>7. ASSUME RunAnalysis(c)
        PROVE  Places'
    BY <2>7 DEF RunAnalysis, Finish, Goto
  <2>8. ASSUME Acquire(c)
        PROVE  Places'
    BY <2>8 DEF Acquire, Goto
  <2>9. ASSUME TakeSlot(c)
        PROVE  Places'
    BY <2>9 DEF TakeSlot, Goto
  <2>10. ASSUME EndUnasked(c)
        PROVE  Places'
    BY <2>10 DEF EndUnasked, Finish, Goto
  <2>11. ASSUME Ask(c)
        PROVE  Places'
    BY <2>11 DEF Ask, Goto
  <2>12. ASSUME Timeout(c)
        PROVE  Places'
    BY <2>12 DEF Timeout, Finish, Goto
  <2>13. ASSUME Report(c)
        PROVE  Places'
    BY <2>13 DEF Report, Finish, Goto
  <2>14. ASSUME Panic(c)
        PROVE  Places'
    BY <2>14 DEF Panic, Finish, Goto
  <2> QED
    BY <1>2, <2>1, <2>2, <2>3, <2>4, <2>5, <2>6, <2>7,
       <2>8, <2>9, <2>10, <2>11, <2>12, <2>13, <2>14 DEF CallerStep, ThreadStep
<1> QED  BY <1>1, <1>2 DEF Next

(* Every step moves at most one permit, between the semaphore and a review. *)
LEMMA StepPermits ==
    ASSUME Places, [Next]_vars
    PROVE  PermitStep
<1> USE DEF Places, ReviewTypes, ClosureAfterResolve, QueuedOnce, OnlyReviewsWait,
       CallsJudge, HoldsSlot, Holders, PermitStep
<1>1. CASE UNCHANGED vars
  BY <1>1 DEF vars
<1>2. ASSUME NEW c \in Calls,
             \/ Arrive(c) \/ CallerStep(c) \/ Drop(c) \/ ThreadStep(c) \/ Report(c) \/ Panic(c)
      PROVE  PermitStep
  <2>1. ASSUME Arrive(c)
        PROVE  PermitStep
    BY <2>1 DEF Arrive, At
  <2>2. ASSUME ResolveGraph(c)
        PROVE  PermitStep
    BY <2>2 DEF ResolveGraph, At
  <2>3. ASSUME Deliver(c)
        PROVE  PermitStep
    BY <2>3 DEF Deliver, At
  <2>4. ASSUME RecordAudit(c)
        PROVE  PermitStep
    BY <2>4 DEF RecordAudit, At
  <2>5. ASSUME Drop(c)
        PROVE  PermitStep
    BY <2>5 DEF Drop, At
  <2>6. ASSUME StartThread(c)
        PROVE  PermitStep
    BY <2>6 DEF StartThread, Goto
  <2>7. ASSUME RunAnalysis(c)
        PROVE  PermitStep
    BY <2>7 DEF RunAnalysis, Finish, Goto
  <2>8. ASSUME Acquire(c)
        PROVE  PermitStep
    BY <2>8 DEF Acquire, Goto
  <2>9. ASSUME TakeSlot(c)
        PROVE  PermitStep
    BY <2>9 DEF TakeSlot, Goto
  <2>10. ASSUME EndUnasked(c)
        PROVE  PermitStep
    BY <2>10 DEF EndUnasked, Finish, Goto
  <2>11. ASSUME Ask(c)
        PROVE  PermitStep
    BY <2>11 DEF Ask, Goto
  <2>12. ASSUME Timeout(c)
        PROVE  PermitStep
    BY <2>12 DEF Timeout, Finish, Goto
  <2>13. ASSUME Report(c)
        PROVE  PermitStep
    BY <2>13 DEF Report, Finish, Goto
  <2>14. ASSUME Panic(c)
        PROVE  PermitStep
    BY <2>14 DEF Panic, Finish, Goto
  <2> QED
    BY <1>2, <2>1, <2>2, <2>3, <2>4, <2>5, <2>6, <2>7,
       <2>8, <2>9, <2>10, <2>11, <2>12, <2>13, <2>14 DEF CallerStep, ThreadStep
<1> QED  BY <1>1, <1>2 DEF Next

LEMMA StepInv == ReviewInv /\ [Next]_vars => ReviewInv'
BY PlacesStep, StepPermits, PermitsKept DEF ReviewInv, Places

(* Every permit is free or in the closure of a review, for any number of   *)
(* calls, whoever panics, times out or is dropped.                         *)
THEOREM PermitsNeverLost == Spec => []PermitsAccounted
<1>1. ReviewInv => PermitsAccounted
  BY DEF ReviewInv
<1> QED  BY <1>1, InitInv, StepInv, PTL DEF Spec

(* No more judge calls are in flight than there are permits. *)
THEOREM JudgeBounded == Spec => []JudgeCallsBounded
<1>1. ReviewInv => JudgeCallsBounded
  <2> SUFFICES ASSUME ReviewInv PROVE JudgeCallsBounded
    OBVIOUS
  <2> DEFINE Asking == {c \in Calls : work[c] = "asking"}
  <2>1. Asking \subseteq Holders
    BY DEF ReviewInv, OnlyReviewsWait, Holders, HoldsSlot
  <2>2. Cardinality(Asking) <= Cardinality(Holders) /\ Cardinality(Asking) \in Nat
    BY <2>1, FiniteHolders, FS_Subset, FS_CardinalityType
  <2>3. slots \in Nat /\ slots + Cardinality(Holders) = MAX_CONCURRENT_REVIEWS
    BY DEF ReviewInv, ReviewTypes, PermitsAccounted, Holders
  <2> QED  BY <2>2, <2>3, FiniteHolders DEF JudgeCallsBounded
<1> QED  BY <1>1, InitInv, StepInv, PTL DEF Spec

=============================================================================
