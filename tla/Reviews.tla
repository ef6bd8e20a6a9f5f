------------------------------- MODULE Reviews -------------------------------
(***************************************************************************)
(* plan.review and the other analyses of the server (src/src/server.rs,    *)
(* src/src/review.rs, src/src/llm/jev.rs): a call runs as a closure on the *)
(* blocking pool; a review that will ask the judge first takes one of the  *)
(* review slots, asks once, under a timeout, and its outcome is audited by *)
(* the caller's future, which may be dropped at any of its awaits.         *)
(***************************************************************************)
EXTENDS Naturals, Sequences, FiniteSets

CONSTANTS
    MaxCalls,               \* bound: the tool calls of a run, numbered as they arrive
    MAX_CONCURRENT_REVIEWS, \* permits of the semaphore
    PoolThreads,            \* threads of the runtime's blocking pool
    MaxFaults,              \* bound: callers dropped and closures that panic
    None

ASSUME ReviewsAssumption ==
    /\ MaxCalls \in Nat
    /\ MAX_CONCURRENT_REVIEWS \in Nat \ {0} /\ PoolThreads \in Nat \ {0}

Calls == 1 .. MaxCalls

VARIABLES
    judge,    \* ReviewJudge: "Model", or what keeps the server from having one
    request,  \* [Calls -> what was asked, or None]
    caller,   \* [Calls -> where the caller's future is]
    work,     \* [Calls -> where the closure on the blocking pool is]
    queue,    \* closures the pool has not started, oldest first
    waiters,  \* closures waiting for a slot, oldest first
    slots,    \* free permits
    outcome,  \* [Calls -> how it ended, or None]
    asked,    \* calls whose review asked the judge
    faults,   \* counter of the bound
    audit     \* [Calls -> the events of the call in the audit sink]

vars == <<judge, request, caller, work, queue, waiters, slots, outcome, asked, faults, audit>>

(* A review by what becomes of it: bad params, a plan or file that is missing, a graph
   with lint errors, one that cannot be simulated or has nothing to ask about, one with
   questions.  An analysis is plan.simulate, plan.ev, ... *)
Reviews == {"bad_params", "missing", "lint_errors", "no_questions", "questions"}
Requests == Reviews \cup {"analysis"}

CallerPlaces == {"idle", "resolving", "awaiting", "auditing", "done", "dropped"}
OnThread == {"running", "waiting", "reviewing", "asking"}
WorkPlaces == OnThread \cup {"none", "queued", "ended"}
Outcomes == {"ok", "invalid_graph", "review_unavailable", "error", "panic"}

Init ==
    /\ judge \in {"Model", "Unavailable"}
    /\ request = [c \in Calls |-> None]
    /\ caller = [c \in Calls |-> "idle"]
    /\ work = [c \in Calls |-> "none"]
    /\ queue = <<>> /\ waiters = <<>> /\ slots = MAX_CONCURRENT_REVIEWS
    /\ outcome = [c \in Calls |-> None]
    /\ asked = {} /\ faults = 0 /\ audit = [c \in Calls |-> <<>>]

-----------------------------------------------------------------------------
(* The caller's future. *)

At(c, place) == caller' = [caller EXCEPT ![c] = place]

(* The params are checked; a rejected one is neither run nor audited. *)
Arrive(c) ==
    /\ caller[c] = "idle" /\ \A d \in 1 .. c - 1 : caller[d] # "idle"
    /\ \E r \in Requests :
        /\ request' = [request EXCEPT ![c] = r]
        /\ At(c, IF r = "bad_params" THEN "done" ELSE "resolving")
    /\ UNCHANGED <<judge, work, queue, waiters, slots, outcome, asked, faults, audit>>

(* The graph is resolved, and the closure handed to the pool; a plan or file that
   is missing is a failed review, and is audited. *)
ResolveGraph(c) ==
    /\ caller[c] = "resolving"
    /\ IF request[c] = "missing"
       THEN /\ At(c, "auditing")
            /\ outcome' = [outcome EXCEPT ![c] = "error"]
            /\ UNCHANGED <<work, queue>>
       ELSE /\ At(c, "awaiting")
            /\ work' = [work EXCEPT ![c] = "queued"]
            /\ queue' = Append(queue, c)
            /\ UNCHANGED outcome
    /\ UNCHANGED <<judge, request, waiters, slots, asked, faults, audit>>

(* The closure has ended.  A panic becomes a generic error and is not audited. *)
Deliver(c) ==
    /\ caller[c] = "awaiting" /\ work[c] = "ended"
    /\ At(c, IF request[c] \in Reviews /\ outcome[c] # "panic" THEN "auditing" ELSE "done")
    /\ UNCHANGED <<judge, request, work, queue, waiters, slots, outcome, asked, faults, audit>>

RecordAudit(c) ==
    /\ caller[c] = "auditing"
    /\ audit' = [audit EXCEPT ![c] = Append(@, [status |-> outcome[c], jev_called |-> c \in asked])]
    /\ At(c, "done")
    /\ UNCHANGED <<judge, request, work, queue, waiters, slots, outcome, asked, faults>>

(* Does the closure of a review hold a slot?  The permit lives in the closure. *)
CallsJudge(c) == judge = "Model" /\ request[c] \in Reviews \ {"lint_errors"}
HoldsSlot(c) == work[c] \in {"reviewing", "asking"} /\ CallsJudge(c)

(* Mutant: the permit lives in the caller's future. *)
DropReturnsSlot(c) ==
    /\ caller[c] \in {"resolving", "awaiting", "auditing"} /\ faults < MaxFaults
    /\ faults' = faults + 1
    /\ At(c, "dropped")
    /\ slots' = IF HoldsSlot(c) THEN slots + 1 ELSE slots
    /\ UNCHANGED <<judge, request, work, queue, waiters, outcome, asked, audit>>

(* The caller's future is dropped at an await; the closure is not cancelled. *)
Drop(c) ==
    /\ caller[c] \in {"resolving", "awaiting", "auditing"} /\ faults < MaxFaults
    /\ faults' = faults + 1
    /\ At(c, "dropped")
    /\ UNCHANGED <<judge, request, work, queue, waiters, slots, outcome, asked, audit>>

-----------------------------------------------------------------------------
(* The closure on the blocking pool. *)

Goto(c, place) == work' = [work EXCEPT ![c] = place]

Threads == {c \in Calls : work[c] \in OnThread}

StartThread(c) ==
    /\ queue # <<>> /\ c = Head(queue)
    /\ Cardinality(Threads) < PoolThreads
    /\ queue' = Tail(queue)
    /\ Goto(c, "running")
    /\ UNCHANGED <<judge, request, caller, waiters, slots, outcome, asked, faults, audit>>

(* The closure returns or unwinds: its permit goes back and its thread is free. *)
Finish(c, o) ==
    /\ UNCHANGED <<judge, request, caller, queue, waiters, asked, audit>>
    /\ Goto(c, "ended")
    /\ outcome' = [outcome EXCEPT ![c] = o]
    /\ slots' = IF HoldsSlot(c) THEN slots + 1 ELSE slots
    /\ faults' = IF o = "panic" THEN faults + 1 ELSE faults

RunAnalysis(c) ==
    /\ work[c] = "running" /\ request[c] = "analysis"
    /\ \E o \in {"ok", "error"} : Finish(c, o)

(* Only a review that will ask the judge queues for a slot. *)
Acquire(c) ==
    /\ work[c] = "running" /\ request[c] \in Reviews
    /\ IF CallsJudge(c)
       THEN Goto(c, "waiting") /\ waiters' = Append(waiters, c)
       ELSE Goto(c, "reviewing") /\ UNCHANGED waiters
    /\ UNCHANGED <<judge, request, caller, queue, slots, outcome, asked, faults, audit>>

TakeSlot(c) ==
    /\ work[c] = "waiting" /\ c = Head(waiters) /\ slots > 0
    /\ slots' = slots - 1
    /\ waiters' = Tail(waiters)
    /\ Goto(c, "reviewing")
    /\ UNCHANGED <<judge, request, caller, queue, outcome, asked, faults, audit>>

(* The ways a review ends without a question, in the order of the code. *)
EndUnasked(c) ==
    /\ work[c] = "reviewing"
    /\ \/ request[c] = "lint_errors" /\ Finish(c, "invalid_graph")
       \/ request[c] # "lint_errors" /\ judge # "Model" /\ Finish(c, "review_unavailable")
       \/ /\ CallsJudge(c) /\ request[c] = "no_questions"
          /\ \E o \in {"ok", "error"} : Finish(c, o)

Ask(c) ==
    /\ work[c] = "reviewing" /\ CallsJudge(c) /\ request[c] = "questions"
    /\ asked' = asked \cup {c}
    /\ Goto(c, "asking")
    /\ UNCHANGED <<judge, request, caller, queue, waiters, slots, outcome, faults, audit>>

(* Mutant: the provider is waited for without a timeout. *)
NoTimeout(c) == FALSE

(* The provider fails, or JevJudge::decide's timeout ends the call. *)
Timeout(c) ==
    /\ work[c] = "asking"
    /\ Finish(c, "review_unavailable")

(* The answers arrive, and become findings, verified proposals and edge coverage. *)
Report(c) ==
    /\ work[c] = "asking"
    /\ Finish(c, "ok")

(* Mutant: the unwinding closure forgets its permit. *)
PanicLeaks(c) ==
    /\ work[c] \in OnThread \ {"waiting"} /\ faults < MaxFaults
    /\ faults' = faults + 1
    /\ Goto(c, "ended")
    /\ outcome' = [outcome EXCEPT ![c] = "panic"]
    /\ UNCHANGED <<judge, request, caller, queue, waiters, slots, asked, audit>>

Panic(c) ==
    /\ work[c] \in OnThread \ {"waiting"} /\ faults < MaxFaults
    /\ Finish(c, "panic")

-----------------------------------------------------------------------------
CallerStep(c) == ResolveGraph(c) \/ Deliver(c) \/ RecordAudit(c)
ThreadStep(c) ==
    \/ StartThread(c) \/ RunAnalysis(c) \/ Acquire(c) \/ TakeSlot(c)
    \/ EndUnasked(c) \/ Ask(c) \/ Timeout(c)

Next == \E c \in Calls : Arrive(c) \/ CallerStep(c) \/ Drop(c) \/ ThreadStep(c) \/ Report(c) \/ Panic(c)

(* The runtime polls every live future and every pool thread; the timer of the
   judge call fires, whatever the provider does. *)
Fairness == \A c \in Calls : WF_vars(CallerStep(c)) /\ WF_vars(ThreadStep(c))

Spec == Init /\ [][Next]_vars /\ Fairness

-----------------------------------------------------------------------------
TypeOK ==
    /\ judge \in {"Model", "Unavailable"}
    /\ request \in [Calls -> Requests \cup {None}]
    /\ caller \in [Calls -> CallerPlaces] /\ work \in [Calls -> WorkPlaces]
    /\ slots \in 0 .. MAX_CONCURRENT_REVIEWS
    /\ outcome \in [Calls -> Outcomes \cup {None}]
    /\ asked \subseteq Calls

(* At most MAX_CONCURRENT_REVIEWS judge calls are in flight, although a caller may
   be gone, a closure may panic and the permit outlives the future that asked for
   it (server.rs:2307-2325). *)
JudgeCallsBounded == Cardinality({c \in Calls : work[c] = "asking"}) <= MAX_CONCURRENT_REVIEWS

(* Every permit is free or in the closure of a review: no error, timeout, panic or
   dropped caller loses one, so the slots never run out for good. *)
PermitsAccounted == slots + Cardinality({c \in Calls : HoldsSlot(c)}) = MAX_CONCURRENT_REVIEWS

(* A review that answered its caller, other than one with bad params or one that
   panicked, left exactly one audit event, with its own outcome, that says the judge was
   asked exactly when it was (server.rs:2283, 2377-2410). *)
RepliesAudited ==
    \A c \in Calls : caller[c] = "done" /\ request[c] \in Reviews \ {"bad_params"} /\ outcome[c] # "panic" =>
        audit[c] = <<[status |-> outcome[c], jev_called |-> c \in asked]>>

(* Every closure handed to the pool ends, the plain analyses queued behind reviews
   that hold a thread while they wait for a slot included, whatever the provider does. *)
EveryCallEnds == \A c \in Calls : work[c] = "queued" ~> work[c] = "ended"

==============================================================================
