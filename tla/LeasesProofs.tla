---------------------------- MODULE LeasesProofs ----------------------------
(***************************************************************************)
(* What holds of the leases of a plan for every set of deliverables,       *)
(* files, callers and graphs, every retry budget and every lease length;   *)
(* that they implement the plan service comes last.                        *)
(***************************************************************************)
EXTENDS LeasesService, TLAPS

(* FileExclusion is inductive only together with the types and the         *)
(* validity of the current graph: the order of acquire_cohort's picks is   *)
(* total because a valid graph ranks its deliverables injectively.         *)
LeaseInv == TypeOK /\ graph \in ValidGraphs /\ FileExclusion

-----------------------------------------------------------------------------
(* Operators *)

(* What the operators of PlanState and PlanRevision return. *)

LEMMA ClashSymmetric ==
  ASSUME NEW g, NEW d, NEW e, FilesClash(g, d, e)
  PROVE  FilesClash(g, e, d)
  BY DEF FilesClash, ModesConflict

LEMMA RederivedType ==
  ASSUME NEW g, NEW st \in [Deliverable -> Status \cup {Absent}], NEW lost
  PROVE  Rederived(g, st, lost) \in [Deliverable -> Status \cup {Absent}]
  BY DEF Rederived, Rederive, Status

LEMMA CompletedType ==
  ASSUME NEW g, NEW st \in [Deliverable -> Status \cup {Absent}],
         NEW d \in Deliverable
  PROVE  Completed(g, st, d) \in [Deliverable -> Status \cup {Absent}]
  BY DEF Completed, Status

LEMMA RevisedStatusType ==
  ASSUME NEW old, NEW new, NEW live,
         NEW st \in [Deliverable -> Status \cup {Absent}]
  PROVE  RevisedStatus(old, new, st, live)
           \in [Deliverable -> Status \cup {Absent}]
  BY DEF RevisedStatus, Status

LEMMA BumpType ==
  ASSUME NEW limit \in Nat, NEW count \in [Deliverable -> 0..limit], NEW D
  PROVE  Bump(count, D, limit) \in [Deliverable -> 0..limit]
  BY DEF Bump

LEMMA WithoutType ==
  ASSUME TypeOK, NEW lost
  PROVE  Without(lost) \in [Deliverable -> Lease \cup {NoLease}]
  BY DEF Without, TypeOK

(* What every transaction leaves of the three saved variables. *)
LEMMA SaveType ==
  ASSUME NEW st \in [Deliverable -> Status \cup {Absent}],
         NEW ls \in [Deliverable -> Lease \cup {NoLease}],
         NEW ll \in SUBSET Deliverable,
         Save(st, ls, ll)
  PROVE  /\ status' \in [Deliverable -> Status \cup {Absent}]
         /\ lease' \in [Deliverable -> Lease \cup {NoLease}]
         /\ lockless' \subseteq Deliverable
  BY DEF Save

(* A greedy cohort joins the held leases without a clash. *)
LEMMA CohortDisjoint ==
  ASSUME NEW g \in Graph, NEW ready \in SUBSET g.ids, NEW held, NEW n,
         NEW cohort, Injective(g.prio, g.ids),
         GreedyCohort(g, ready, held, n, cohort)
  PROVE  /\ \A d, e \in cohort : d # e => ~ FilesClash(g, d, e)
         /\ \A d \in cohort, e \in held : ~ FilesClash(g, d, e)
  <1>1. \A d \in cohort, e \in held : ~ FilesClash(g, d, e)
    BY DEF GreedyCohort
  <1>2. \A d, e \in cohort : g.prio[e] < g.prio[d] => ~ FilesClash(g, d, e)
    BY DEF GreedyCohort
  <1>3. ASSUME NEW d \in cohort, NEW e \in cohort, d # e
        PROVE  ~ FilesClash(g, d, e)
    <2>1. d \in Deliverable /\ e \in Deliverable /\ d \in g.ids /\ e \in g.ids
      BY DEF GreedyCohort, Graph
    <2>2. g.prio[d] \in Nat /\ g.prio[e] \in Nat /\ g.prio[d] # g.prio[e]
      BY <1>3, <2>1 DEF Graph, Injective
    <2>3. CASE g.prio[e] < g.prio[d]
      BY <1>2, <2>3
    <2>4. CASE g.prio[d] < g.prio[e]
      BY <1>2, <2>4, ClashSymmetric
    <2>5. QED
      BY <2>2, <2>3, <2>4
  <1>4. QED
    BY <1>1, <1>3

(* The leases a revision keeps do not clash in the new graph. *)
LEMMA KeptLeasesDisjoint ==
  ASSUME NEW old, NEW new \in Graph, NEW leased \in SUBSET new.ids,
         NEW evictor, Injective(new.order, new.ids), NoBarrier \notin Deliverable,
         Evictions(old, new, leased, evictor)
  PROVE  \A d, e \in leased :
           d # e /\ evictor[d] = NoBarrier /\ evictor[e] = NoBarrier
             => ~ FilesClash(new, d, e)
  <1>1. leased \subseteq Deliverable /\ NoBarrier \notin leased
    BY DEF Graph
  <1>2. ASSUME NEW d \in leased, NEW e \in leased, new.order[e] < new.order[d],
               evictor[d] = NoBarrier, evictor[e] = NoBarrier
        PROVE  ~ FilesClash(new, d, e)
    <2> DEFINE holders == {x \in leased :
                             /\ new.order[x] < new.order[d]
                             /\ evictor[x] # x
                             /\ evictor[x] \in leased =>
                                  new.order[evictor[x]] >= new.order[d]}
               clashing == {x \in holders : FilesClash(new, d, x)}
               yielding == {x \in clashing : /\ FilesChanged(old, new, x)
                                             /\ ~ FilesChanged(old, new, d)}
               evicted  == {x \in leased : x # d /\ evictor[x] = d}
    <2>1. /\ clashing = yielding => evicted = yielding
          /\ clashing # yielding => evictor[d] = d
      BY DEF Evictions
    <2>2. clashing = yielding /\ evicted = yielding
      BY <1>1, <1>2, <2>1
    <2>3. e \in holders
      BY <1>1, <1>2
    <2>4. e \notin evicted
      BY <1>1, <1>2
    <2>5. QED
      BY <2>2, <2>3, <2>4
  <1>3. ASSUME NEW d \in leased, NEW e \in leased, d # e,
               evictor[d] = NoBarrier, evictor[e] = NoBarrier
        PROVE  ~ FilesClash(new, d, e)
    <2>1. new.order[d] \in Nat /\ new.order[e] \in Nat
          /\ new.order[d] # new.order[e]
      BY <1>1, <1>3 DEF Graph, Injective
    <2>2. CASE new.order[e] < new.order[d]
      BY <1>2, <1>3, <2>2
    <2>3. CASE new.order[d] < new.order[e]
      BY <1>2, <1>3, <2>3, ClashSymmetric
    <2>4. QED
      BY <2>1, <2>2, <2>3
  <1>4. QED
    BY <1>3

-----------------------------------------------------------------------------
(* Types *)

LEMMA InitType == Init => TypeOK /\ graph \in ValidGraphs
  <1> SUFFICES ASSUME Init PROVE TypeOK /\ graph \in ValidGraphs
    OBVIOUS
  <1>1. status \in [Deliverable -> Status \cup {Absent}]
    BY DEF Init, InitialStatus, Status
  <1>2. graph \in Graphs /\ graph \in ValidGraphs
    BY DEF Init, ValidGraphs
  <1>3. /\ failures \in [Deliverable -> 0..MaxAttempts]
        /\ lapses \in [Deliverable -> 0..MaxLapses]
    BY LeasesAssumption DEF Init
  <1>4. lease \in [Deliverable -> Lease \cup {NoLease}]
    BY DEF Init
  <1>5. lockless \subseteq Deliverable /\ baseline \in BOOLEAN
    BY DEF Init
  <1>6. QED
    BY <1>1, <1>2, <1>3, <1>4, <1>5 DEF TypeOK

LEMMA AcquireType ==
  ASSUME TypeOK, NEW w \in Caller, NEW scope \in SUBSET Deliverable, NEW n,
         NEW ttl \in Ttls, NEW age \in Ages,
         AcquireCohort(w, scope, n, ttl, age)
  PROVE  TypeOK'
  <1> DEFINE reaped == ReapedStatus(age)
             held   == Without(Lapsed(age))
             broken == [d \in Deliverable |->
                          IF d \in {x \in graph.ids :
                                      reaped[x] = "ready" /\ failures[x] >= MaxAttempts}
                          THEN "failed" ELSE reaped[d]]
  <1>1. reaped \in [Deliverable -> Status \cup {Absent}]
    BY RederivedType DEF TypeOK, ReapedStatus
  <1>2. broken \in [Deliverable -> Status \cup {Absent}]
    BY <1>1 DEF Status
  <1>3. held \in [Deliverable -> Lease \cup {NoLease}]
    BY WithoutType
  <1>4. [holder |-> w, left |-> ttl - age] \in Lease
    BY LeasesAssumption DEF Lease, Ttls, Ages
  <1>5. PICK cohort :
          /\ Save([d \in Deliverable |->
                     IF d \in cohort THEN "in_progress" ELSE broken[d]],
                  [d \in Deliverable |->
                     IF d \in cohort THEN [holder |-> w, left |-> ttl - age]
                     ELSE held[d]],
                  lockless \ cohort)
          /\ UNCHANGED baseline \/ EnsureExecutionBaseline
    BY DEF AcquireCohort
  <1>6. /\ status' \in [Deliverable -> Status \cup {Absent}]
        /\ lease' \in [Deliverable -> Lease \cup {NoLease}]
        /\ lockless' \subseteq Deliverable
    <2>1. [d \in Deliverable |->
             IF d \in cohort THEN "in_progress" ELSE broken[d]]
             \in [Deliverable -> Status \cup {Absent}]
      BY <1>2 DEF Status
    <2>2. [d \in Deliverable |->
             IF d \in cohort THEN [holder |-> w, left |-> ttl - age] ELSE held[d]]
             \in [Deliverable -> Lease \cup {NoLease}]
      BY <1>3, <1>4
    <2>3. lockless \ cohort \in SUBSET Deliverable
      BY DEF TypeOK
    <2>4. QED
      BY <1>5, <2>1, <2>2, <2>3, SaveType
  <1>7. lapses' \in [Deliverable -> 0..MaxLapses]
    BY BumpType, LeasesAssumption DEF AcquireCohort, TypeOK
  <1>8. baseline' \in BOOLEAN
    BY <1>5 DEF EnsureExecutionBaseline, TypeOK
  <1>9. QED
    BY <1>6, <1>7, <1>8 DEF AcquireCohort, TypeOK

LEMMA MarkType ==
  ASSUME TypeOK, NEW w \in Caller, NEW d \in Deliverable,
         \/ MarkComplete(w, d)
         \/ MarkFailed(w, d)
         \/ \E s \in Marks : MarkOpen(w, d, s)
  PROVE  TypeOK'
  <1>1. EndLease(lease, d) \in [Deliverable -> Lease \cup {NoLease}]
    BY DEF EndLease, TypeOK
  <1>2. lockless \ {d} \in SUBSET Deliverable
    BY DEF TypeOK
  <1>3. CASE MarkComplete(w, d)
    <2>1. Completed(graph, status, d) \in [Deliverable -> Status \cup {Absent}]
      BY CompletedType DEF TypeOK
    <2>2. CASE UNCHANGED <<status, lease, lockless>>
      BY <1>3, <2>2 DEF MarkComplete, EnsureExecutionBaseline, TypeOK
    <2>3. CASE Save(Completed(graph, status, d), EndLease(lease, d), lockless \ {d})
      <3>1. /\ status' \in [Deliverable -> Status \cup {Absent}]
            /\ lease' \in [Deliverable -> Lease \cup {NoLease}]
            /\ lockless' \subseteq Deliverable
        BY <1>1, <1>2, <2>1, <2>3, SaveType
      <3>2. QED
        BY <1>3, <3>1 DEF MarkComplete, EnsureExecutionBaseline, TypeOK
    <2>4. QED
      BY <1>3, <2>2, <2>3 DEF MarkComplete
  <1>4. CASE MarkFailed(w, d)
    <2>1. [status EXCEPT ![d] = "failed"] \in [Deliverable -> Status \cup {Absent}]
      BY DEF TypeOK, Status
    <2>2. /\ status' \in [Deliverable -> Status \cup {Absent}]
          /\ lease' \in [Deliverable -> Lease \cup {NoLease}]
          /\ lockless' \subseteq Deliverable
      BY <1>1, <1>2, <1>4, <2>1, SaveType DEF MarkFailed
    <2>3. failures' \in [Deliverable -> 0..MaxAttempts]
      BY <1>4, BumpType, LeasesAssumption DEF MarkFailed, TypeOK
    <2>4. QED
      BY <1>4, <2>2, <2>3 DEF MarkFailed, TypeOK
  <1>5. CASE \E s \in Marks : MarkOpen(w, d, s)
    <2>1. PICK s \in Marks : MarkOpen(w, d, s)
      BY <1>5
    <2>2. [status EXCEPT ![d] = s] \in [Deliverable -> Status \cup {Absent}]
      BY LeasesAssumption DEF TypeOK
    <2>3. lease \in [Deliverable -> Lease \cup {NoLease}]
      BY DEF TypeOK
    <2>4. PICK ll \in SUBSET Deliverable :
            Save([status EXCEPT ![d] = s], lease, ll)
      BY <2>1 DEF MarkOpen, TypeOK
    <2>5. /\ status' \in [Deliverable -> Status \cup {Absent}]
          /\ lease' \in [Deliverable -> Lease \cup {NoLease}]
          /\ lockless' \subseteq Deliverable
      BY <2>2, <2>3, <2>4, SaveType
    <2>6. baseline' \in BOOLEAN
      BY <2>1 DEF MarkOpen, EnsureExecutionBaseline, TypeOK
    <2>7. QED
      BY <2>1, <2>5, <2>6 DEF MarkOpen, TypeOK
  <1>6. QED
    BY <1>3, <1>4, <1>5

LEMMA HeartbeatType ==
  ASSUME TypeOK, NEW w \in Caller, NEW d \in Deliverable, NEW age \in Ages,
         \/ \E ttl \in Ttls : HeartbeatExplicit(w, d, ttl, age)
         \/ HeartbeatDefault(w, d, age)
  PROVE  TypeOK'
  <1>1. PICK left \in (-1 - MaxAge)..MaxTtl : Heartbeat(w, d, left)
    <2>1. CASE \E ttl \in Ttls : HeartbeatExplicit(w, d, ttl, age)
      <3>1. PICK ttl \in Ttls : Heartbeat(w, d, ttl - age)
        BY <2>1 DEF HeartbeatExplicit
      <3>2. ttl - age \in (-1 - MaxAge)..MaxTtl
        BY LeasesAssumption DEF Ttls, Ages
      <3>3. QED
        BY <3>1, <3>2
    <2>2. CASE HeartbeatDefault(w, d, age)
      <3>1. lease[d].left \in (-1 - MaxAge)..MaxTtl
        BY <2>2 DEF HeartbeatDefault, Leased, TypeOK, Lease
      <3>2. DefaultTtl - age \in (-1 - MaxAge)..MaxTtl
        BY LeasesAssumption DEF Ages
      <3>3. QED
        BY <2>2, <3>1, <3>2 DEF HeartbeatDefault
    <2>3. QED
      BY <2>1, <2>2
  <1>2. lease' \in [Deliverable -> Lease \cup {NoLease}]
    BY <1>1 DEF Heartbeat, Leased, TypeOK, Lease
  <1>3. QED
    BY <1>1, <1>2 DEF Heartbeat, TypeOK

LEMMA AcceptType ==
  ASSUME TypeOK, NEW d \in Deliverable, NEW override \in BOOLEAN,
         NEW age \in Ages, Accept(d, override, age)
  PROVE  TypeOK'
  <1> DEFINE reaped == ReapedStatus(age)
             held   == Without(Lapsed(age))
  <1>1. reaped \in [Deliverable -> Status \cup {Absent}]
    BY RederivedType DEF TypeOK, ReapedStatus
  <1>2. Completed(graph, reaped, d) \in [Deliverable -> Status \cup {Absent}]
    BY <1>1, CompletedType
  <1>3. held \in [Deliverable -> Lease \cup {NoLease}]
    BY WithoutType
  <1>4. EndLease(held, d) \in [Deliverable -> Lease \cup {NoLease}]
    BY <1>3 DEF EndLease
  <1>5. lockless \in SUBSET Deliverable
    BY DEF TypeOK
  <1>6. \/ Save(reaped, held, lockless)
        \/ Save(Completed(graph, reaped, d), EndLease(held, d), lockless)
    BY DEF Accept
  <1>7. /\ status' \in [Deliverable -> Status \cup {Absent}]
        /\ lease' \in [Deliverable -> Lease \cup {NoLease}]
        /\ lockless' \subseteq Deliverable
    BY <1>1, <1>2, <1>3, <1>4, <1>5, <1>6, SaveType
  <1>8. lapses' \in [Deliverable -> 0..MaxLapses]
    BY BumpType, LeasesAssumption DEF Accept, TypeOK
  <1>9. QED
    BY <1>7, <1>8 DEF Accept, TypeOK

LEMMA ForceReleaseType ==
  ASSUME TypeOK, NEW d \in Deliverable, NEW reset \in BOOLEAN,
         ForceRelease(d, reset)
  PROVE  TypeOK'
  <1> DEFINE released == IF d \in Leased THEN [status EXCEPT ![d] = "ready"]
                         ELSE status
             zeroed(count) == IF reset THEN [count EXCEPT ![d] = 0] ELSE count
  <1>1. released \in [Deliverable -> Status \cup {Absent}]
    BY DEF TypeOK, Status
  <1>2. Rederived(graph, released, {d}) \in [Deliverable -> Status \cup {Absent}]
    BY <1>1, RederivedType
  <1>3. EndLease(lease, d) \in [Deliverable -> Lease \cup {NoLease}]
    BY DEF EndLease, TypeOK
  <1>4. lockless \in SUBSET Deliverable
    BY DEF TypeOK
  <1>5. Save(IF reset /\ released[d] = "failed"
             THEN Rederived(graph, released, {d}) ELSE released,
             EndLease(lease, d), lockless)
    BY DEF ForceRelease
  <1>6. /\ status' \in [Deliverable -> Status \cup {Absent}]
        /\ lease' \in [Deliverable -> Lease \cup {NoLease}]
        /\ lockless' \subseteq Deliverable
    <2>1. CASE reset /\ released[d] = "failed"
      <3>1. Save(Rederived(graph, released, {d}), EndLease(lease, d), lockless)
        BY <1>5, <2>1
      <3>2. QED
        BY <1>2, <1>3, <1>4, <3>1, SaveType
    <2>2. CASE ~ (reset /\ released[d] = "failed")
      <3>1. Save(released, EndLease(lease, d), lockless)
        BY <1>5, <2>2
      <3>2. QED
        BY <1>1, <1>3, <1>4, <3>1, SaveType
    <2>3. QED
      BY <2>1, <2>2
  <1>7. /\ zeroed(failures) \in [Deliverable -> 0..MaxAttempts]
        /\ zeroed(lapses) \in [Deliverable -> 0..MaxLapses]
    BY LeasesAssumption DEF TypeOK
  <1>8. QED
    BY <1>6, <1>7 DEF ForceRelease, TypeOK

LEMMA ReviseType ==
  ASSUME TypeOK, NEW new, NEW force, NEW age \in Ages, Revise(new, force, age)
  PROVE  TypeOK' /\ graph' \in ValidGraphs
  <1> DEFINE reaped  == ReapedStatus(age)
             live    == Leased \ Lapsed(age)
             lapsed  == Bump(lapses, Lapsed(age), MaxLapses)
             carried == (live \cap new.ids) \ Superseded(graph, new, reaped, live)
             revised == RevisedStatus(graph, new, reaped, live)
             kept(count) == [d \in Deliverable |->
                               IF d \in new.ids THEN count[d] ELSE 0]
  <1>1. revised \in [Deliverable -> Status \cup {Absent}]
    <2>1. reaped \in [Deliverable -> Status \cup {Absent}]
      BY RederivedType DEF TypeOK, ReapedStatus
    <2>2. QED
      BY <2>1, RevisedStatusType
  <1>2. PICK evictor :
          Save(Rederived(new, revised, {d \in carried : evictor[d] # NoBarrier}),
               Without(Deliverable \
                         (carried \ {d \in carried : evictor[d] # NoBarrier})),
               lockless \cap new.ids)
    BY DEF Revise
  <1>3. /\ status' \in [Deliverable -> Status \cup {Absent}]
        /\ lease' \in [Deliverable -> Lease \cup {NoLease}]
        /\ lockless' \subseteq Deliverable
    <2> DEFINE released == {d \in carried : evictor[d] # NoBarrier}
    <2>1. Rederived(new, revised, released)
            \in [Deliverable -> Status \cup {Absent}]
      BY <1>1, RederivedType
    <2>2. Without(Deliverable \ (carried \ released))
            \in [Deliverable -> Lease \cup {NoLease}]
      BY WithoutType
    <2>3. lockless \cap new.ids \in SUBSET Deliverable
      BY DEF TypeOK
    <2>4. QED
      BY <1>2, <2>1, <2>2, <2>3, SaveType
  <1>4. lapsed \in [Deliverable -> 0..MaxLapses]
    BY BumpType, LeasesAssumption DEF TypeOK
  <1>5. /\ kept(failures) \in [Deliverable -> 0..MaxAttempts]
        /\ kept(lapsed) \in [Deliverable -> 0..MaxLapses]
    BY <1>4, LeasesAssumption DEF TypeOK
  <1>6. /\ graph' = new /\ new \in ValidGraphs /\ new \in Graphs
        /\ failures' = kept(failures) /\ lapses' = kept(lapsed)
        /\ baseline' = baseline
    BY DEF Revise, ValidGraphs
  <1>7. QED
    BY <1>3, <1>5, <1>6 DEF TypeOK

LEMMA SweepType ==
  ASSUME TypeOK, NEW age \in Ages, Sweep(age)
  PROVE  TypeOK'
  <1> DEFINE lost == Lapsed(age) \cup Orphans
  <1>1. Rederived(graph, status, lost) \in [Deliverable -> Status \cup {Absent}]
    BY RederivedType DEF TypeOK
  <1>2. Without(lost) \in [Deliverable -> Lease \cup {NoLease}]
    BY WithoutType
  <1>3. lockless \ lost \in SUBSET Deliverable
    BY DEF TypeOK
  <1>4. /\ status' \in [Deliverable -> Status \cup {Absent}]
        /\ lease' \in [Deliverable -> Lease \cup {NoLease}]
        /\ lockless' \subseteq Deliverable
    BY <1>1, <1>2, <1>3, SaveType DEF Sweep
  <1>5. lapses' \in [Deliverable -> 0..MaxLapses]
    BY BumpType, LeasesAssumption DEF Sweep, TypeOK
  <1>6. QED
    BY <1>4, <1>5 DEF Sweep, TypeOK

LEMMA TickType ==
  ASSUME TypeOK, Tick
  PROVE  TypeOK'
  <1>1. ASSUME NEW d \in Deliverable, lease[d] # NoLease,
               lease[d].left # -1 - MaxAge
        PROVE  [lease[d] EXCEPT !.left = @ - 1] \in Lease
    <2>1. lease[d] \in Lease
      BY <1>1 DEF TypeOK
    <2>2. lease[d].left - 1 \in (-1 - MaxAge)..MaxTtl
      BY <1>1, <2>1, LeasesAssumption DEF Lease
    <2>3. QED
      BY <2>1, <2>2 DEF Lease
  <1>2. lease' \in [Deliverable -> Lease \cup {NoLease}]
    BY <1>1 DEF Tick, TypeOK
  <1>3. QED
    BY <1>2 DEF Tick, TypeOK

(* One step keeps the types and the validity of the graph. *)
LEMMA StepType ==
  ASSUME TypeOK, graph \in ValidGraphs, [Next]_vars
  PROVE  TypeOK' /\ graph' \in ValidGraphs
  <1>1. CASE UNCHANGED vars
    BY <1>1 DEF vars, TypeOK
  <1>2. ASSUME NEW w \in Caller, CallerStep(w)
        PROVE  TypeOK' /\ graph' = graph
    <2>1. CASE \E scope \in Scopes, n \in Counts, ttl \in Ttls, age \in Ages :
                 AcquireCohort(w, scope, n, ttl, age)
      <3>1. PICK scope \in Scopes, n \in Counts, ttl \in Ttls, age \in Ages :
              AcquireCohort(w, scope, n, ttl, age)
        BY <2>1
      <3>2. scope \in SUBSET Deliverable
        BY LeasesAssumption
      <3>3. TypeOK'
        BY <3>1, <3>2, AcquireType
      <3>4. graph' = graph
        BY <3>1 DEF AcquireCohort
      <3>5. QED
        BY <3>3, <3>4
    <2>2. ASSUME NEW d \in Deliverable,
                 \/ MarkComplete(w, d)
                 \/ MarkFailed(w, d)
                 \/ \E s \in Marks : MarkOpen(w, d, s)
          PROVE  TypeOK' /\ graph' = graph
      BY <2>2, MarkType DEF MarkComplete, MarkFailed, MarkOpen
    <2>3. ASSUME NEW d \in Deliverable, NEW age \in Ages,
                 \/ \E ttl \in Ttls : HeartbeatExplicit(w, d, ttl, age)
                 \/ HeartbeatDefault(w, d, age)
          PROVE  TypeOK' /\ graph' = graph
      BY <2>3, HeartbeatType
         DEF HeartbeatExplicit, HeartbeatDefault, Heartbeat
    <2>4. QED
      BY <1>2, <2>1, <2>2, <2>3 DEF CallerStep
  <1>3. CASE OperatorStep
    <2>1. CASE \E d \in Deliverable, override \in BOOLEAN, age \in Ages :
                 Accept(d, override, age)
      BY <2>1, AcceptType DEF Accept
    <2>2. CASE \E d \in Deliverable, reset \in BOOLEAN : ForceRelease(d, reset)
      BY <2>2, ForceReleaseType DEF ForceRelease
    <2>3. CASE \E new \in Graphs, force \in BOOLEAN, age \in Ages :
                 Revise(new, force, age)
      BY <2>3, ReviseType
    <2>4. CASE \E age \in Ages : Sweep(age)
      BY <2>4, SweepType DEF Sweep
    <2>5. CASE TakeBaseline
      BY <2>5 DEF TakeBaseline, TypeOK
    <2>6. QED
      BY <1>3, <2>1, <2>2, <2>3, <2>4, <2>5 DEF OperatorStep
  <1>4. CASE Tick
    BY <1>4, TickType DEF Tick
  <1>5. QED
    BY <1>1, <1>2, <1>3, <1>4 DEF Next

(* Every variable keeps its type: leases stay within the longest one a     *)
(* caller may ask for, counters within their budgets.                      *)
THEOREM TypeCorrect == Spec => [](TypeOK /\ graph \in ValidGraphs)
  <1>1. Init => TypeOK /\ graph \in ValidGraphs
    BY InitType
  <1>2. TypeOK /\ graph \in ValidGraphs /\ [Next]_vars
          => (TypeOK /\ graph \in ValidGraphs)'
    BY StepType DEF ValidGraphs
  <1>3. QED
    BY <1>1, <1>2, PTL DEF Spec

-----------------------------------------------------------------------------
(* File exclusion *)

(* A step that adds no lease and keeps the graph adds no clash. *)
LEMMA FewerLeases ==
  ASSUME FileExclusion, graph' = graph,
         \A d \in Deliverable : lease'[d] # NoLease => lease[d] # NoLease
  PROVE  FileExclusion'
  BY DEF FileExclusion, Leased

(* Neither reaping nor the end of a lease adds one. *)
LEMMA EndedLeases ==
  ASSUME NEW lost, NEW d, NEW e \in Deliverable
  PROVE  /\ Without(lost)[e] # NoLease => lease[e] # NoLease
         /\ TypeOK /\ EndLease(lease, d)[e] # NoLease => lease[e] # NoLease
         /\ EndLease(Without(lost), d)[e] # NoLease => lease[e] # NoLease
  BY DEF Without, EndLease, TypeOK

LEMMA AcquireFiles ==
  ASSUME TypeOK, graph \in ValidGraphs, FileExclusion,
         NEW w, NEW scope, NEW n, NEW ttl, NEW age,
         AcquireCohort(w, scope, n, ttl, age)
  PROVE  FileExclusion'
  <1> DEFINE held == Without(Lapsed(age))
             Held == {d \in Deliverable : held[d] # NoLease}
  <1>1. PICK ready \in SUBSET graph.ids, cohort \in SUBSET graph.ids :
          /\ GreedyCohort(graph, ready, Held, n, cohort)
          /\ lease' = [d \in Deliverable |->
                        IF d \in cohort THEN [holder |-> w, left |-> ttl - age]
                        ELSE held[d]]
    <2> DEFINE reaped == ReapedStatus(age)
               lapsed == Bump(lapses, Lapsed(age), MaxLapses)
               broken == [d \in Deliverable |->
                            IF d \in {x \in graph.ids :
                                  reaped[x] = "ready" /\ failures[x] >= MaxAttempts}
                            THEN "failed" ELSE reaped[d]]
               ready  == {d \in scope : /\ ~ graph.manual[d]
                                        /\ Reacquirable(graph, broken, d)
                                        /\ held[d] = NoLease
                                        /\ lapsed[d] < MaxLapses}
    <2>1. scope \subseteq graph.ids
      BY DEF AcquireCohort
    <2>2. \E cohort \in SUBSET ready :
            /\ GreedyCohort(graph, ready, Held, n, cohort)
            /\ Save([d \in Deliverable |->
                       IF d \in cohort THEN "in_progress" ELSE broken[d]],
                    [d \in Deliverable |->
                       IF d \in cohort THEN [holder |-> w, left |-> ttl - age]
                       ELSE held[d]],
                    lockless \ cohort)
      BY DEF AcquireCohort
    <2>3. ready \in SUBSET graph.ids
      BY <2>1
    <2>4. QED
      BY <2>2, <2>3 DEF Save
  <1>2. graph \in Graph /\ Injective(graph.prio, graph.ids)
    BY LeasesAssumption DEF ValidGraphs, ValidateGraph
  <1>3. /\ \A d, e \in cohort : d # e => ~ FilesClash(graph, d, e)
        /\ \A d \in cohort, e \in Held : ~ FilesClash(graph, d, e)
    BY <1>1, <1>2, CohortDisjoint
  <1>4. \A d, e \in Held : d # e => ~ FilesClash(graph, d, e)
    BY EndedLeases DEF FileExclusion, Leased
  <1>5. \A d \in Deliverable : lease'[d] # NoLease => d \in cohort \cup Held
    BY <1>1
  <1>6. graph' = graph
    BY DEF AcquireCohort
  <1>7. ASSUME NEW d \in Deliverable, NEW e \in Deliverable, d # e,
               lease'[d] # NoLease, lease'[e] # NoLease
        PROVE  ~ FilesClash(graph, d, e)
    <2>1. d \in cohort \cup Held /\ e \in cohort \cup Held
      BY <1>5, <1>7
    <2>2. CASE d \in cohort
      BY <1>3, <1>7, <2>1, <2>2
    <2>3. CASE d \in Held /\ e \in cohort
      BY <1>3, <2>3, ClashSymmetric
    <2>4. CASE d \in Held /\ e \in Held
      BY <1>4, <1>7, <2>4
    <2>5. QED
      BY <2>1, <2>2, <2>3, <2>4
  <1>8. QED
    BY <1>6, <1>7 DEF FileExclusion, Leased

LEMMA ReviseFiles ==
  ASSUME TypeOK, graph \in ValidGraphs, NEW new, NEW force, NEW age,
         Revise(new, force, age)
  PROVE  FileExclusion'
  <1> DEFINE reaped  == ReapedStatus(age)
             live    == Leased \ Lapsed(age)
             carried == (live \cap new.ids) \ Superseded(graph, new, reaped, live)
  <1>1. PICK evictor :
          /\ Evictions(graph, new, carried, evictor)
          /\ lease' = Without(Deliverable \
                        (carried \ {d \in carried : evictor[d] # NoBarrier}))
    BY DEF Revise, Save
  <1>2. graph' = new /\ new \in Graph /\ Injective(new.order, new.ids)
    BY LeasesAssumption DEF Revise, ValidGraphs, ValidateGraph
  <1>3. carried \in SUBSET new.ids
    OBVIOUS
  <1>4. \A d, e \in carried :
          d # e /\ evictor[d] = NoBarrier /\ evictor[e] = NoBarrier
            => ~ FilesClash(new, d, e)
    BY <1>1, <1>2, <1>3, KeptLeasesDisjoint, LeasesAssumption
  <1>5. \A d \in Deliverable :
          lease'[d] # NoLease => d \in carried /\ evictor[d] = NoBarrier
    BY <1>1 DEF Without
  <1>6. QED
    BY <1>2, <1>4, <1>5 DEF FileExclusion, Leased

(* Every step keeps the claims of the held leases compatible: an acquire   *)
(* by its greedy pick, a revision by its evictions, every other step       *)
(* because it grants no lease and keeps the graph.                         *)
LEMMA StepFiles ==
  ASSUME LeaseInv, [Next]_vars
  PROVE  FileExclusion'
  <1> USE DEF LeaseInv
  <1>1. CASE UNCHANGED vars
    BY <1>1, FewerLeases DEF vars
  <1>2. ASSUME NEW w \in Caller, CallerStep(w)
        PROVE  FileExclusion'
    <2>1. CASE \E scope \in Scopes, n \in Counts, ttl \in Ttls, age \in Ages :
                 AcquireCohort(w, scope, n, ttl, age)
      BY <2>1, AcquireFiles
    <2>2. ASSUME NEW d \in Deliverable, MarkComplete(w, d) \/ MarkFailed(w, d)
          PROVE  FileExclusion'
      <3>1. lease' = lease \/ lease' = EndLease(lease, d)
        BY <2>2 DEF MarkComplete, MarkFailed, Save
      <3>2. graph' = graph
        BY <2>2 DEF MarkComplete, MarkFailed
      <3>3. QED
        BY <3>1, <3>2, EndedLeases, FewerLeases
    <2>3. ASSUME NEW d \in Deliverable, NEW s \in Marks, MarkOpen(w, d, s)
          PROVE  FileExclusion'
      BY <2>3, FewerLeases DEF MarkOpen, Save
    <2>4. ASSUME NEW d \in Deliverable, NEW age \in Ages,
                 \/ \E ttl \in Ttls : HeartbeatExplicit(w, d, ttl, age)
                 \/ HeartbeatDefault(w, d, age)
          PROVE  FileExclusion'
      <3>1. PICK left : Heartbeat(w, d, left)
        BY <2>4 DEF HeartbeatExplicit, HeartbeatDefault
      <3>2. \A e \in Deliverable : lease'[e] # NoLease => lease[e] # NoLease
        BY <3>1 DEF Heartbeat, Leased, TypeOK
      <3>3. QED
        BY <3>1, <3>2, FewerLeases DEF Heartbeat
    <2>5. QED
      BY <1>2, <2>1, <2>2, <2>3, <2>4 DEF CallerStep
  <1>3. CASE OperatorStep
    <2>1. ASSUME NEW d \in Deliverable, NEW override \in BOOLEAN,
                 NEW age \in Ages, Accept(d, override, age)
          PROVE  FileExclusion'
      <3>1. \/ lease' = Without(Lapsed(age))
            \/ lease' = EndLease(Without(Lapsed(age)), d)
        BY <2>1 DEF Accept, Save
      <3>2. graph' = graph
        BY <2>1 DEF Accept
      <3>3. QED
        BY <3>1, <3>2, EndedLeases, FewerLeases
    <2>2. ASSUME NEW d \in Deliverable, NEW reset \in BOOLEAN,
                 ForceRelease(d, reset)
          PROVE  FileExclusion'
      <3>1. lease' = EndLease(lease, d) /\ graph' = graph
        BY <2>2 DEF ForceRelease, Save
      <3>2. QED
        BY <3>1, EndedLeases, FewerLeases
    <2>3. CASE \E new \in Graphs, force \in BOOLEAN, age \in Ages :
                 Revise(new, force, age)
      BY <2>3, ReviseFiles
    <2>4. ASSUME NEW age \in Ages, Sweep(age)
          PROVE  FileExclusion'
      <3>1. lease' = Without(Lapsed(age) \cup Orphans) /\ graph' = graph
        BY <2>4 DEF Sweep, Save
      <3>2. QED
        BY <3>1, EndedLeases, FewerLeases
    <2>5. CASE TakeBaseline
      BY <2>5, FewerLeases DEF TakeBaseline
    <2>6. QED
      BY <1>3, <2>1, <2>2, <2>3, <2>4, <2>5 DEF OperatorStep
  <1>4. CASE Tick
    <2>1. \A d \in Deliverable : lease'[d] # NoLease => lease[d] # NoLease
      BY <1>4 DEF Tick
    <2>2. QED
      BY <1>4, <2>1, FewerLeases DEF Tick
  <1>5. QED
    BY <1>1, <1>2, <1>3, <1>4 DEF Next

(* Two workers never hold leases whose deliverables claim a path in        *)
(* conflicting modes, whatever the graphs, scopes, budgets, lease lengths  *)
(* and the number of workers.                                              *)
THEOREM FilesExcluded == Spec => []FileExclusion
  <1>1. Init => LeaseInv
    BY InitType DEF Init, LeaseInv, FileExclusion, Leased
  <1>2. LeaseInv /\ [Next]_vars => LeaseInv'
    BY StepType, StepFiles DEF LeaseInv, ValidGraphs
  <1>3. LeaseInv => FileExclusion
    BY DEF LeaseInv
  <1>4. QED
    BY <1>1, <1>2, <1>3, PTL DEF Spec

-----------------------------------------------------------------------------
(* Work in progress and the baseline *)

(* After a save, an orphan would be work in progress that is saved neither *)
(* with a lease nor with the lockless mark.                                *)
LEMMA SavedOrphans ==
  ASSUME NEW st, NEW ls, NEW ll, Save(st, ls, ll),
         \A d \in graph'.ids :
           st[d] = "in_progress" /\ ls[d] = NoLease => d \in ll
  PROVE  NoOrphans'
  BY DEF Save, NoOrphans, Orphans

LEMMA ReviseOrphans ==
  ASSUME TypeOK, graph \in ValidGraphs, NoOrphans, NEW new, NEW force, NEW age,
         Revise(new, force, age)
  PROVE  NoOrphans'
  <1> DEFINE reaped  == ReapedStatus(age)
             live    == Leased \ Lapsed(age)
             carried == (live \cap new.ids) \ Superseded(graph, new, reaped, live)
             revised == RevisedStatus(graph, new, reaped, live)
  <1>1. PICK evictor :
          Save(Rederived(new, revised, {d \in carried : evictor[d] # NoBarrier}),
               Without(Deliverable \
                         (carried \ {d \in carried : evictor[d] # NoBarrier})),
               lockless \cap new.ids)
    BY DEF Revise
  <1> DEFINE released == {d \in carried : evictor[d] # NoBarrier}
  <1>2. graph' = new /\ new.ids \subseteq Deliverable
    BY LeasesAssumption DEF Revise, ValidGraphs, Graph
  <1>3. ASSUME NEW d \in new.ids, Rederived(new, revised, released)[d] = "in_progress",
               Without(Deliverable \ (carried \ released))[d] = NoLease
        PROVE  d \in lockless \cap new.ids
    <2>1. d \in Deliverable /\ d \notin released /\ revised[d] = "in_progress"
      BY <1>2, <1>3 DEF Rederived, Rederive
    <2>2. /\ d \in Survivors(graph, new) /\ reaped[d] = "in_progress"
          /\ d \notin Superseded(graph, new, reaped, live)
      <3> DEFINE kept == Survivors(graph, new) \ Reopened(graph, new, reaped, live)
                 out  == Superseded(graph, new, reaped, live)
      <3>1. CASE d \in out
        <4>1. d \in Seeds(graph, new, reaped, live) /\ d \in Survivors(graph, new)
          BY <3>1 DEF Seeds, Superseded, Recontracted
        <4>2. d \notin kept
          BY <4>1 DEF Reopened
        <4> QED
          BY <1>2, <2>1, <3>1, <4>2 DEF RevisedStatus
      <3>2. CASE d \notin out /\ d \in kept
        BY <1>2, <2>1, <3>2 DEF RevisedStatus
      <3>3. CASE d \notin out /\ d \notin kept
        BY <1>2, <2>1, <3>3 DEF RevisedStatus
      <3> QED
        BY <3>1, <3>2, <3>3
    <2>3. d \in graph.ids /\ d \notin Lapsed(age) /\ status[d] = "in_progress"
      BY <2>1, <2>2 DEF Survivors, ReapedStatus, Rederived, Rederive
    <2>4. CASE lease[d] = NoLease
      BY <2>3, <2>4 DEF NoOrphans, Orphans
    <2>5. CASE lease[d] # NoLease
      <3>1. d \in carried
        BY <2>1, <2>2, <2>3, <2>5 DEF Leased
      <3> QED
        BY <1>3, <2>1, <2>5, <3>1 DEF Without
    <2> QED
      BY <2>4, <2>5
  <1> QED
    BY <1>1, <1>2, <1>3, SavedOrphans

(* A heartbeat renews a lease that is there and touches nothing else. *)
LEMMA HeartbeatLease ==
  ASSUME TypeOK, NEW w \in Caller, NEW d \in Deliverable, NEW age \in Ages,
         \/ \E ttl \in Ttls : HeartbeatExplicit(w, d, ttl, age)
         \/ HeartbeatDefault(w, d, age)
  PROVE  /\ \A e \in Deliverable : lease'[e] = NoLease <=> lease[e] = NoLease
         /\ UNCHANGED <<graph, status, lockless, baseline>>
  <1>1. PICK left \in Int : Heartbeat(w, d, left)
    <2>1. CASE \E ttl \in Ttls : HeartbeatExplicit(w, d, ttl, age)
      BY <2>1, LeasesAssumption DEF HeartbeatExplicit, Ttls, Ages
    <2>2. CASE HeartbeatDefault(w, d, age)
      <3>1. lease[d].left \in Int /\ DefaultTtl - age \in Int
        BY <2>2, LeasesAssumption DEF HeartbeatDefault, Leased, TypeOK, Lease, Ages
      <3> QED
        BY <2>2, <3>1 DEF HeartbeatDefault
    <2> QED
      BY <2>1, <2>2
  <1>2. lease[d] \in Lease /\ lease[d] # NoLease
    BY <1>1 DEF Heartbeat, Leased, TypeOK
  <1>3. [lease[d] EXCEPT !.left = left] \in [holder : Caller, left : Int]
    BY <1>2 DEF Lease
  <1> QED
    BY <1>1, <1>2, <1>3, LeasesAssumption DEF Heartbeat, TypeOK

(* Only marks without a lease put work in progress that nobody leases, and *)
(* those leave the mark; whatever loses its lease is not in progress.      *)
LEMMA StepOrphans ==
  ASSUME TypeOK, graph \in ValidGraphs, NoOrphans, [Next]_vars
  PROVE  NoOrphans'
  <1>1. CASE UNCHANGED vars
    BY <1>1 DEF vars, NoOrphans, Orphans
  <1>2. graph.ids \subseteq Deliverable
    BY LeasesAssumption DEF ValidGraphs, Graph
  <1> DEFINE held(age) == Without(Lapsed(age))
  <1>3. ASSUME NEW age, NEW d \in graph.ids, ReapedStatus(age)[d] = "in_progress",
               held(age)[d] = NoLease
        PROVE  d \in lockless
    BY <1>2, <1>3 DEF ReapedStatus, Rederived, Rederive, Without, NoOrphans, Orphans
  <1>4. ASSUME NEW w \in Caller, CallerStep(w)
        PROVE  NoOrphans'
    <2>1. ASSUME NEW scope, NEW n, NEW ttl \in Ttls, NEW age \in Ages,
                 AcquireCohort(w, scope, n, ttl, age)
          PROVE  NoOrphans'
      <3> DEFINE reaped == ReapedStatus(age)
                 poisoned == {d \in graph.ids :
                                reaped[d] = "ready" /\ failures[d] >= MaxAttempts}
                 broken == [d \in Deliverable |->
                              IF d \in poisoned THEN "failed" ELSE reaped[d]]
      <3>1. PICK cohort :
              Save([d \in Deliverable |->
                      IF d \in cohort THEN "in_progress" ELSE broken[d]],
                   [d \in Deliverable |->
                      IF d \in cohort THEN [holder |-> w, left |-> ttl - age]
                      ELSE held(age)[d]],
                   lockless \ cohort)
        BY <2>1 DEF AcquireCohort
      <3>2. [holder |-> w, left |-> ttl - age] # NoLease
        <4>1. ttl - age \in Int
          BY LeasesAssumption DEF Ttls, Ages
        <4> QED
          BY <4>1, LeasesAssumption
      <3> QED
        BY <1>2, <1>3, <2>1, <3>1, <3>2, SavedOrphans DEF AcquireCohort
    <2>2. ASSUME NEW d \in Deliverable, MarkComplete(w, d)
          PROVE  NoOrphans'
      <3>1. CASE UNCHANGED <<status, lease, lockless>>
        BY <2>2, <3>1 DEF MarkComplete, NoOrphans, Orphans
      <3>2. CASE Save(Completed(graph, status, d), EndLease(lease, d), lockless \ {d})
        <4>1. \A e \in graph.ids :
                Completed(graph, status, d)[e] = "in_progress" =>
                  e # d /\ status[e] = "in_progress"
          BY <1>2 DEF Completed, TypeOK
        <4>2. \A e \in graph.ids : e # d => EndLease(lease, d)[e] = lease[e]
          BY <1>2 DEF EndLease, TypeOK
        <4>3. \A e \in graph'.ids :
                Completed(graph, status, d)[e] = "in_progress" /\ EndLease(lease, d)[e] = NoLease
                  => e \in lockless \ {d}
          BY <2>2, <4>1, <4>2 DEF MarkComplete, NoOrphans, Orphans
        <4> QED
          BY <3>2, <4>3, SavedOrphans
      <3> QED
        BY <2>2, <3>1, <3>2 DEF MarkComplete
    <2>3. ASSUME NEW d \in Deliverable, MarkFailed(w, d)
          PROVE  NoOrphans'
      <3> DEFINE st == [status EXCEPT ![d] = "failed"]
      <3>1. Save(st, EndLease(lease, d), lockless \ {d}) /\ graph' = graph
        BY <2>3 DEF MarkFailed
      <3>2. \A e \in graph'.ids : st[e] = "in_progress" /\ EndLease(lease, d)[e] = NoLease
              => e \in lockless \ {d}
        BY <1>2, <3>1 DEF EndLease, NoOrphans, Orphans, TypeOK
      <3> HIDE DEF st
      <3> QED
        BY <3>1, <3>2, SavedOrphans
    <2>4. ASSUME NEW d \in Deliverable, NEW s \in Marks, MarkOpen(w, d, s)
          PROVE  NoOrphans'
      <3> DEFINE st == [status EXCEPT ![d] = s]
                 ll == IF s = "in_progress" /\ lease[d] = NoLease
                       THEN lockless \cup {d} ELSE lockless \ {d}
      <3>1. Save(st, lease, ll) /\ graph' = graph
        BY <2>4 DEF MarkOpen
      <3>2. \A e \in graph'.ids : st[e] = "in_progress" /\ lease[e] = NoLease => e \in ll
        BY <1>2, <3>1 DEF NoOrphans, Orphans, TypeOK
      <3> QED
        BY <3>1, <3>2, SavedOrphans
    <2>5. ASSUME NEW d \in Deliverable, NEW age \in Ages,
                 \/ \E ttl \in Ttls : HeartbeatExplicit(w, d, ttl, age)
                 \/ HeartbeatDefault(w, d, age)
          PROVE  NoOrphans'
      BY <1>2, <2>5, HeartbeatLease DEF NoOrphans, Orphans
    <2> QED
      BY <1>4, <2>1, <2>2, <2>3, <2>4, <2>5 DEF CallerStep
  <1>5. CASE OperatorStep
    <2>1. ASSUME NEW d \in Deliverable, NEW override \in BOOLEAN, NEW age \in Ages,
                 Accept(d, override, age)
          PROVE  NoOrphans'
      <3>1. CASE Save(ReapedStatus(age), held(age), lockless)
        BY <1>3, <2>1, <3>1, SavedOrphans DEF Accept
      <3>2. CASE Save(Completed(graph, ReapedStatus(age), d),
                      EndLease(held(age), d), lockless)
        <4>1. \A e \in graph.ids :
                Completed(graph, ReapedStatus(age), d)[e] = "in_progress" =>
                  e # d /\ ReapedStatus(age)[e] = "in_progress"
          BY <1>2 DEF Completed, ReapedStatus, Rederived
        <4>2. \A e \in graph.ids : e # d => EndLease(held(age), d)[e] = held(age)[e]
          BY <1>2 DEF EndLease, Without
        <4> QED
          BY <1>3, <2>1, <3>2, <4>1, <4>2, SavedOrphans DEF Accept
      <3> QED
        BY <2>1, <3>1, <3>2 DEF Accept
    <2>2. ASSUME NEW d \in Deliverable, NEW reset \in BOOLEAN, ForceRelease(d, reset)
          PROVE  NoOrphans'
      <3> DEFINE released == IF d \in Leased THEN [status EXCEPT ![d] = "ready"]
                             ELSE status
                 st == IF reset /\ released[d] = "failed"
                       THEN Rederived(graph, released, {d}) ELSE released
      <3>1. Save(st, EndLease(lease, d), lockless) /\ graph' = graph
        BY <2>2 DEF ForceRelease
      <3>2. \A e \in graph.ids : st[e] = "in_progress" =>
              status[e] = "in_progress" /\ (lease[e] # NoLease => e # d)
        BY <1>2 DEF Rederived, Rederive, Leased, TypeOK
      <3>3. \A e \in graph.ids : EndLease(lease, d)[e] = NoLease =>
              lease[e] = NoLease \/ e = d
        BY <1>2 DEF EndLease, TypeOK
      <3>4. \A e \in graph'.ids :
              st[e] = "in_progress" /\ EndLease(lease, d)[e] = NoLease => e \in lockless
        BY <3>1, <3>2, <3>3 DEF NoOrphans, Orphans
      <3> QED
        BY <3>1, <3>4, SavedOrphans
    <2>3. CASE \E new \in Graphs, force \in BOOLEAN, age \in Ages :
                 Revise(new, force, age)
      BY <2>3, ReviseOrphans
    <2>4. ASSUME NEW age \in Ages, Sweep(age)
          PROVE  NoOrphans'
      BY <1>2, <2>4, SavedOrphans
         DEF Sweep, Rederived, Rederive, Without, NoOrphans, Orphans
    <2>5. CASE TakeBaseline
      BY <2>5 DEF TakeBaseline, NoOrphans, Orphans
    <2> QED
      BY <1>5, <2>1, <2>2, <2>3, <2>4, <2>5 DEF OperatorStep
  <1>6. CASE Tick
    <2>1. \A d \in Deliverable : lease'[d] = NoLease => lease[d] = NoLease
      <3> SUFFICES ASSUME NEW d \in Deliverable, lease[d] # NoLease
                   PROVE  lease'[d] # NoLease
        OBVIOUS
      <3>1. lease[d] \in Lease
        BY DEF TypeOK
      <3>2. [lease[d] EXCEPT !.left = @ - 1] \in [holder : Caller, left : Int]
        BY <3>1, LeasesAssumption DEF Lease
      <3> QED
        BY <1>6, <3>2, LeasesAssumption DEF Tick
    <2> QED
      BY <1>2, <1>6, <2>1 DEF Tick, NoOrphans, Orphans
  <1> QED
    BY <1>1, <1>4, <1>5, <1>6 DEF Next

(* Work in progress always has someone behind it: a lease, or the mark     *)
(* that keeps restarts from taking it back.                                *)
THEOREM WorkHasOwner == Spec => []NoOrphans
  <1>1. Init => TypeOK /\ graph \in ValidGraphs /\ NoOrphans
    <2> SUFFICES ASSUME Init PROVE NoOrphans
      BY InitType
    <2>1. graph.ids \subseteq Deliverable
      BY LeasesAssumption DEF Init, ValidGraphs, Graph
    <2>2. \A d \in graph.ids : status[d] # "in_progress"
      BY <2>1 DEF Init, InitialStatus
    <2> QED
      BY <2>2 DEF NoOrphans, Orphans
  <1>2. TypeOK /\ graph \in ValidGraphs /\ NoOrphans /\ [Next]_vars
          => (TypeOK /\ graph \in ValidGraphs /\ NoOrphans)'
    BY StepType, StepOrphans DEF ValidGraphs
  <1>3. QED
    BY <1>1, <1>2, PTL DEF Spec

(* Work is in progress under a lease or a lockless mark, and whoever adds  *)
(* either takes the baseline first.                                        *)
HeldHasBaseline == Leased \cup lockless # {} => baseline

LEMMA HeldCoversWork ==
  ASSUME graph \in ValidGraphs, NoOrphans, HeldHasBaseline
  PROVE  BaselineFirst
  <1>1. graph.ids \subseteq Deliverable
    BY LeasesAssumption DEF ValidGraphs, Graph
  <1> QED
    BY <1>1 DEF NoOrphans, Orphans, HeldHasBaseline, BaselineFirst, Leased

LEMMA StepBaseline ==
  ASSUME TypeOK, HeldHasBaseline, [Next]_vars
  PROVE  HeldHasBaseline'
  <1> SUFFICES \/ baseline' = TRUE
               \/ /\ baseline' = baseline
                  /\ \A d \in Deliverable : lease'[d] # NoLease => lease[d] # NoLease
                  /\ lockless' \subseteq lockless
    BY DEF HeldHasBaseline, Leased
  <1> DEFINE Nothing == /\ baseline' = baseline
                        /\ \A d \in Deliverable : lease'[d] # NoLease => lease[d] # NoLease
                        /\ lockless' \subseteq lockless
  <1>1. CASE UNCHANGED vars
    BY <1>1 DEF vars
  <1>2. ASSUME NEW w \in Caller, CallerStep(w)
        PROVE  baseline' = TRUE \/ Nothing
    <2>1. ASSUME NEW scope, NEW n, NEW ttl, NEW age, AcquireCohort(w, scope, n, ttl, age)
          PROVE  baseline' = TRUE \/ Nothing
      <3>1. PICK cohort, st :
              /\ IF cohort = {} THEN UNCHANGED baseline ELSE EnsureExecutionBaseline
              /\ Save(st, [d \in Deliverable |->
                             IF d \in cohort THEN [holder |-> w, left |-> ttl - age]
                             ELSE Without(Lapsed(age))[d]],
                      lockless \ cohort)
        BY <2>1 DEF AcquireCohort
      <3> QED
        BY <3>1 DEF EnsureExecutionBaseline, Save, Without
    <2>2. ASSUME NEW d \in Deliverable, MarkComplete(w, d)
          PROVE  baseline' = TRUE \/ Nothing
      BY <2>2 DEF MarkComplete, EnsureExecutionBaseline
    <2>3. ASSUME NEW d \in Deliverable, MarkFailed(w, d)
          PROVE  baseline' = TRUE \/ Nothing
      BY <2>3 DEF MarkFailed, Save, EndLease, TypeOK
    <2>4. ASSUME NEW d \in Deliverable, NEW s \in Marks, MarkOpen(w, d, s)
          PROVE  baseline' = TRUE \/ Nothing
      BY <2>4 DEF MarkOpen, Save, EnsureExecutionBaseline
    <2>5. ASSUME NEW d \in Deliverable, NEW age \in Ages,
                 \/ \E ttl \in Ttls : HeartbeatExplicit(w, d, ttl, age)
                 \/ HeartbeatDefault(w, d, age)
          PROVE  baseline' = TRUE \/ Nothing
      BY <2>5, HeartbeatLease
    <2> QED
      BY <1>2, <2>1, <2>2, <2>3, <2>4, <2>5 DEF CallerStep
  <1>3. CASE OperatorStep
    <2>1. ASSUME NEW d, NEW override, NEW age, Accept(d, override, age)
          PROVE  Nothing
      BY <2>1 DEF Accept, Save, EndLease, Without
    <2>2. ASSUME NEW d, NEW reset, ForceRelease(d, reset)
          PROVE  Nothing
      BY <2>2 DEF ForceRelease, Save, EndLease, TypeOK
    <2>3. ASSUME NEW new, NEW force, NEW age, Revise(new, force, age)
          PROVE  Nothing
      BY <2>3 DEF Revise, Save, Without
    <2>4. ASSUME NEW age, Sweep(age)
          PROVE  Nothing
      BY <2>4 DEF Sweep, Save, Without
    <2>5. CASE TakeBaseline
      BY <2>5 DEF TakeBaseline
    <2> QED
      BY <1>3, <2>1, <2>2, <2>3, <2>4, <2>5 DEF OperatorStep
  <1>4. CASE Tick
    BY <1>4 DEF Tick
  <1> QED
    BY <1>1, <1>2, <1>3, <1>4 DEF Next

-----------------------------------------------------------------------------
(* Completion needs a baseline *)

(* A completion by a holder or an operator completes that deliverable only. *)
LEMMA CompletesOne ==
  ASSUME NEW g, NEW st \in [Deliverable -> Status \cup {Absent}],
         NEW e \in Deliverable, NEW d \in Deliverable,
         Completed(g, st, e)[d] = "complete"
  PROVE  d = e \/ st[d] = "complete"
  BY DEF Completed

LEMMA RederivedNotComplete ==
  ASSUME NEW g, NEW st, NEW lost, NEW d \in Deliverable,
         Rederived(g, st, lost)[d] = "complete"
  PROVE  st[d] = "complete"
  BY DEF Rederived, Rederive

Baselined ==
  \A d \in Deliverable :
    status[d] # "complete" /\ status'[d] = "complete" =>
      \/ baseline'
      \/ \E override \in BOOLEAN, age \in Ages : Accept(d, override, age)

(* Only a mark and an accept complete anything, and the mark is preceded  *)
(* by ensure_execution_baseline.                                           *)
LEMMA StepCompletes ==
  ASSUME TypeOK, [Next]_vars
  PROVE  Baselined
  <1> SUFFICES ASSUME NEW d \in Deliverable, status[d] # "complete",
                      status'[d] = "complete"
               PROVE  baseline' \/ \E override \in BOOLEAN, age \in Ages :
                                     Accept(d, override, age)
    BY DEF Baselined
  <1> DEFINE Goal == baseline' \/ \E override \in BOOLEAN, age \in Ages :
                                    Accept(d, override, age)
  <1>0. \A age : ReapedStatus(age)[d] # "complete"
    BY RederivedNotComplete DEF ReapedStatus
  <1>00. \A age : ReapedStatus(age) \in [Deliverable -> Status \cup {Absent}]
    BY RederivedType DEF TypeOK, ReapedStatus
  <1>1. CASE UNCHANGED vars
    BY <1>1 DEF vars
  <1>2. ASSUME NEW w \in Caller, CallerStep(w)
        PROVE  Goal
    <2>1. ASSUME NEW scope, NEW n, NEW ttl, NEW age, AcquireCohort(w, scope, n, ttl, age)
          PROVE  Goal
      BY <1>0, <2>1 DEF AcquireCohort, Save
    <2>2. ASSUME NEW e \in Deliverable, MarkComplete(w, e)
          PROVE  Goal
      BY <2>2 DEF MarkComplete, EnsureExecutionBaseline
    <2>3. ASSUME NEW e \in Deliverable, MarkFailed(w, e)
          PROVE  Goal
      BY <2>3 DEF MarkFailed, Save, TypeOK
    <2>4. ASSUME NEW e \in Deliverable, NEW s \in Marks, MarkOpen(w, e, s)
          PROVE  Goal
      BY <2>4 DEF MarkOpen, Save, TypeOK
    <2>5. ASSUME NEW e \in Deliverable, NEW age \in Ages,
                 \/ \E ttl \in Ttls : HeartbeatExplicit(w, e, ttl, age)
                 \/ HeartbeatDefault(w, e, age)
          PROVE  Goal
      BY <2>5, HeartbeatLease
    <2> QED
      BY <1>2, <2>1, <2>2, <2>3, <2>4, <2>5 DEF CallerStep
  <1>3. CASE OperatorStep
    <2>1. ASSUME NEW e \in Deliverable, NEW override \in BOOLEAN, NEW age \in Ages,
                 Accept(e, override, age)
          PROVE  Goal
      <3>1. CASE e = d
        BY <2>1, <3>1
      <3>2. CASE e # d
        <4>1. status' = ReapedStatus(age) \/ status' = Completed(graph, ReapedStatus(age), e)
          BY <2>1 DEF Accept, Save
        <4> QED
          BY <1>0, <1>00, <3>2, <4>1, CompletesOne
      <3> QED
        BY <3>1, <3>2
    <2>2. ASSUME NEW e \in Deliverable, NEW reset, ForceRelease(e, reset)
          PROVE  Goal
      <3>1. PICK st : /\ st \in {status, [status EXCEPT ![e] = "ready"]}
                      /\ status' = st \/ status' = Rederived(graph, st, {e})
        BY <2>2 DEF ForceRelease, Save
      <3> QED
        BY <3>1, RederivedNotComplete DEF TypeOK
    <2>3. ASSUME NEW new, NEW force, NEW age, Revise(new, force, age)
          PROVE  Goal
      <3> DEFINE live == Leased \ Lapsed(age)
                 st == ReapedStatus(age)
                 revised == RevisedStatus(graph, new, st, live)
      <3>1. PICK released : status' = Rederived(new, revised, released)
        BY <2>3 DEF Revise, Save
      <3>2. revised[d] = "complete"
        BY <3>1, RederivedNotComplete
      <3>3. revised[d] = st[d] \/ revised[d] # "complete"
        <4> DEFINE kept == Survivors(graph, new) \ Reopened(graph, new, st, live)
        <4>1. CASE d \in Superseded(graph, new, st, live)
          <5>1. d \in Seeds(graph, new, st, live) /\ d \in Survivors(graph, new)
            BY <4>1 DEF Seeds, Superseded, Recontracted
          <5>2. d \notin kept
            BY <5>1 DEF Reopened
          <5> QED
            BY <4>1, <5>2 DEF RevisedStatus
        <4>2. CASE d \notin Superseded(graph, new, st, live) /\ d \in kept
          BY <4>2 DEF RevisedStatus, Absent
        <4>3. CASE d \notin Superseded(graph, new, st, live) /\ d \notin kept
          BY <4>3 DEF RevisedStatus, Absent
        <4> QED
          BY <4>1, <4>2, <4>3
      <3> QED
        BY <1>0, <3>2, <3>3
    <2>4. ASSUME NEW age, Sweep(age)
          PROVE  Goal
      BY <2>4, RederivedNotComplete DEF Sweep, Save
    <2>5. CASE TakeBaseline
      BY <2>5 DEF TakeBaseline
    <2> QED
      BY <1>3, <2>1, <2>2, <2>3, <2>4, <2>5 DEF OperatorStep
  <1>4. CASE Tick
    BY <1>4 DEF Tick
  <1> QED
    BY <1>1, <1>2, <1>3, <1>4 DEF Next

(* Nothing is leased or in progress before the plan has the baseline its   *)
(* earned value is measured against, in either baseline mode, and nothing  *)
(* but an operator's accept completes work of a plan that has none.        *)
THEOREM BaselineBeforeWork == Spec => []BaselineFirst /\ CompletedWithBaseline
  <1> DEFINE Inv == TypeOK /\ graph \in ValidGraphs /\ HeldHasBaseline
  <1>1. Init => Inv
    BY InitType DEF Init, HeldHasBaseline, Leased
  <1>2. Inv /\ [Next]_vars => Inv'
    BY StepType, StepBaseline DEF ValidGraphs
  <1>3. Inv /\ NoOrphans => BaselineFirst
    BY HeldCoversWork
  <1>4. Inv /\ [Next]_vars => [Baselined]_vars
    BY StepCompletes
  <1>5. QED
    BY <1>1, <1>2, <1>3, <1>4, WorkHasOwner, PTL
       DEF Spec, CompletedWithBaseline, Baselined

-----------------------------------------------------------------------------
(* Complete work *)

(* Complete work is never leased, so that reaping, sweeping and releasing  *)
(* never touch it.                                                         *)
CompleteUnleased ==
  \A d \in Deliverable : status[d] = "complete" => lease[d] = NoLease

CompleteInv == TypeOK /\ graph \in ValidGraphs /\ CompleteUnleased

(* What a revision leaves complete was complete and is kept as it is. *)
LEMMA RevisedComplete ==
  ASSUME NEW old, NEW new, NEW st, NEW live, NEW d \in Deliverable,
         RevisedStatus(old, new, st, live)[d] = "complete"
  PROVE  /\ st[d] = "complete"
         /\ d \in Survivors(old, new) \ Reopened(old, new, st, live)
  <1> DEFINE kept == Survivors(old, new) \ Reopened(old, new, st, live)
  <1>1. CASE d \in Superseded(old, new, st, live)
    <2>1. d \in Seeds(old, new, st, live) /\ d \in Survivors(old, new)
      BY <1>1 DEF Seeds, Superseded, Recontracted
    <2>2. d \notin kept
      BY <2>1 DEF Reopened
    <2> QED
      BY <1>1, <2>2 DEF RevisedStatus, Absent
  <1>2. CASE d \notin Superseded(old, new, st, live) /\ d \in kept
    BY <1>2 DEF RevisedStatus, Absent
  <1>3. CASE d \notin Superseded(old, new, st, live) /\ d \notin kept
    BY <1>3 DEF RevisedStatus, Absent
  <1> QED
    BY <1>1, <1>2, <1>3

LEMMA ReviseUnleased ==
  ASSUME CompleteInv, NEW new, NEW force, NEW age, Revise(new, force, age)
  PROVE  CompleteUnleased'
  <1> DEFINE st      == ReapedStatus(age)
             live    == Leased \ Lapsed(age)
             revised == RevisedStatus(graph, new, st, live)
  <1>1. PICK released, lost :
          status' = Rederived(new, revised, released) /\ lease' = Without(lost)
    BY DEF Revise, Save
  <1>2. ASSUME NEW d \in Deliverable, status'[d] = "complete"
        PROVE  status[d] = "complete"
    <2>1. revised[d] = "complete"
      BY <1>1, <1>2, RederivedNotComplete
    <2>2. st[d] = "complete"
      BY <2>1, RevisedComplete
    <2> QED
      BY <2>2, RederivedNotComplete DEF ReapedStatus
  <1> QED
    BY <1>1, <1>2 DEF CompleteInv, CompleteUnleased, Without

(* One step: complete work gets no lease, and only a revision undoes it.   *)
LEMMA StepComplete ==
  ASSUME CompleteInv, [Next]_vars
  PROVE  /\ CompleteUnleased'
         /\ graph' = graph =>
              \A d \in Deliverable : status[d] = "complete" => status'[d] = "complete"
  <1> DEFINE Stays == \A d \in Deliverable : status[d] = "complete" => status'[d] = "complete"
             Goal  == CompleteUnleased' /\ (graph' = graph => Stays)
  <1> USE DEF CompleteInv, CompleteUnleased, TypeOK
  <1>1. CASE UNCHANGED vars
    BY <1>1 DEF vars
  <1>2. \A age : \A d \in Deliverable :
          ReapedStatus(age)[d] = "complete" <=> status[d] = "complete"
    BY DEF ReapedStatus, Rederived, Rederive, Lapsed, Leased
  <1>3. \A age : ReapedStatus(age) \in [Deliverable -> Status \cup {Absent}]
    BY RederivedType DEF ReapedStatus
  <1>4. ASSUME NEW w \in Caller, CallerStep(w)
        PROVE  Goal
    <2>1. ASSUME NEW scope, NEW n, NEW ttl, NEW age, AcquireCohort(w, scope, n, ttl, age)
          PROVE  Goal
      <3> DEFINE reaped == ReapedStatus(age)
                 poisoned == {d \in graph.ids :
                                reaped[d] = "ready" /\ failures[d] >= MaxAttempts}
                 broken == [d \in Deliverable |->
                              IF d \in poisoned THEN "failed" ELSE reaped[d]]
      <3>1. PICK cohort :
              /\ \A d \in cohort : Reacquirable(graph, broken, d)
              /\ status' = [d \in Deliverable |->
                              IF d \in cohort THEN "in_progress" ELSE broken[d]]
              /\ \A d \in Deliverable \ cohort : lease'[d] = Without(Lapsed(age))[d]
        BY <2>1 DEF AcquireCohort, Save
      <3> QED
        BY <1>2, <3>1 DEF Reacquirable, Without
    <2>2. ASSUME NEW d \in Deliverable, MarkComplete(w, d)
          PROVE  Goal
      <3>1. CASE UNCHANGED <<status, lease>>
        BY <2>2, <3>1 DEF MarkComplete
      <3>2. CASE status' = Completed(graph, status, d) /\ lease' = EndLease(lease, d)
        <4>1. \A e \in Deliverable : status'[e] = "complete" <=> e = d \/ status[e] = "complete"
          BY <3>2 DEF Completed
        <4> QED
          BY <3>2, <4>1 DEF EndLease
      <3> QED
        BY <2>2, <3>1, <3>2 DEF MarkComplete, Save
    <2>3. ASSUME NEW d \in Deliverable, MarkFailed(w, d)
          PROVE  Goal
      BY <2>3 DEF MarkFailed, LocklessMarkAllowed, Save, EndLease
    <2>4. ASSUME NEW d \in Deliverable, NEW s \in Marks, MarkOpen(w, d, s)
          PROVE  Goal
      BY <2>4 DEF MarkOpen, LocklessMarkAllowed, Save
    <2>5. ASSUME NEW d \in Deliverable, NEW age \in Ages,
                 \/ \E ttl \in Ttls : HeartbeatExplicit(w, d, ttl, age)
                 \/ HeartbeatDefault(w, d, age)
          PROVE  Goal
      BY <2>5, HeartbeatLease
    <2> QED
      BY <1>4, <2>1, <2>2, <2>3, <2>4, <2>5 DEF CallerStep
  <1>5. CASE OperatorStep
    <2>1. ASSUME NEW d \in Deliverable, NEW override \in BOOLEAN, NEW age \in Ages,
                 Accept(d, override, age)
          PROVE  Goal
      <3>1. CASE status' = ReapedStatus(age) /\ lease' = Without(Lapsed(age))
        BY <1>2, <3>1 DEF Without
      <3>2. CASE /\ status' = Completed(graph, ReapedStatus(age), d)
                 /\ lease' = EndLease(Without(Lapsed(age)), d)
        <4>1. \A e \in Deliverable : status'[e] = "complete" <=> e = d \/ status[e] = "complete"
          BY <1>2, <1>3, <3>2 DEF Completed
        <4> QED
          BY <3>2, <4>1 DEF EndLease, Without
      <3> QED
        BY <2>1, <3>1, <3>2 DEF Accept, Save
    <2>2. ASSUME NEW d \in Deliverable, NEW reset \in BOOLEAN, ForceRelease(d, reset)
          PROVE  Goal
      <3> DEFINE released == IF d \in Leased THEN [status EXCEPT ![d] = "ready"] ELSE status
      <3>1. /\ lease' = EndLease(lease, d)
            /\ \/ status' = released
               \/ released[d] = "failed" /\ status' = Rederived(graph, released, {d})
        BY <2>2 DEF ForceRelease, Save
      <3>2. \A e \in Deliverable : released[e] = "complete" <=> status[e] = "complete"
        BY DEF Leased
      <3>3. \A e \in Deliverable : status'[e] = "complete" <=> status[e] = "complete"
        BY <3>1, <3>2 DEF Rederived, Rederive
      <3> QED
        BY <3>1, <3>3 DEF EndLease
    <2>3. ASSUME NEW new, NEW force, NEW age, Revise(new, force, age)
          PROVE  CompleteUnleased' /\ graph' # graph
      BY <2>3, ReviseUnleased DEF Revise, SameGraph, Changed
    <2>4. ASSUME NEW age, Sweep(age)
          PROVE  Goal
      BY <2>4 DEF Sweep, Save, Rederived, Rederive, Without, Lapsed, Leased, Orphans
    <2>5. CASE TakeBaseline
      BY <2>5 DEF TakeBaseline
    <2> QED
      BY <1>5, <2>1, <2>2, <2>3, <2>4, <2>5 DEF OperatorStep
  <1>6. CASE Tick
    BY <1>6 DEF Tick
  <1> QED
    BY <1>1, <1>4, <1>5, <1>6 DEF Next

(* Complete work is undone only by a revision, so that no late mark,       *)
(* sweep or forced release ever takes back an accept.                      *)
THEOREM CompletionStable == Spec => CompleteIsStable
  <1>1. Init => CompleteInv
    BY InitType DEF Init, CompleteInv, CompleteUnleased
  <1>2. CompleteInv /\ [Next]_vars => CompleteInv'
    BY StepType, StepComplete DEF CompleteInv, ValidGraphs
  <1>3. CompleteInv /\ [Next]_vars =>
          [\A d \in Deliverable :
             status[d] = "complete" /\ status'[d] # "complete" => graph' # graph]_vars
    BY StepComplete
  <1>4. QED
    BY <1>1, <1>2, <1>3, PTL DEF Spec, CompleteIsStable

(* A revision leaves nothing complete above a prerequisite that is not: a  *)
(* deliverable whose prerequisites changed is a seed, and the reopening    *)
(* spreads to whatever stands on a reopened one.                           *)
LEMMA ReviseClosed ==
  ASSUME CompleteInv, CompleteClosed, NEW new, NEW force, NEW age,
         Revise(new, force, age)
  PROVE  CompleteClosed'
  <1> DEFINE st       == ReapedStatus(age)
             live     == Leased \ Lapsed(age)
             revised  == RevisedStatus(graph, new, st, live)
             surv     == Survivors(graph, new)
             reopened == Reopened(graph, new, st, live)
  <1>1. PICK released \in SUBSET live : status' = Rederived(new, revised, released)
    BY DEF Revise, Save
  <1>2. /\ graph' = new /\ new.ids \subseteq Deliverable
        /\ \A d \in new.ids : new.prereqs[d] \subseteq new.ids
        /\ \A d \in graph.ids : graph.prereqs[d] \subseteq graph.ids
    BY LeasesAssumption DEF Revise, CompleteInv, ValidGraphs, Graph, ValidateGraph
  <1>3. \A d \in Deliverable : st[d] = "complete" <=> status[d] = "complete"
    BY DEF CompleteInv, CompleteUnleased, ReapedStatus, Rederived, Rederive,
           Lapsed, Leased
  <1> SUFFICES ASSUME NEW d \in new.ids, status'[d] = "complete", NEW p \in new.prereqs[d]
               PROVE  status'[p] = "complete"
    BY <1>2 DEF CompleteClosed, PrereqsComplete
  <1>4. d \in Deliverable /\ p \in new.ids /\ p \in Deliverable
    BY <1>2
  <1>5. /\ st[d] = "complete" /\ d \in surv /\ d \notin reopened
    <2>1. revised[d] = "complete"
      BY <1>1, <1>4, RederivedNotComplete
    <2> QED
      BY <1>4, <2>1, RevisedComplete
  <1>6. d \in Carried(graph, new, st) /\ d \in graph.ids
    BY <1>5 DEF Carried, Survivors
  <1>7. graph.prereqs[d] = new.prereqs[d]
    <2> SUFFICES ASSUME graph.prereqs[d] # new.prereqs[d]
                 PROVE  FALSE
      OBVIOUS
    <2>1. d \in Seeds(graph, new, st, live)
      BY <1>5, <1>6 DEF Seeds, Recontracted
    <2>2. d \in reopened
      BY <1>5, <2>1 DEF Reopened
    <2> QED
      BY <1>5, <2>2
  <1>8. p \in surv /\ status[p] = "complete" /\ st[p] = "complete"
    BY <1>2, <1>3, <1>4, <1>5, <1>6, <1>7 DEF CompleteClosed, PrereqsComplete, Survivors
  <1>9. p \notin reopened
    BY <1>5, <1>6, <1>8 DEF Reopened
  <1>10. p \notin live /\ p \notin Superseded(graph, new, st, live)
    BY <1>4, <1>8 DEF CompleteInv, CompleteUnleased, Leased, Superseded
  <1>11. revised[p] = "complete"
    BY <1>4, <1>8, <1>9, <1>10 DEF RevisedStatus
  <1> QED
    BY <1>1, <1>4, <1>10, <1>11 DEF Rederived

LEMMA OnlyRevise ==
  ASSUME Next, graph' # graph
  PROVE  \E new, force, age : Revise(new, force, age)
  BY DEF Next, CallerStep, OperatorStep, AcquireCohort, MarkComplete, MarkFailed, MarkOpen,
         HeartbeatExplicit, HeartbeatDefault, Heartbeat, Accept, ForceRelease, Sweep,
         TakeBaseline, Tick

(* No revision breaks the order of the work that is complete. *)
THEOREM RevisionOrder == Spec => RevisionKeepsOrder
  <1>1. Init => CompleteInv
    BY InitType DEF Init, CompleteInv, CompleteUnleased
  <1>2. CompleteInv /\ [Next]_vars => CompleteInv'
    BY StepType, StepComplete DEF CompleteInv, ValidGraphs
  <1>3. CompleteInv /\ [Next]_vars =>
          [graph' # graph /\ CompleteClosed => CompleteClosed']_vars
    BY OnlyRevise, ReviseClosed
  <1>4. QED
    BY <1>1, <1>2, <1>3, PTL DEF Spec, RevisionKeepsOrder

-----------------------------------------------------------------------------
(* Leased work *)

(* The statuses of unfinished work that an acquire may have handed out. *)
Unfinished == {"pending", "ready", "in_progress"}

(* Leased work is in the plan, with a status of S. *)
LeasedIn(S) == \A d \in Leased : d \in graph.ids /\ status[d] \in S

(* A set of statuses that callers' marks and the derivations stay inside.  *)
Closed(S) ==
  /\ Unfinished \subseteq S
  /\ Marks \ {"complete", "failed"} \subseteq S
  /\ "complete" \notin S

(* No lease is within reach of the circuit breaker, nor is any work that a *)
(* revision has superseded and an acquire may lease again.                 *)
Budgeted ==
  \A d \in Deliverable :
    d \in Leased \/ status[d] = "superseded_revision" => failures[d] < MaxAttempts

(* What reaping leaves leased is as it was. *)
LEMMA StillHeld ==
  ASSUME NEW lost, NEW d \in Deliverable, Without(lost)[d] # NoLease
  PROVE  d \notin lost /\ Without(lost)[d] = lease[d] /\ d \in Leased
  BY DEF Without, Leased

(* Completing a deliverable changes another one only from pending to ready. *)
LEMMA CompletedOther ==
  ASSUME NEW g, NEW st \in [Deliverable -> Status \cup {Absent}],
         NEW d \in Deliverable, NEW e \in Deliverable, e # d
  PROVE  \/ Completed(g, st, d)[e] = st[e]
         \/ st[e] = "pending" /\ Completed(g, st, d)[e] = "ready"
  BY DEF Completed

(* What an acquire with a timestamp of this age makes of the statuses      *)
(* before it hands out its cohort.                                         *)
Poisoned(age) ==
  {d \in graph.ids : ReapedStatus(age)[d] = "ready" /\ failures[d] >= MaxAttempts}

Broken(age) ==
  [d \in Deliverable |-> IF d \in Poisoned(age) THEN "failed" ELSE ReapedStatus(age)[d]]

(* An acquire leases a cohort of deliverables that may all be leased, and  *)
(* leaves every other one as reaping and the circuit breaker do.           *)
LEMMA AcquireEffect ==
  ASSUME NEW w, NEW scope, NEW n, NEW ttl, NEW age, AcquireCohort(w, scope, n, ttl, age)
  PROVE  \E cohort \in SUBSET graph.ids :
           /\ \A d \in cohort : /\ Reacquirable(graph, Broken(age), d)
                                /\ ~ graph.manual[d]
                                /\ Without(Lapsed(age))[d] = NoLease
                                /\ lapses'[d] < MaxLapses
           /\ status' = [d \in Deliverable |->
                           IF d \in cohort THEN "in_progress" ELSE Broken(age)[d]]
           /\ \A d \in Deliverable \ cohort : lease'[d] = Without(Lapsed(age))[d]
  <1> DEFINE held   == Without(Lapsed(age))
             lapsed == Bump(lapses, Lapsed(age), MaxLapses)
             ready  == {d \in scope : /\ ~ graph.manual[d]
                                      /\ Reacquirable(graph, Broken(age), d)
                                      /\ held[d] = NoLease
                                      /\ lapsed[d] < MaxLapses}
  <1>1. PICK cohort \in SUBSET ready :
          /\ status' = [d \in Deliverable |->
                          IF d \in cohort THEN "in_progress" ELSE Broken(age)[d]]
          /\ lease' = [d \in Deliverable |->
                         IF d \in cohort THEN [holder |-> w, left |-> ttl - age]
                         ELSE held[d]]
    BY DEF AcquireCohort, Save, Broken, Poisoned
  <1>2. lapses' = lapsed /\ scope \subseteq graph.ids
    BY DEF AcquireCohort
  <1> QED
    BY <1>1, <1>2

(* What a revision makes of work whose lease it keeps. *)
LEMMA ReviseKeeps ==
  ASSUME NEW new, NEW force, NEW age, Revise(new, force, age),
         NEW d \in Deliverable, d \in graph.ids, lease'[d] # NoLease
  PROVE  /\ d \in Leased \ Lapsed(age) /\ d \in new.ids
         /\ lease'[d] = lease[d]
         /\ status'[d] \in {status[d], "ready", "pending"}
  <1> DEFINE st      == ReapedStatus(age)
             live    == Leased \ Lapsed(age)
             carried == (live \cap new.ids) \ Superseded(graph, new, st, live)
             revised == RevisedStatus(graph, new, st, live)
             kept    == Survivors(graph, new) \ Reopened(graph, new, st, live)
  <1>1. PICK released :
          /\ status' = Rederived(new, revised, released)
          /\ lease' = Without(Deliverable \ (carried \ released))
    BY DEF Revise, Save
  <1>2. d \in carried /\ d \notin released /\ lease'[d] = lease[d]
    BY <1>1 DEF Without
  <1>3. status'[d] = revised[d] /\ st[d] = status[d]
    BY <1>1, <1>2 DEF Rederived, ReapedStatus
  <1>4. CASE d \in kept
    BY <1>2, <1>3, <1>4 DEF RevisedStatus
  <1>5. CASE d \notin kept
    BY <1>2, <1>3, <1>5 DEF RevisedStatus
  <1> QED
    BY <1>2, <1>4, <1>5

LEMMA StepLeasedIn ==
  ASSUME TypeOK, graph \in ValidGraphs, NEW S, Closed(S), LeasedIn(S),
         "failed" \in S \/ Budgeted, [Next]_vars
  PROVE  LeasedIn(S)'
  <1> SUFFICES ASSUME NEW d \in Deliverable, lease'[d] # NoLease
               PROVE  d \in graph'.ids /\ status'[d] \in S
    BY DEF LeasedIn, Leased
  <1> DEFINE Goal == d \in graph'.ids /\ status'[d] \in S
  <1>0. graph.ids \subseteq Deliverable
    BY LeasesAssumption DEF ValidGraphs, Graph
  <1>1. d \in Leased => d \in graph.ids /\ status[d] \in S
    BY DEF LeasedIn
  <1>2. status \in [Deliverable -> Status \cup {Absent}]
        /\ lease \in [Deliverable -> Lease \cup {NoLease}]
    BY DEF TypeOK
  <1>3. "ready" \in S /\ "pending" \in S /\ "in_progress" \in S
    BY DEF Closed, Unfinished
  <1>4. CASE UNCHANGED vars
    BY <1>1, <1>4 DEF vars, Leased
  <1>5. ASSUME NEW w \in Caller, CallerStep(w)
        PROVE  Goal
    <2>1. ASSUME NEW scope, NEW n, NEW ttl, NEW age, AcquireCohort(w, scope, n, ttl, age)
          PROVE  Goal
      <3>1. PICK cohort \in SUBSET graph.ids :
              /\ status' = [x \in Deliverable |->
                              IF x \in cohort THEN "in_progress" ELSE Broken(age)[x]]
              /\ \A x \in Deliverable \ cohort : lease'[x] = Without(Lapsed(age))[x]
        BY <2>1, AcquireEffect
      <3>2. graph' = graph
        BY <2>1 DEF AcquireCohort
      <3>3. CASE d \in cohort
        BY <1>3, <3>1, <3>2, <3>3
      <3>4. CASE d \notin cohort
        <4>1. d \notin Lapsed(age) /\ d \in Leased
          BY <3>1, <3>4, StillHeld
        <4>2. ReapedStatus(age)[d] = status[d]
          BY <4>1 DEF ReapedStatus, Rederived
        <4>3. d \in Poisoned(age) => "failed" \in S
          BY <4>1, <1>2, LeasesAssumption DEF Budgeted, TypeOK, Poisoned
        <4> QED
          BY <1>1, <3>1, <3>2, <3>4, <4>1, <4>2, <4>3 DEF Broken
      <3> QED
        BY <3>3, <3>4
    <2>2. ASSUME NEW e \in Deliverable, MarkComplete(w, e)
          PROVE  Goal
      <3>1. CASE UNCHANGED <<status, lease>>
        BY <1>1, <2>2, <3>1 DEF MarkComplete, Leased
      <3>2. CASE status' = Completed(graph, status, e) /\ lease' = EndLease(lease, e)
        <4>1. d # e /\ d \in Leased
          BY <1>2, <3>2 DEF EndLease, Leased
        <4> QED
          BY <1>1, <1>2, <1>3, <2>2, <3>2, <4>1, CompletedOther DEF MarkComplete
      <3> QED
        BY <2>2, <3>1, <3>2 DEF MarkComplete, Save
    <2>3. ASSUME NEW e \in Deliverable, MarkFailed(w, e)
          PROVE  Goal
      BY <1>1, <1>2, <2>3 DEF MarkFailed, Save, EndLease, Leased
    <2>4. ASSUME NEW e \in Deliverable, NEW s \in Marks, MarkOpen(w, e, s)
          PROVE  Goal
      BY <1>1, <1>2, <2>4 DEF MarkOpen, MayMark, Save, Closed, Leased
    <2>5. ASSUME NEW e \in Deliverable, NEW age \in Ages,
                 \/ \E ttl \in Ttls : HeartbeatExplicit(w, e, ttl, age)
                 \/ HeartbeatDefault(w, e, age)
          PROVE  Goal
      BY <1>1, <2>5, HeartbeatLease DEF Leased
    <2> QED
      BY <1>5, <2>1, <2>2, <2>3, <2>4, <2>5 DEF CallerStep
  <1>6. CASE OperatorStep
    <2>1. ASSUME NEW e \in Deliverable, NEW override, NEW age, Accept(e, override, age)
          PROVE  Goal
      <3>0. graph' = graph
        BY <2>1 DEF Accept
      <3>1. CASE status' = ReapedStatus(age) /\ lease' = Without(Lapsed(age))
        BY <1>1, <3>0, <3>1, StillHeld DEF ReapedStatus, Rederived
      <3>2. CASE /\ status' = Completed(graph, ReapedStatus(age), e)
                 /\ lease' = EndLease(Without(Lapsed(age)), e)
        <4>1. d # e /\ Without(Lapsed(age))[d] # NoLease
          BY <3>2 DEF EndLease, Without
        <4>2. d \in Leased /\ ReapedStatus(age)[d] = status[d]
          BY <4>1, StillHeld DEF ReapedStatus, Rederived
        <4>3. ReapedStatus(age) \in [Deliverable -> Status \cup {Absent}]
          BY <1>2, RederivedType DEF ReapedStatus
        <4> QED
          BY <1>1, <1>3, <3>0, <3>2, <4>1, <4>2, <4>3, CompletedOther
      <3> QED
        BY <2>1, <3>1, <3>2 DEF Accept, Save
    <2>2. ASSUME NEW e \in Deliverable, NEW reset, ForceRelease(e, reset)
          PROVE  Goal
      <3>1. graph' = graph /\ lease' = EndLease(lease, e)
        BY <2>2 DEF ForceRelease, Save
      <3>2. d # e /\ d \in Leased
        BY <1>2, <3>1 DEF EndLease, Leased
      <3>3. status'[d] = status[d]
        BY <1>2, <2>2, <3>2 DEF ForceRelease, Save, Rederived
      <3> QED
        BY <1>1, <3>1, <3>2, <3>3
    <2>3. ASSUME NEW new, NEW force, NEW age, Revise(new, force, age)
          PROVE  Goal
      <3>1. graph' = new
        BY <2>3 DEF Revise
      <3>2. d \in Leased
        BY <2>3 DEF Revise, Save, Without, Leased
      <3> QED
        BY <1>1, <1>3, <2>3, <3>1, <3>2, ReviseKeeps
    <2>4. ASSUME NEW age, Sweep(age)
          PROVE  Goal
      BY <1>1, <2>4, StillHeld DEF Sweep, Save, Rederived
    <2>5. CASE TakeBaseline
      BY <1>1, <2>5 DEF TakeBaseline, Leased
    <2> QED
      BY <1>6, <2>1, <2>2, <2>3, <2>4, <2>5 DEF OperatorStep
  <1>7. CASE Tick
    BY <1>1, <1>7 DEF Tick, Leased
  <1> QED
    BY <1>4, <1>5, <1>6, <1>7 DEF Next

(* Who is leased, or may be leased again after a revision, keeps a budget: *)
(* a failure ends its lease, and superseded work was leased.               *)
LEMMA StepBudgeted ==
  ASSUME TypeOK, graph \in ValidGraphs, LeasedIn(Unfinished), Budgeted,
         "superseded_revision" \notin Marks, [Next]_vars
  PROVE  Budgeted'
  <1> DEFINE Owed(x) == x \in Leased \/ status[x] = "superseded_revision"
  <1> SUFFICES ASSUME NEW d \in Deliverable,
                      lease'[d] # NoLease \/ status'[d] = "superseded_revision"
               PROVE  failures'[d] < MaxAttempts
    BY DEF Budgeted, Leased
  <1> DEFINE Goal == failures'[d] < MaxAttempts
  <1>1. Owed(d) => failures[d] < MaxAttempts
    BY DEF Budgeted
  <1>2. /\ status \in [Deliverable -> Status \cup {Absent}]
        /\ lease \in [Deliverable -> Lease \cup {NoLease}]
        /\ failures \in [Deliverable -> 0..MaxAttempts]
        /\ MaxAttempts \in Nat \ {0}
    BY LeasesAssumption DEF TypeOK
  <1>3. \A lost : Rederived(graph, status, lost)[d] = "superseded_revision"
                    => status[d] = "superseded_revision"
    BY DEF Rederived, Rederive
  <1>4. CASE UNCHANGED vars
    BY <1>1, <1>4 DEF vars, Leased
  <1>5. ASSUME NEW w \in Caller, CallerStep(w)
        PROVE  Goal
    <2>1. ASSUME NEW scope, NEW n, NEW ttl, NEW age, AcquireCohort(w, scope, n, ttl, age)
          PROVE  Goal
      <3>1. PICK cohort \in SUBSET graph.ids :
              /\ \A x \in cohort : Reacquirable(graph, Broken(age), x)
              /\ status' = [x \in Deliverable |->
                              IF x \in cohort THEN "in_progress" ELSE Broken(age)[x]]
              /\ \A x \in Deliverable \ cohort : lease'[x] = Without(Lapsed(age))[x]
        BY <2>1, AcquireEffect
      <3>2. failures' = failures
        BY <2>1 DEF AcquireCohort
      <3>3. CASE d \in cohort
        <4>1. Broken(age)[d] \in {"ready", "superseded_revision"}
          BY <3>1, <3>3 DEF Reacquirable
        <4>2. CASE ReapedStatus(age)[d] = "superseded_revision"
          BY <1>1, <1>3, <3>2, <4>2 DEF ReapedStatus
        <4>3. CASE ReapedStatus(age)[d] = "ready"
          <5>1. d \notin Poisoned(age)
            BY <4>1, <4>3 DEF Broken
          <5> QED
            BY <1>2, <3>1, <3>2, <3>3, <4>3, <5>1 DEF Poisoned
        <4> QED
          BY <4>1, <4>2, <4>3 DEF Broken
      <3>4. CASE d \notin cohort
        <4>1. lease'[d] # NoLease => d \in Leased
          BY <3>1, <3>4, StillHeld
        <4>2. status'[d] = "superseded_revision" => status[d] = "superseded_revision"
          BY <1>3, <3>1, <3>4 DEF ReapedStatus, Broken
        <4> QED
          BY <1>1, <3>2, <4>1, <4>2
      <3> QED
        BY <3>3, <3>4
    <2>2. ASSUME NEW e \in Deliverable, MarkComplete(w, e)
          PROVE  Goal
      <3>0. failures' = failures
        BY <2>2 DEF MarkComplete
      <3>1. CASE UNCHANGED <<status, lease>>
        BY <1>1, <3>0, <3>1 DEF Leased
      <3>2. CASE status' = Completed(graph, status, e) /\ lease' = EndLease(lease, e)
        <4>1. status'[d] = "superseded_revision" => status[d] = "superseded_revision"
          BY <1>2, <3>2 DEF Completed
        <4>2. lease'[d] # NoLease => d \in Leased
          BY <1>2, <3>2 DEF EndLease, Leased
        <4> QED
          BY <1>1, <3>0, <4>1, <4>2
      <3> QED
        BY <2>2, <3>1, <3>2 DEF MarkComplete, Save
    <2>3. ASSUME NEW e \in Deliverable, MarkFailed(w, e)
          PROVE  Goal
      <3>1. d # e /\ Owed(d)
        BY <1>2, <2>3 DEF MarkFailed, Save, EndLease, Leased
      <3>2. failures'[d] = failures[d]
        BY <1>2, <2>3, <3>1 DEF MarkFailed, Bump
      <3> QED
        BY <1>1, <3>1, <3>2
    <2>4. ASSUME NEW e \in Deliverable, NEW s \in Marks, MarkOpen(w, e, s)
          PROVE  Goal
      <3>1. Owed(d)
        BY <1>2, <2>4 DEF MarkOpen, Save, Leased
      <3> QED
        BY <1>1, <2>4, <3>1 DEF MarkOpen
    <2>5. ASSUME NEW e \in Deliverable, NEW age \in Ages,
                 \/ \E ttl \in Ttls : HeartbeatExplicit(w, e, ttl, age)
                 \/ HeartbeatDefault(w, e, age)
          PROVE  Goal
      <3>1. Owed(d)
        BY <2>5, HeartbeatLease DEF Leased
      <3> QED
        BY <1>1, <2>5, <3>1 DEF HeartbeatExplicit, HeartbeatDefault, Heartbeat
    <2> QED
      BY <1>5, <2>1, <2>2, <2>3, <2>4, <2>5 DEF CallerStep
  <1>6. CASE OperatorStep
    <2>1. ASSUME NEW e \in Deliverable, NEW override, NEW age, Accept(e, override, age)
          PROVE  Goal
      <3>1. lease'[d] # NoLease => d \in Leased
        BY <2>1 DEF Accept, Save, EndLease, Without, Leased
      <3>2. status'[d] = "superseded_revision" => status[d] = "superseded_revision"
        <4>1. ReapedStatus(age) \in [Deliverable -> Status \cup {Absent}]
          BY <1>2, RederivedType DEF ReapedStatus
        <4>2. \/ status' = ReapedStatus(age)
              \/ status' = Completed(graph, ReapedStatus(age), e)
          BY <2>1 DEF Accept, Save
        <4>3. status'[d] = "superseded_revision"
                => ReapedStatus(age)[d] = "superseded_revision"
          BY <4>1, <4>2 DEF Completed
        <4> QED
          BY <1>3, <4>3 DEF ReapedStatus
      <3> QED
        BY <1>1, <2>1, <3>1, <3>2 DEF Accept
    <2>2. ASSUME NEW e \in Deliverable, NEW reset \in BOOLEAN, ForceRelease(e, reset)
          PROVE  Goal
      <3> DEFINE released == IF e \in Leased THEN [status EXCEPT ![e] = "ready"] ELSE status
      <3>1. lease'[d] # NoLease => d \in Leased
        BY <1>2, <2>2 DEF ForceRelease, Save, EndLease, Leased
      <3>2. status' = released \/ status' = Rederived(graph, released, {e})
        BY <2>2 DEF ForceRelease, Save
      <3>3. released[d] = "superseded_revision" => status[d] = "superseded_revision"
        BY <1>2
      <3>4. status'[d] = "superseded_revision" => status[d] = "superseded_revision"
        BY <3>2, <3>3 DEF Rederived, Rederive
      <3>5. failures'[d] \in {0, failures[d]}
        BY <1>2, <2>2 DEF ForceRelease
      <3> QED
        BY <1>1, <1>2, <3>1, <3>4, <3>5
    <2>3. ASSUME NEW new, NEW force, NEW age, Revise(new, force, age)
          PROVE  Goal
      <3> DEFINE st      == ReapedStatus(age)
                 live    == Leased \ Lapsed(age)
                 revised == RevisedStatus(graph, new, st, live)
      <3>1. PICK released : status' = Rederived(new, revised, released)
        BY <2>3 DEF Revise, Save
      <3>2. lease'[d] # NoLease => d \in Leased
        BY <2>3 DEF Revise, Save, Without, Leased
      <3>3. status'[d] = "superseded_revision" => Owed(d)
        <4> SUFFICES ASSUME status'[d] = "superseded_revision"
                     PROVE  Owed(d)
          OBVIOUS
        <4>1. revised[d] = "superseded_revision"
          BY <3>1 DEF Rederived, Rederive
        <4>2. CASE d \in Superseded(graph, new, st, live)
          BY <4>2 DEF Superseded
        <4>3. CASE d \notin Superseded(graph, new, st, live)
          <5>1. st[d] = "superseded_revision"
            BY <4>1, <4>3 DEF RevisedStatus, Absent
          <5> QED
            BY <1>3, <5>1 DEF ReapedStatus
        <4> QED
          BY <4>2, <4>3
      <3>4. failures'[d] \in {0, failures[d]}
        BY <2>3 DEF Revise
      <3> QED
        BY <1>1, <1>2, <3>2, <3>3, <3>4
    <2>4. ASSUME NEW age, Sweep(age)
          PROVE  Goal
      <3>1. Owed(d)
        BY <1>3, <2>4, StillHeld DEF Sweep, Save
      <3> QED
        BY <1>1, <2>4, <3>1 DEF Sweep
    <2>5. CASE TakeBaseline
      BY <1>1, <2>5 DEF TakeBaseline, Leased
    <2> QED
      BY <1>6, <2>1, <2>2, <2>3, <2>4, <2>5 DEF OperatorStep
  <1>7. CASE Tick
    BY <1>1, <1>7 DEF Tick, Leased
  <1> QED
    BY <1>4, <1>5, <1>6, <1>7 DEF Next

(* Whatever callers mark: leased work is in the plan and never complete.   *)
THEOREM LeasedIsOpen == Spec => [](LeasedIn(Status \ {"complete"}))
  <1> DEFINE Inv == TypeOK /\ graph \in ValidGraphs /\ LeasedIn(Status \ {"complete"})
  <1>1. Init => Inv
    BY InitType DEF Init, LeasedIn, Leased
  <1>2. Closed(Status \ {"complete"}) /\ "failed" \in Status \ {"complete"}
    BY LeasesAssumption DEF Closed, Unfinished, Status
  <1>3. Inv /\ [Next]_vars => Inv'
    <2> SUFFICES ASSUME Inv, [Next]_vars PROVE Inv'
      OBVIOUS
    <2>1. LeasedIn(Status \ {"complete"})'
      BY <1>2, StepLeasedIn
    <2> QED
      BY <2>1, StepType DEF ValidGraphs
  <1>4. Inv => LeasedIn(Status \ {"complete"})
    OBVIOUS
  <1>5. QED
    BY <1>1, <1>3, <1>4, PTL DEF Spec

(* The invariant of callers that leave the superseded status to revisions. *)
BudgetInv == TypeOK /\ graph \in ValidGraphs /\ LeasedIn(Unfinished) /\ Budgeted

LEMMA BudgetInitially == Init => BudgetInv
  <1> SUFFICES ASSUME Init PROVE BudgetInv
    OBVIOUS
  <1>1. \A d \in Deliverable : status[d] # "superseded_revision" /\ d \notin Leased
    BY DEF Init, InitialStatus, Leased, Absent
  <1> QED
    BY <1>1, InitType DEF BudgetInv, LeasedIn, Budgeted, Leased

LEMMA BudgetKept ==
  ASSUME "superseded_revision" \notin Marks, BudgetInv, [Next]_vars
  PROVE  BudgetInv'
  <1> USE DEF BudgetInv
  <1>1. Closed(Unfinished)
    BY LeasesAssumption DEF Closed, Unfinished, Status
  <1>2. LeasedIn(Unfinished)'
    BY <1>1, StepLeasedIn
  <1> QED
    BY <1>2, StepBudgeted, StepType DEF ValidGraphs

LEMMA BudgetInvariant ==
  ASSUME "superseded_revision" \notin Marks
  PROVE  Spec => []BudgetInv
  <1>1. BudgetInv /\ [Next]_vars => BudgetInv'
    BY BudgetKept
  <1> QED
    BY <1>1, BudgetInitially, PTL DEF Spec

(* Unless a caller itself marks work superseded_revision, leased work is   *)
(* unfinished work of the current graph: whatever completes, fails,        *)
(* supersedes or removes a deliverable ends its lease.                     *)
THEOREM LeasesAreOpen ==
  ASSUME "superseded_revision" \notin Marks
  PROVE  Spec => []LeaseStatus
  <1>1. BudgetInv => LeaseStatus
    BY DEF BudgetInv, LeasedIn, Unfinished, LeaseStatus
  <1> QED
    BY <1>1, BudgetInvariant, PTL

-----------------------------------------------------------------------------
(* Grants *)

(* Work done without a lease is in progress and has no lease: what a save  *)
(* keeps of the lockless marks, and no other step adds a lease.            *)
LocklessUnleased ==
  \A d \in lockless : status[d] = "in_progress" /\ lease[d] = NoLease

LEMMA SavedLockless ==
  ASSUME NEW st, NEW ls, NEW ll, Save(st, ls, ll)
  PROVE  LocklessUnleased'
  BY DEF Save, LocklessUnleased

LEMMA StepLockless ==
  ASSUME TypeOK, LocklessUnleased, [Next]_vars
  PROVE  LocklessUnleased'
  <1>1. ASSUME UNCHANGED <<status, lockless>>,
               \A d \in Deliverable : lease'[d] # NoLease => lease[d] # NoLease
        PROVE  LocklessUnleased'
    BY <1>1 DEF LocklessUnleased, TypeOK
  <1>2. CASE UNCHANGED vars
    BY <1>1, <1>2 DEF vars
  <1>3. ASSUME NEW w \in Caller, CallerStep(w)
        PROVE  LocklessUnleased'
    <2>1. ASSUME NEW scope, NEW n, NEW ttl, NEW age, AcquireCohort(w, scope, n, ttl, age)
          PROVE  LocklessUnleased'
      BY <2>1, SavedLockless DEF AcquireCohort
    <2>2. ASSUME NEW d \in Deliverable, MarkComplete(w, d)
          PROVE  LocklessUnleased'
      BY <1>1, <2>2, SavedLockless DEF MarkComplete
    <2>3. ASSUME NEW d \in Deliverable,
                 MarkFailed(w, d) \/ \E s \in Marks : MarkOpen(w, d, s)
          PROVE  LocklessUnleased'
      BY <2>3, SavedLockless DEF MarkFailed, MarkOpen
    <2>4. ASSUME NEW d \in Deliverable, NEW age \in Ages,
                 \/ \E ttl \in Ttls : HeartbeatExplicit(w, d, ttl, age)
                 \/ HeartbeatDefault(w, d, age)
          PROVE  LocklessUnleased'
      BY <1>1, <2>4, HeartbeatLease
    <2> QED
      BY <1>3, <2>1, <2>2, <2>3, <2>4 DEF CallerStep
  <1>4. CASE OperatorStep
    <2>1. CASE \E d \in Deliverable, override \in BOOLEAN, age \in Ages :
                 Accept(d, override, age)
      BY <2>1, SavedLockless DEF Accept
    <2>2. CASE \E d \in Deliverable, reset \in BOOLEAN : ForceRelease(d, reset)
      BY <2>2, SavedLockless DEF ForceRelease
    <2>3. CASE \E new \in Graphs, force \in BOOLEAN, age \in Ages :
                 Revise(new, force, age)
      BY <2>3, SavedLockless DEF Revise
    <2>4. CASE \E age \in Ages : Sweep(age)
      BY <2>4, SavedLockless DEF Sweep
    <2>5. CASE TakeBaseline
      BY <1>1, <2>5 DEF TakeBaseline
    <2> QED
      BY <1>4, <2>1, <2>2, <2>3, <2>4, <2>5 DEF OperatorStep
  <1>5. CASE Tick
    BY <1>1, <1>5 DEF Tick
  <1> QED
    BY <1>2, <1>3, <1>4, <1>5 DEF Next

(* A heartbeat and the clock leave every lease with its holder. *)
LEMMA HeartbeatHolder ==
  ASSUME TypeOK, NEW w \in Caller, NEW d \in Deliverable, NEW age \in Ages,
         \/ \E ttl \in Ttls : HeartbeatExplicit(w, d, ttl, age)
         \/ HeartbeatDefault(w, d, age),
         NEW e \in Deliverable, lease[e] # NoLease
  PROVE  lease'[e] # NoLease /\ lease'[e].holder = lease[e].holder
  <1>1. PICK left : Heartbeat(w, d, left)
    BY DEF HeartbeatExplicit, HeartbeatDefault
  <1>2. lease[e] \in Lease /\ lease'[e] # NoLease
    BY HeartbeatLease DEF TypeOK
  <1> QED
    BY <1>1, <1>2 DEF Heartbeat, Lease, TypeOK

LEMMA TickHolder ==
  ASSUME TypeOK, Tick, NEW e \in Deliverable, lease[e] # NoLease
  PROVE  lease'[e] # NoLease /\ lease'[e].holder = lease[e].holder
  <1>1. lease[e] \in Lease
    BY DEF TypeOK
  <1>2. [lease[e] EXCEPT !.left = @ - 1] \in [holder : Caller, left : Int]
        /\ [lease[e] EXCEPT !.left = @ - 1].holder = lease[e].holder
    BY <1>1, LeasesAssumption DEF Lease
  <1> QED
    BY <1>2, LeasesAssumption DEF Tick

(* Only an acquire grants a lease. *)
LEMMA OnlyAcquireGrants ==
  ASSUME TypeOK, Next, NEW d \in Deliverable, GainsLease(d)
  PROVE  \E w \in Caller : \E scope, n, ttl, age : AcquireCohort(w, scope, n, ttl, age)
  <1> DEFINE Kept == /\ lease'[d] # NoLease => lease[d] # NoLease
                     /\ lease'[d] # NoLease => lease'[d].holder = lease[d].holder
  <1>0. ~ Kept
    BY DEF GainsLease, Leased
  <1>1. ASSUME NEW w \in Caller, CallerStep(w)
        PROVE  Kept \/ \E scope, n, ttl, age : AcquireCohort(w, scope, n, ttl, age)
    <2>1. ASSUME NEW e \in Deliverable,
                 \/ MarkComplete(w, e) \/ MarkFailed(w, e)
                 \/ \E s \in Marks : MarkOpen(w, e, s)
          PROVE  Kept
      BY <2>1 DEF MarkComplete, MarkFailed, MarkOpen, Save, EndLease, TypeOK
    <2>2. ASSUME NEW e \in Deliverable, NEW age \in Ages,
                 \/ \E ttl \in Ttls : HeartbeatExplicit(w, e, ttl, age)
                 \/ HeartbeatDefault(w, e, age)
          PROVE  Kept
      BY <2>2, HeartbeatLease, HeartbeatHolder
    <2> QED
      BY <1>1, <2>1, <2>2 DEF CallerStep
  <1>2. ASSUME OperatorStep PROVE Kept
    <2>1. ASSUME NEW e, NEW override, NEW age, Accept(e, override, age)
          PROVE  Kept
      BY <2>1 DEF Accept, Save, EndLease, Without
    <2>2. ASSUME NEW e, NEW reset, ForceRelease(e, reset)
          PROVE  Kept
      BY <2>2 DEF ForceRelease, Save, EndLease, TypeOK
    <2>3. ASSUME NEW new, NEW force, NEW age, Revise(new, force, age)
          PROVE  Kept
      BY <2>3 DEF Revise, Save, Without
    <2>4. ASSUME NEW age, Sweep(age)
          PROVE  Kept
      BY <2>4 DEF Sweep, Save, Without
    <2>5. CASE TakeBaseline
      BY <2>5 DEF TakeBaseline
    <2> QED
      BY <1>2, <2>1, <2>2, <2>3, <2>4, <2>5 DEF OperatorStep
  <1>3. ASSUME Tick PROVE Kept
    <2>1. lease'[d] # NoLease => lease[d] # NoLease
      BY <1>3 DEF Tick
    <2> QED
      BY <1>3, <2>1, TickHolder
  <1> HIDE DEF Kept
  <1> QED
    BY <1>0, <1>1, <1>2, <1>3 DEF Next

GrantSound(d) ==
  /\ PrereqsComplete(graph, status, d)
  /\ status[d] \notin {"complete", "failed"}
  /\ d \notin lockless
  /\ ~ graph.manual[d]
  /\ failures[d] < MaxAttempts
  /\ lapses'[d] < MaxLapses

LEMMA AcquireSound ==
  ASSUME BudgetInv, LocklessUnleased, NEW w, NEW scope, NEW n, NEW ttl, NEW age,
         AcquireCohort(w, scope, n, ttl, age), NEW d \in Deliverable, GainsLease(d)
  PROVE  GrantSound(d)
  <1>1. PICK cohort \in SUBSET graph.ids :
          /\ \A e \in cohort : /\ Reacquirable(graph, Broken(age), e)
                               /\ ~ graph.manual[e]
                               /\ Without(Lapsed(age))[e] = NoLease
                               /\ lapses'[e] < MaxLapses
          /\ \A e \in Deliverable \ cohort : lease'[e] = Without(Lapsed(age))[e]
    BY AcquireEffect
  <1>2. d \in cohort
    BY <1>1, StillHeld DEF GainsLease
  <1>3. graph.prereqs[d] \subseteq Deliverable /\ graph.ids \subseteq Deliverable
    BY LeasesAssumption DEF BudgetInv, ValidGraphs, Graph
  <1>4. \A p \in Deliverable : Broken(age)[p] = "complete" => status[p] = "complete"
    BY RederivedNotComplete DEF Broken, ReapedStatus
  <1>5. PrereqsComplete(graph, status, d)
    BY <1>1, <1>2, <1>3, <1>4 DEF Reacquirable, PrereqsComplete
  <1>6. /\ ReapedStatus(age)[d] \in {"ready", "superseded_revision"}
        /\ ReapedStatus(age)[d] = "ready" => failures[d] < MaxAttempts
    <2>1. Broken(age)[d] \in {"ready", "superseded_revision"}
      BY <1>1, <1>2 DEF Reacquirable
    <2>2. d \notin Poisoned(age)
      BY <2>1 DEF Broken
    <2>3. failures[d] \in Nat /\ MaxAttempts \in Nat
      BY LeasesAssumption DEF BudgetInv, TypeOK
    <2> QED
      BY <1>2, <2>1, <2>2, <2>3 DEF Broken, Poisoned
  <1>7. CASE d \in Lapsed(age)
    <2>1. d \in Leased
      BY <1>7 DEF Lapsed
    <2> QED
      BY <1>1, <1>2, <1>5, <2>1
         DEF GrantSound, BudgetInv, LeasedIn, Unfinished, Budgeted, LocklessUnleased, Leased
  <1>8. CASE d \notin Lapsed(age)
    <2>1. status[d] \in {"ready", "superseded_revision"}
          /\ failures[d] < MaxAttempts
      BY <1>6, <1>8 DEF ReapedStatus, Rederived, BudgetInv, Budgeted
    <2> QED
      BY <1>1, <1>2, <1>5, <2>1 DEF GrantSound, LocklessUnleased
  <1> QED
    BY <1>7, <1>8

(* Unless a caller itself marks work superseded_revision, every lease is   *)
(* granted on unfinished, unclaimed work that may start and is within both *)
(* of its retry budgets: whatever was reaped, broken, revised or released  *)
(* before.                                                                 *)
THEOREM GrantsSound ==
  ASSUME "superseded_revision" \notin Marks
  PROVE  Spec => GrantsAreSound
  <1>1. Init => LocklessUnleased
    BY DEF Init, LocklessUnleased
  <1>2. BudgetInv /\ LocklessUnleased /\ [Next]_vars => LocklessUnleased'
    BY StepLockless DEF BudgetInv
  <1>3. BudgetInv /\ LocklessUnleased /\ [Next]_vars =>
          [\A d \in Deliverable : GainsLease(d) => GrantSound(d)]_vars
    <2> SUFFICES ASSUME BudgetInv, LocklessUnleased, Next, NEW d \in Deliverable, GainsLease(d)
                 PROVE  GrantSound(d)
      OBVIOUS
    <2>1. PICK w \in Caller : \E scope, n, ttl, age : AcquireCohort(w, scope, n, ttl, age)
      BY OnlyAcquireGrants DEF BudgetInv
    <2> QED
      BY <2>1, AcquireSound
  <1>4. QED
    BY <1>1, <1>2, <1>3, BudgetInvariant, PTL DEF Spec, GrantsAreSound, GrantSound

-----------------------------------------------------------------------------
(* Superseded work *)

Superseding(d) ==
  /\ graph' # graph /\ BecomesSuperseded(d) => lease'[d] = NoLease
  /\ d \notin Leased /\ LeavesSuperseded(d) =>
       \/ GainsLease(d)
       \/ \E override \in BOOLEAN, age \in Ages : Accept(d, override, age)
       \/ graph' # graph

(* An acquire leases whatever it changes after reaping and the circuit     *)
(* breaker.                                                                *)
LEMMA AcquireLeases ==
  ASSUME NEW w \in Caller, NEW scope, NEW n, NEW ttl \in Ttls, NEW age \in Ages,
         AcquireCohort(w, scope, n, ttl, age),
         NEW d \in Deliverable, status'[d] # Broken(age)[d]
  PROVE  lease'[d] # NoLease
  <1>1. PICK cohort :
          /\ status' = [x \in Deliverable |->
                          IF x \in cohort THEN "in_progress" ELSE Broken(age)[x]]
          /\ lease' = [x \in Deliverable |->
                         IF x \in cohort THEN [holder |-> w, left |-> ttl - age]
                         ELSE Without(Lapsed(age))[x]]
    BY DEF AcquireCohort, Save, Broken, Poisoned
  <1>2. lease'[d] = [holder |-> w, left |-> ttl - age]
    BY <1>1
  <1>3. ttl - age \in Int
    BY LeasesAssumption DEF Ttls, Ages
  <1> QED
    BY <1>2, <1>3, LeasesAssumption

(* A lease that a revision keeps does not become superseded. *)
LEMMA ReviseSupersedes ==
  ASSUME NEW new, NEW force, NEW age, Revise(new, force, age),
         NEW d \in Deliverable, BecomesSuperseded(d)
  PROVE  lease'[d] = NoLease
  <1> SUFFICES ASSUME lease'[d] # NoLease
               PROVE  FALSE
    OBVIOUS
  <1>1. CASE d \in graph.ids
    <2>1. status'[d] \in {status[d], "ready", "pending"}
      BY <1>1, ReviseKeeps
    <2> QED
      BY <2>1 DEF BecomesSuperseded
  <1>2. CASE d \notin graph.ids
    <2> DEFINE live    == Leased \ Lapsed(age)
               revised == RevisedStatus(graph, new, ReapedStatus(age), live)
    <2>1. PICK released : status' = Rederived(new, revised, released)
      BY DEF Revise, Save
    <2>2. d \notin Survivors(graph, new)
      BY <1>2 DEF Survivors
    <2>3. revised[d] # "superseded_revision"
      BY <2>2 DEF RevisedStatus, Superseded, Recontracted, Absent
    <2> QED
      BY <2>1, <2>3 DEF Rederived, Rederive, BecomesSuperseded
  <1> QED
    BY <1>1, <1>2

LEMMA StepSuperseding ==
  ASSUME TypeOK, graph \in ValidGraphs, [Next]_vars, NEW d \in Deliverable
  PROVE  Superseding(d)
  <1>0. CASE UNCHANGED vars
    BY <1>0 DEF vars, Superseding, BecomesSuperseded, LeavesSuperseded
  <1>1. CASE Next /\ graph' # graph
    BY <1>1, OnlyRevise, ReviseSupersedes DEF Superseding
  <1>2. CASE Next /\ graph' = graph
    <2> DEFINE Goal == \/ GainsLease(d)
                       \/ \E override \in BOOLEAN, age \in Ages : Accept(d, override, age)
    <2> SUFFICES ASSUME d \notin Leased, LeavesSuperseded(d)
                 PROVE  Goal
      BY <1>2 DEF Superseding
    <2>1. /\ status[d] = "superseded_revision" /\ status'[d] # status[d]
          /\ lease[d] = NoLease
          /\ status \in [Deliverable -> Status \cup {Absent}]
          /\ lease \in [Deliverable -> Lease \cup {NoLease}]
      BY DEF LeavesSuperseded, Leased, TypeOK
    <2>2. \A age : d \notin Lapsed(age) /\ ReapedStatus(age)[d] = status[d]
      BY DEF Lapsed, ReapedStatus, Rederived
    <2>3. ASSUME NEW w \in Caller, CallerStep(w)
          PROVE  Goal
      <3>1. ASSUME NEW scope, NEW n, NEW ttl \in Ttls, NEW age \in Ages,
                   AcquireCohort(w, scope, n, ttl, age)
            PROVE  Goal
        <4>1. Broken(age)[d] = status[d]
          BY <2>1, <2>2 DEF Broken, Poisoned
        <4> QED
          BY <2>1, <3>1, <4>1, AcquireLeases DEF GainsLease
      <3>2. ASSUME NEW e \in Deliverable, MarkComplete(w, e)
            PROVE  Goal
        <4>1. e # d /\ status' # status
          BY <2>1, <3>2 DEF MarkComplete, LocklessMarkAllowed
        <4>2. status' = Completed(graph, status, e)
          BY <3>2, <4>1 DEF MarkComplete, Save
        <4> QED
          BY <2>1, <4>1, <4>2, CompletedOther
      <3>3. ASSUME NEW e \in Deliverable, MarkFailed(w, e)
            PROVE  Goal
        BY <2>1, <3>3 DEF MarkFailed, LocklessMarkAllowed, Save
      <3>4. ASSUME NEW e \in Deliverable, NEW s \in Marks, MarkOpen(w, e, s)
            PROVE  Goal
        BY <2>1, <3>4 DEF MarkOpen, LocklessMarkAllowed, Save
      <3>5. ASSUME NEW e \in Deliverable, NEW age \in Ages,
                   \/ \E ttl \in Ttls : HeartbeatExplicit(w, e, ttl, age)
                   \/ HeartbeatDefault(w, e, age)
            PROVE  Goal
        BY <2>1, <3>5, HeartbeatLease
      <3> QED
        BY <2>3, <3>1, <3>2, <3>3, <3>4, <3>5 DEF CallerStep
    <2>4. CASE OperatorStep
      <3>1. ASSUME NEW e \in Deliverable, NEW override \in BOOLEAN, NEW age \in Ages,
                   Accept(e, override, age)
            PROVE  Goal
        <4>1. CASE e = d
          BY <3>1, <4>1
        <4>2. CASE e # d
          <5>1. \/ status' = ReapedStatus(age)
                \/ status' = Completed(graph, ReapedStatus(age), e)
            BY <3>1 DEF Accept, Save
          <5>2. ReapedStatus(age) \in [Deliverable -> Status \cup {Absent}]
            BY <2>1, RederivedType DEF ReapedStatus
          <5> QED
            BY <2>1, <2>2, <4>2, <5>1, <5>2, CompletedOther
        <4> QED
          BY <4>1, <4>2
      <3>2. ASSUME NEW e \in Deliverable, NEW reset, ForceRelease(e, reset)
            PROVE  Goal
        <4>1. PICK st : /\ \/ st = status
                           \/ st = [status EXCEPT ![e] = "ready"] /\ e \in Leased
                        /\ \/ status' = st
                           \/ st[e] = "failed" /\ status' = Rederived(graph, st, {e})
          BY <3>2 DEF ForceRelease, Save
        <4>2. st[d] = status[d]
          BY <2>1, <4>1 DEF Leased
        <4> QED
          BY <2>1, <4>1, <4>2 DEF Rederived
      <3>3. ASSUME NEW new, NEW force, NEW age, Revise(new, force, age)
            PROVE  Goal
        BY <1>2, <3>3 DEF Revise, SameGraph, Changed
      <3>4. ASSUME NEW age, Sweep(age)
            PROVE  Goal
        BY <2>1, <2>2, <3>4 DEF Sweep, Orphans, Save, Rederived
      <3>5. CASE TakeBaseline
        BY <2>1, <3>5 DEF TakeBaseline
      <3> QED
        BY <2>4, <3>1, <3>2, <3>3, <3>4, <3>5 DEF OperatorStep
    <2>5. CASE Tick
      BY <2>1, <2>5 DEF Tick
    <2> QED
      BY <1>2, <2>3, <2>4, <2>5 DEF Next
  <1> QED
    BY <1>0, <1>1, <1>2

(* What a revision supersedes loses its lease with it, and from then on    *)
(* only a fresh lease, an operator's accept or another revision moves it:  *)
(* no late mark, no reaping, sweep, release, circuit breaker or completed  *)
(* prerequisite does.                                                      *)
THEOREM SupersededStays == Spec => SupersededNeedsFreshLease
  <1>1. TypeOK /\ graph \in ValidGraphs /\ [Next]_vars
          => [\A d \in Deliverable : Superseding(d)]_vars
    BY StepSuperseding
  <1> QED
    BY <1>1, TypeCorrect, PTL DEF Spec, SupersededNeedsFreshLease, Superseding

-----------------------------------------------------------------------------
(* Live leases *)

(* A live lease is not reaped, whatever the age of the timestamp. *)
LEMMA LiveIsNotLapsed ==
  ASSUME TypeOK, NEW d \in Deliverable, Live(d), NEW age \in Ages
  PROVE  /\ d \in Leased /\ d \notin Lapsed(age)
         /\ Without(Lapsed(age))[d] = lease[d]
  <1>1. d \in Leased /\ lease[d] \in Lease /\ lease[d].left >= 0
    BY DEF Live, Leased, TypeOK
  <1>2. d \notin Lapsed(age)
    BY <1>1, LeasesAssumption DEF Lapsed, Lease, Ages
  <1> QED
    BY <1>1, <1>2 DEF Without

(* A revision that nobody had to force keeps the leases that are live.     *)
LEMMA UnforcedKeeps ==
  ASSUME TypeOK, NEW new, NEW age \in Ages, Revise(new, FALSE, age),
         NEW d \in Deliverable, Live(d), d \in graph.ids
  PROVE  lease'[d] = lease[d]
  <1> DEFINE st      == ReapedStatus(age)
             live    == Leased \ Lapsed(age)
             carried == (live \cap new.ids) \ Superseded(graph, new, st, live)
  <1>1. Undisturbing(graph, new, st, live)
    BY DEF Revise
  <1>2. PICK evictor :
          /\ Evictions(graph, new, carried, evictor)
          /\ lease' = Without(Deliverable \
                        (carried \ {e \in carried : evictor[e] # NoBarrier}))
    BY DEF Revise, Save
  <1>3. d \in live
    BY LiveIsNotLapsed
  <1>4. d \in carried
    BY <1>1, <1>3 DEF Undisturbing, Removed
  <1>5. new \in Graph
    BY LeasesAssumption DEF Revise, ValidGraphs
  <1>6. carried \subseteq Deliverable
    BY DEF Leased
  <1>7. ASSUME NEW e \in carried
        PROVE  evictor[e] # e /\ \A x \in carried : x # e => evictor[x] # e
    <2> DEFINE holders == {x \in carried :
                             /\ new.order[x] < new.order[e]
                             /\ evictor[x] # x
                             /\ evictor[x] \in carried =>
                                  new.order[evictor[x]] >= new.order[e]}
               clashing == {x \in holders : FilesClash(new, e, x)}
               yielding == {x \in clashing : /\ FilesChanged(graph, new, x)
                                             /\ ~ FilesChanged(graph, new, e)}
               evicted  == {x \in carried : x # e /\ evictor[x] = e}
    <2>1. clashing = yielding => evictor[e] # e /\ evicted = yielding
      BY <1>2 DEF Evictions
    <2>2. \A x \in holders : x # e
      <3>1. new.order[e] \in Nat
        BY <1>5, <1>6, <1>7 DEF Graph
      <3> QED
        BY <3>1
    <2>3. clashing = {}
      BY <1>1, <1>7, <2>2 DEF Undisturbing
    <2>4. evictor[e] # e /\ evicted = {}
      BY <2>1, <2>3
    <2> QED
      BY <2>4
  <1>8. evictor[d] = NoBarrier
    <2>1. evictor[d] \in carried \cup {NoBarrier}
      BY <1>2, <1>4 DEF Evictions
    <2>2. evictor[d] \notin carried
      BY <1>4, <1>7
    <2> QED
      BY <2>1, <2>2
  <1> QED
    BY <1>2, <1>4, <1>8 DEF Without

(* An accept that does not override leaves a live lease alone. *)
LEMMA AcceptNeedsOverride ==
  ASSUME TypeOK, CompleteUnleased, NEW d \in Deliverable, Live(d),
         NEW override \in BOOLEAN, NEW age \in Ages, Accept(d, override, age), LosesLease(d)
  PROVE  Accept(d, TRUE, age) /\ ~ Accept(d, FALSE, age)
  <1> DEFINE held == Without(Lapsed(age))
             reaped == ReapedStatus(age)
  <1>1. d \in Leased /\ held[d] = lease[d] /\ held[d] # NoLease
    BY LiveIsNotLapsed DEF Leased
  <1>2. reaped[d] # "complete"
    BY <1>1, RederivedNotComplete DEF ReapedStatus, CompleteUnleased
  <1>3. override = TRUE
    BY <1>1, <1>2 DEF Accept
  <1>4. ~ Accept(d, FALSE, age)
    BY <1>1, <1>2 DEF Accept
  <1> QED
    BY <1>3, <1>4

EndedRightly(d) ==
  \/ /\ \E w \in Caller : EndedBy(w, d)
     /\ \A w \in Caller : EndedBy(w, d) => w = lease[d].holder
  \/ \E age \in Ages : Accept(d, TRUE, age) /\ ~ Accept(d, FALSE, age)
  \/ \E reset \in BOOLEAN : ForceRelease(d, reset)
  \/ graph' # graph /\ ~ \E age \in Ages : Revise(graph', FALSE, age)

LEMMA StepLive ==
  ASSUME CompleteInv, LeasedIn(Status \ {"complete"}), Next,
         NEW d \in Deliverable, Live(d), LosesLease(d)
  PROVE  EndedRightly(d)
  <1> DEFINE Kept == lease'[d] # NoLease /\ lease'[d].holder = lease[d].holder
  <1>0. ~ Kept /\ lease[d] # NoLease /\ TypeOK /\ d \in graph.ids
    BY DEF LosesLease, Leased, CompleteInv, LeasedIn
  <1>1. ASSUME NEW w \in Caller, CallerStep(w)
        PROVE  Kept \/ EndedBy(w, d)
    <2>1. ASSUME NEW scope, NEW n, NEW ttl, NEW age \in Ages,
                 AcquireCohort(w, scope, n, ttl, age)
          PROVE  Kept
      <3>1. PICK cohort \in SUBSET graph.ids :
              /\ \A x \in cohort : Without(Lapsed(age))[x] = NoLease
              /\ \A x \in Deliverable \ cohort : lease'[x] = Without(Lapsed(age))[x]
        BY <2>1, AcquireEffect
      <3> QED
        BY <1>0, <3>1, LiveIsNotLapsed
    <2>2. ASSUME NEW e \in Deliverable,
                 MarkComplete(w, e) \/ MarkFailed(w, e)
          PROVE  Kept \/ EndedBy(w, d)
      <3>1. CASE e = d
        BY <2>2, <3>1 DEF EndedBy
      <3>2. CASE e # d
        <4>1. lease' = lease \/ lease' = EndLease(lease, e)
          BY <2>2 DEF MarkComplete, MarkFailed, Save
        <4> QED
          BY <1>0, <3>2, <4>1 DEF EndLease, TypeOK
      <3> QED
        BY <3>1, <3>2
    <2>3. ASSUME NEW e \in Deliverable, NEW s \in Marks, MarkOpen(w, e, s)
          PROVE  Kept
      BY <1>0, <2>3 DEF MarkOpen, Save
    <2>4. ASSUME NEW e \in Deliverable, NEW age \in Ages,
                 \/ \E ttl \in Ttls : HeartbeatExplicit(w, e, ttl, age)
                 \/ HeartbeatDefault(w, e, age)
          PROVE  Kept
      BY <1>0, <2>4, HeartbeatHolder
    <2> HIDE DEF Kept
    <2> QED
      BY <1>1, <2>1, <2>2, <2>3, <2>4 DEF CallerStep
  <1>2. ASSUME NEW w \in Caller, EndedBy(w, d)
        PROVE  w = lease[d].holder
    BY <1>0, <1>2 DEF EndedBy, MarkComplete, MarkFailed, MayMark
  <1>3. ASSUME OperatorStep
        PROVE  Kept \/ EndedRightly(d)
    <2>1. ASSUME NEW e \in Deliverable, NEW override \in BOOLEAN, NEW age \in Ages,
                 Accept(e, override, age)
          PROVE  Kept \/ EndedRightly(d)
      <3>1. CASE e = d
        BY <1>0, <2>1, <3>1, AcceptNeedsOverride DEF EndedRightly, CompleteInv
      <3>2. CASE e # d
        <4>1. \/ lease' = Without(Lapsed(age))
              \/ lease' = EndLease(Without(Lapsed(age)), e)
          BY <2>1 DEF Accept, Save
        <4>2. lease'[d] = Without(Lapsed(age))[d]
          BY <3>2, <4>1 DEF EndLease, Without
        <4> QED
          BY <1>0, <4>2, LiveIsNotLapsed
      <3> QED
        BY <3>1, <3>2
    <2>2. ASSUME NEW e \in Deliverable, NEW reset \in BOOLEAN, ForceRelease(e, reset)
          PROVE  Kept \/ EndedRightly(d)
      <3>1. CASE e = d
        BY <2>2, <3>1 DEF EndedRightly
      <3>2. CASE e # d
        BY <1>0, <2>2, <3>2 DEF ForceRelease, Save, EndLease, TypeOK
      <3> QED
        BY <3>1, <3>2
    <2>3. ASSUME NEW new \in Graphs, NEW force \in BOOLEAN, NEW age \in Ages,
                 Revise(new, force, age)
          PROVE  EndedRightly(d)
      <3>1. graph' = new /\ graph' # graph
        BY <2>3 DEF Revise, SameGraph, Changed
      <3>2. ASSUME NEW late \in Ages, Revise(new, FALSE, late)
            PROVE  FALSE
        BY <1>0, <3>2, UnforcedKeeps
      <3> QED
        BY <3>1, <3>2 DEF EndedRightly
    <2>4. ASSUME NEW age \in Ages, Sweep(age)
          PROVE  Kept
      <3>1. lease' = Without(Lapsed(age) \cup Orphans)
        BY <2>4 DEF Sweep, Save
      <3>2. d \notin Lapsed(age) \cup Orphans
        BY <1>0, LiveIsNotLapsed DEF Orphans
      <3> QED
        BY <1>0, <3>1, <3>2 DEF Without
    <2>5. CASE TakeBaseline
      BY <1>0, <2>5 DEF TakeBaseline
    <2> HIDE DEF Kept
    <2> QED
      BY <1>3, <2>1, <2>2, <2>3, <2>4, <2>5 DEF OperatorStep
  <1>4. CASE Tick
    BY <1>0, <1>4, TickHolder
  <1> HIDE DEF Kept
  <1> QED
    BY <1>0, <1>1, <1>2, <1>3, <1>4 DEF Next, EndedRightly

(* A live lease ends only by its holder's own mark, by an accept or a      *)
(* revision that would be refused without override or force, or by a force *)
(* release; never by another worker, a restart or an old timestamp.        *)
THEOREM LiveLeasesKept == Spec => LiveLeaseKept
  <1>1. Init => CompleteInv
    BY InitType DEF Init, CompleteInv, CompleteUnleased
  <1>2. CompleteInv /\ [Next]_vars => CompleteInv'
    BY StepType, StepComplete DEF CompleteInv, ValidGraphs
  <1>3. CompleteInv /\ LeasedIn(Status \ {"complete"}) /\ [Next]_vars =>
          [\A d \in Deliverable : Live(d) /\ LosesLease(d) => EndedRightly(d)]_vars
    BY StepLive
  <1>4. QED
    BY <1>1, <1>2, <1>3, LeasedIsOpen, PTL DEF Spec, LiveLeaseKept, EndedRightly

-----------------------------------------------------------------------------
(* Stranded work *)

(* Work that waits after a re-derivation, although all it waits for is     *)
(* complete, waited that way before.                                       *)
LEMMA RederivedStrandsNothing ==
  ASSUME NEW g, NEW st, NEW lost, NEW d \in Deliverable, g.prereqs[d] \subseteq Deliverable,
         Rederived(g, st, lost)[d] = "pending", PrereqsComplete(g, Rederived(g, st, lost), d)
  PROVE  d \notin lost /\ st[d] = "pending" /\ PrereqsComplete(g, st, d)
  <1>1. PrereqsComplete(g, st, d)
    BY RederivedNotComplete DEF PrereqsComplete
  <1> QED
    BY <1>1 DEF Rederived, Rederive

(* Completing e promotes whatever only e held back. *)
LEMMA CompletedStrandsNothing ==
  ASSUME NEW g, NEW st \in [Deliverable -> Status \cup {Absent}], NEW e \in Deliverable,
         NEW d \in g.ids, d \in Deliverable, g.prereqs[d] \subseteq Deliverable,
         Completed(g, st, e)[d] = "pending", PrereqsComplete(g, Completed(g, st, e), d)
  PROVE  st[d] = "pending" /\ PrereqsComplete(g, st, d)
  <1> DEFINE done == [st EXCEPT ![e] = "complete"]
  <1>1. d # e /\ st[d] = "pending" /\ done[d] = "pending"
    BY DEF Completed
  <1>2. \A p \in Deliverable : Completed(g, st, e)[p] = "complete" => done[p] = "complete"
    BY DEF Completed
  <1>3. PrereqsComplete(g, done, d)
    BY <1>2 DEF PrereqsComplete
  <1>4. e \notin g.prereqs[d]
    BY <1>1, <1>3 DEF Completed
  <1> QED
    BY <1>1, <1>3, <1>4 DEF PrereqsComplete

(* A revision strands nothing: what it keeps kept its prerequisites, and   *)
(* what it re-derives waits for something.                                 *)
LEMMA ReviseStrandsNothing ==
  ASSUME TypeOK, graph \in ValidGraphs, NEW new, NEW force, NEW age,
         Revise(new, force, age), NEW d \in Deliverable, Stranded(d)'
  PROVE  Stranded(d)
  <1> DEFINE st      == ReapedStatus(age)
             live    == Leased \ Lapsed(age)
             revised == RevisedStatus(graph, new, st, live)
             kept    == Survivors(graph, new) \ Reopened(graph, new, st, live)
  <1>1. PICK released : status' = Rederived(new, revised, released)
    BY DEF Revise, Save
  <1>2. /\ graph' = new /\ d \in new.ids
        /\ new.prereqs[d] \subseteq new.ids /\ new.ids \subseteq Deliverable
        /\ graph.prereqs[d] \subseteq Deliverable
    BY LeasesAssumption DEF Revise, Stranded, ValidGraphs, Graph, ValidateGraph
  <1>3. revised[d] = "pending" /\ PrereqsComplete(new, revised, d)
    <2>1. /\ Rederived(new, revised, released)[d] = "pending"
          /\ PrereqsComplete(new, Rederived(new, revised, released), d)
      BY <1>1, <1>2 DEF Stranded
    <2> HIDE DEF revised
    <2> QED
      BY <1>2, <2>1, RederivedStrandsNothing
  <1>4. \A p \in new.prereqs[d] : p \in kept /\ st[p] = "complete"
    BY <1>2, <1>3, RevisedComplete DEF PrereqsComplete
  <1>5. d \notin Superseded(graph, new, st, live)
    <2> SUFFICES ASSUME d \in Superseded(graph, new, st, live) PROVE FALSE
      OBVIOUS
    <2>1. d \in Seeds(graph, new, st, live) /\ d \in Survivors(graph, new)
      BY DEF Seeds, Superseded, Recontracted
    <2>2. d \notin kept
      BY <2>1 DEF Reopened
    <2> QED
      BY <1>2, <1>3, <2>2 DEF RevisedStatus
  <1>6. d \in kept
    BY <1>2, <1>3, <1>4, <1>5 DEF RevisedStatus
  <1>7. st[d] = "pending"
    BY <1>2, <1>3, <1>5, <1>6 DEF RevisedStatus
  <1>8. graph.prereqs[d] = new.prereqs[d]
    <2>1. d \in Carried(graph, new, st)
      BY <1>6, <1>7 DEF Carried
    <2>2. graph.prereqs[d] # new.prereqs[d] => d \in Seeds(graph, new, st, live)
      BY <1>6, <2>1 DEF Seeds, Recontracted
    <2>3. d \in Seeds(graph, new, st, live) => d \in Reopened(graph, new, st, live)
      BY <1>6 DEF Reopened
    <2> QED
      BY <1>6, <2>2, <2>3
  <1>9. PrereqsComplete(graph, st, d)
    BY <1>4, <1>8 DEF PrereqsComplete
  <1>10. status[d] = "pending" /\ PrereqsComplete(graph, status, d)
    BY <1>2, <1>7, <1>9, RederivedStrandsNothing DEF ReapedStatus
  <1> QED
    BY <1>6, <1>10 DEF Stranded, Survivors

LEMMA StepStranded ==
  ASSUME TypeOK, graph \in ValidGraphs, Next, NEW d \in Deliverable, Stranded(d)'
  PROVE  Stranded(d) \/ \E w \in Caller : MarkOpen(w, d, "pending")
  <1>0. /\ status \in [Deliverable -> Status \cup {Absent}]
        /\ graph.ids \subseteq Deliverable
        /\ graph.prereqs[d] \subseteq Deliverable
    BY LeasesAssumption DEF TypeOK, ValidGraphs, Graph
  <1>00. ASSUME NEW age
         PROVE  ReapedStatus(age) \in [Deliverable -> Status \cup {Absent}]
    BY <1>0, RederivedType DEF ReapedStatus
  <1>1. /\ d \in graph'.ids /\ status'[d] = "pending"
        /\ PrereqsComplete(graph', status', d)
    BY DEF Stranded
  <1>2. ASSUME graph' = graph, status[d] = "pending",
               PrereqsComplete(graph, status, d)
        PROVE  Stranded(d)
    BY <1>1, <1>2 DEF Stranded
  <1>3. ASSUME graph' = graph, NEW lost,
               Rederived(graph, status, lost)[d] = "pending",
               PrereqsComplete(graph, Rederived(graph, status, lost), d)
        PROVE  Stranded(d)
    BY <1>0, <1>2, <1>3, RederivedStrandsNothing
  <1>4. ASSUME NEW w \in Caller, CallerStep(w)
        PROVE  Stranded(d) \/ MarkOpen(w, d, "pending")
    <2>1. ASSUME NEW scope, NEW n, NEW ttl, NEW age, AcquireCohort(w, scope, n, ttl, age)
          PROVE  Stranded(d)
      <3>1. PICK cohort \in SUBSET graph.ids :
              status' = [x \in Deliverable |->
                           IF x \in cohort THEN "in_progress" ELSE Broken(age)[x]]
        BY <2>1, AcquireEffect
      <3>2. graph' = graph
        BY <2>1 DEF AcquireCohort
      <3>3. \A p \in Deliverable : status'[p] = "complete" =>
              ReapedStatus(age)[p] = "complete"
        BY <3>1 DEF Broken
      <3>4. ReapedStatus(age)[d] = "pending"
        BY <1>1, <3>1 DEF Broken
      <3>5. PrereqsComplete(graph, ReapedStatus(age), d)
        BY <1>0, <1>1, <3>2, <3>3 DEF PrereqsComplete
      <3> QED
        BY <1>3, <3>2, <3>4, <3>5 DEF ReapedStatus
    <2>2. ASSUME NEW e \in Deliverable, MarkComplete(w, e)
          PROVE  Stranded(d)
      <3>0. graph' = graph
        BY <2>2 DEF MarkComplete
      <3>1. CASE status' = status
        BY <1>1, <1>2, <3>0, <3>1
      <3>2. CASE status' = Completed(graph, status, e)
        BY <1>0, <1>1, <1>2, <3>0, <3>2, CompletedStrandsNothing
      <3> QED
        BY <2>2, <3>1, <3>2 DEF MarkComplete, Save
    <2>3. ASSUME NEW e \in Deliverable, MarkFailed(w, e)
          PROVE  Stranded(d)
      <3>1. status' = [status EXCEPT ![e] = "failed"] /\ graph' = graph
        BY <2>3 DEF MarkFailed, Save
      <3>2. status[d] = "pending" /\ PrereqsComplete(graph, status, d)
        BY <1>0, <1>1, <3>1 DEF PrereqsComplete
      <3> QED
        BY <1>2, <3>1, <3>2
    <2>4. ASSUME NEW e \in Deliverable, NEW s \in Marks, MarkOpen(w, e, s)
          PROVE  Stranded(d) \/ MarkOpen(w, d, "pending")
      <3>1. /\ status' = [status EXCEPT ![e] = s] /\ graph' = graph
            /\ s \notin {"complete", "failed"}
        BY <2>4 DEF MarkOpen, Save
      <3>2. CASE e = d
        <4>1. s = "pending"
          BY <1>0, <1>1, <3>1, <3>2
        <4> QED
          BY <2>4, <3>2, <4>1
      <3>3. CASE e # d
        <4>1. status[d] = "pending" /\ PrereqsComplete(graph, status, d)
          BY <1>0, <1>1, <3>1, <3>3 DEF PrereqsComplete
        <4> QED
          BY <1>2, <3>1, <4>1
      <3> QED
        BY <3>2, <3>3
    <2>5. ASSUME NEW e \in Deliverable, NEW age \in Ages,
                 \/ \E ttl \in Ttls : HeartbeatExplicit(w, e, ttl, age)
                 \/ HeartbeatDefault(w, e, age)
          PROVE  Stranded(d)
      BY <1>1, <1>2, <2>5, HeartbeatLease
    <2> QED
      BY <1>4, <2>1, <2>2, <2>3, <2>4, <2>5 DEF CallerStep
  <1>5. ASSUME OperatorStep PROVE Stranded(d)
    <2>1. ASSUME NEW e \in Deliverable, NEW override, NEW age, Accept(e, override, age)
          PROVE  Stranded(d)
      <3>0. graph' = graph
        BY <2>1 DEF Accept
      <3>1. CASE status' = ReapedStatus(age)
        BY <1>1, <1>3, <3>0, <3>1 DEF ReapedStatus
      <3>2. CASE status' = Completed(graph, ReapedStatus(age), e)
        <4>1. /\ ReapedStatus(age)[d] = "pending"
              /\ PrereqsComplete(graph, ReapedStatus(age), d)
          BY <1>0, <1>00, <1>1, <3>0, <3>2, CompletedStrandsNothing
        <4> QED
          BY <1>3, <3>0, <4>1 DEF ReapedStatus
      <3> QED
        BY <2>1, <3>1, <3>2 DEF Accept, Save
    <2>2. ASSUME NEW e \in Deliverable, NEW reset, ForceRelease(e, reset)
          PROVE  Stranded(d)
      <3> DEFINE released == IF e \in Leased THEN [status EXCEPT ![e] = "ready"] ELSE status
      <3>0. graph' = graph
        BY <2>2 DEF ForceRelease
      <3>1. status' = released \/ status' = Rederived(graph, released, {e})
        BY <2>2 DEF ForceRelease, Save
      <3>2. released[d] = "pending" /\ PrereqsComplete(graph, released, d)
        <4> HIDE DEF released
        <4>1. CASE status' = released
          BY <1>1, <3>0, <4>1
        <4>2. CASE status' = Rederived(graph, released, {e})
          BY <1>0, <1>1, <3>0, <4>2, RederivedStrandsNothing
        <4> QED
          BY <3>1, <4>1, <4>2
      <3>3. status[d] = "pending" /\ PrereqsComplete(graph, status, d)
        BY <1>0, <3>2 DEF PrereqsComplete
      <3> QED
        BY <1>2, <3>0, <3>3
    <2>3. CASE \E new \in Graphs, force \in BOOLEAN, age \in Ages : Revise(new, force, age)
      BY <2>3, ReviseStrandsNothing
    <2>4. ASSUME NEW age, Sweep(age)
          PROVE  Stranded(d)
      <3>1. graph' = graph /\ status' = Rederived(graph, status, Lapsed(age) \cup Orphans)
        BY <2>4 DEF Sweep, Save
      <3> QED
        BY <1>1, <1>3, <3>1
    <2>5. CASE TakeBaseline
      BY <1>1, <1>2, <2>5 DEF TakeBaseline
    <2> QED
      BY <1>5, <2>1, <2>2, <2>3, <2>4, <2>5 DEF OperatorStep
  <1>6. CASE Tick
    BY <1>1, <1>2, <1>6 DEF Tick
  <1> QED
    BY <1>4, <1>5, <1>6 DEF Next

(* Only an explicit pending mark leaves work waiting for nothing: reaping, *)
(* revising, releasing and completing promote whatever they unblock.       *)
THEOREM NothingStranded == Spec => OnlyMarksStrand
  <1>1. TypeOK /\ graph \in ValidGraphs /\ [Next]_vars =>
          [\A d \in Deliverable :
             ~ Stranded(d) /\ Stranded(d)' =>
               \E w \in Caller : MarkOpen(w, d, "pending")]_vars
    BY StepStranded
  <1>2. QED
    BY <1>1, TypeCorrect, PTL DEF Spec, OnlyMarksStrand

-----------------------------------------------------------------------------
(* Retry budgets *)

ChargedRightly(d) ==
  /\ lapses'[d] > lapses[d] => Reaped(d) /\ failures'[d] = failures[d]
  /\ failures'[d] > failures[d] => status[d] # "failed" /\ status'[d] = "failed"

(* A counter that is bumped for D grows only there. *)
LEMMA BumpedOnly ==
  ASSUME NEW limit \in Nat, NEW count \in [Deliverable -> 0..limit], NEW D,
         NEW d \in Deliverable, Bump(count, D, limit)[d] > count[d]
  PROVE  d \in D
  BY DEF Bump

LEMMA StepCharges ==
  ASSUME TypeOK, graph \in ValidGraphs, NoOrphans, Next, NEW d \in graph'.ids
  PROVE  ChargedRightly(d)
  <1>0. /\ lapses \in [Deliverable -> 0..MaxLapses] /\ MaxLapses \in Nat
        /\ failures \in [Deliverable -> 0..MaxAttempts] /\ MaxAttempts \in Nat
    BY LeasesAssumption DEF TypeOK
  <1>1. d \in Deliverable
    BY StepType, LeasesAssumption DEF ValidGraphs, Graph
  <1>2. ASSUME lapses' = lapses \/ lapses'[d] = 0, failures' = failures \/ failures'[d] = 0
        PROVE  ChargedRightly(d)
    <2>1. lapses[d] \in Nat /\ failures[d] \in Nat
      BY <1>0, <1>1
    <2>2. ~ lapses'[d] > lapses[d] /\ ~ failures'[d] > failures[d]
      BY <1>2, <2>1
    <2> QED
      BY <2>2 DEF ChargedRightly
  <1>3. ASSUME failures'[d] = failures[d], lapses'[d] > lapses[d] => Reaped(d)
        PROVE  ChargedRightly(d)
    <2>1. failures[d] \in Nat
      BY <1>0, <1>1
    <2>2. ~ failures'[d] > failures[d]
      BY <1>3, <2>1
    <2> QED
      BY <1>3, <2>2 DEF ChargedRightly
  <1>4. ASSUME NEW w \in Caller, CallerStep(w)
        PROVE  ChargedRightly(d)
    <2>1. ASSUME NEW scope \in Scopes, NEW n \in Counts, NEW ttl \in Ttls, NEW age \in Ages,
                 AcquireCohort(w, scope, n, ttl, age)
          PROVE  ChargedRightly(d)
      <3>1. lapses' = Bump(lapses, Lapsed(age), MaxLapses) /\ failures' = failures
        BY <2>1 DEF AcquireCohort
      <3>2. lapses'[d] > lapses[d] => Reaped(d)
        BY <1>0, <1>1, <2>1, <3>1, BumpedOnly DEF Reaped
      <3> QED
        BY <1>3, <3>1, <3>2
    <2>2. ASSUME NEW e \in Deliverable, MarkFailed(w, e)
          PROVE  ChargedRightly(d)
      <3>1. /\ lapses' = lapses /\ status' = [status EXCEPT ![e] = "failed"]
            /\ failures' = IF status[e] = "failed" THEN failures
                           ELSE Bump(failures, {e}, MaxAttempts)
        BY <2>2 DEF MarkFailed, Save
      <3>2. failures'[d] > failures[d] => d = e /\ status[e] # "failed"
        BY <1>0, <1>1, <3>1, BumpedOnly
      <3>3. status'[e] = "failed"
        BY <3>1 DEF TypeOK
      <3> QED
        BY <1>0, <1>1, <3>1, <3>2, <3>3 DEF ChargedRightly
    <2>3. ASSUME NEW e \in Deliverable, MarkComplete(w, e) \/ \E s \in Marks : MarkOpen(w, e, s)
          PROVE  ChargedRightly(d)
      BY <1>2, <2>3 DEF MarkComplete, MarkOpen
    <2>4. ASSUME NEW e \in Deliverable, NEW age \in Ages,
                 \/ \E ttl \in Ttls : HeartbeatExplicit(w, e, ttl, age)
                 \/ HeartbeatDefault(w, e, age)
          PROVE  ChargedRightly(d)
      BY <1>2, <2>4 DEF HeartbeatExplicit, HeartbeatDefault, Heartbeat
    <2> QED
      BY <1>4, <2>1, <2>2, <2>3, <2>4 DEF CallerStep
  <1>5. CASE OperatorStep
    <2>1. ASSUME NEW e \in Deliverable, NEW override \in BOOLEAN, NEW age \in Ages,
                 Accept(e, override, age)
          PROVE  ChargedRightly(d)
      <3>1. /\ lapses' = Bump(lapses, Lapsed(age), MaxLapses) /\ failures' = failures
            /\ e \in graph.ids
        BY <2>1 DEF Accept
      <3>2. lapses'[d] > lapses[d] => Reaped(d)
        BY <1>0, <1>1, <2>1, <3>1, BumpedOnly DEF Reaped
      <3> QED
        BY <1>3, <3>1, <3>2
    <2>2. ASSUME NEW e \in Deliverable, NEW reset \in BOOLEAN, ForceRelease(e, reset)
          PROVE  ChargedRightly(d)
      <3>1. /\ failures' = failures \/ failures' = [failures EXCEPT ![e] = 0]
            /\ lapses' = lapses \/ lapses' = [lapses EXCEPT ![e] = 0]
        BY <2>2 DEF ForceRelease
      <3> QED
        BY <1>0, <1>1, <3>1 DEF ChargedRightly
    <2>3. ASSUME NEW new \in Graphs, NEW force \in BOOLEAN, NEW age \in Ages,
                 Revise(new, force, age)
          PROVE  ChargedRightly(d)
      <3>1. /\ graph' = new /\ failures'[d] = failures[d]
            /\ lapses'[d] = Bump(lapses, Lapsed(age), MaxLapses)[d]
        BY <1>1, <2>3 DEF Revise
      <3>2. lapses'[d] > lapses[d] => Reaped(d)
        BY <1>0, <1>1, <2>3, <3>1, BumpedOnly DEF Reaped
      <3> QED
        BY <1>3, <3>1, <3>2
    <2>4. ASSUME NEW age \in Ages, Sweep(age)
          PROVE  ChargedRightly(d)
      <3>1. lapses' = Bump(lapses, Lapsed(age), MaxLapses) /\ failures' = failures
        BY <2>4 DEF Sweep, NoOrphans
      <3>2. lapses'[d] > lapses[d] => Reaped(d)
        BY <1>0, <1>1, <2>4, <3>1, BumpedOnly DEF Reaped
      <3> QED
        BY <1>3, <3>1, <3>2
    <2>5. CASE TakeBaseline
      BY <1>2, <2>5 DEF TakeBaseline
    <2> QED
      BY <1>5, <2>1, <2>2, <2>3, <2>4, <2>5 DEF OperatorStep
  <1>6. CASE Tick
    BY <1>2, <1>6 DEF Tick
  <1> QED
    BY <1>4, <1>5, <1>6 DEF Next

(* A lapse is charged only for a lease that had expired when it was reaped *)
(* or swept, a failure only for work that is newly marked failed: a dead   *)
(* worker never uses up the attempts, nor a failing one the lapses.        *)
THEOREM BudgetsApart == Spec => BudgetsKeptApart
  <1>1. TypeOK /\ graph \in ValidGraphs /\ NoOrphans /\ [Next]_vars =>
          [\A d \in graph'.ids : ChargedRightly(d)]_vars
    BY StepCharges
  <1>2. QED
    BY <1>1, TypeCorrect, WorkHasOwner, PTL DEF Spec, BudgetsKeptApart, ChargedRightly

-----------------------------------------------------------------------------
(* The refinement: every step of the lease protocol is a step of the plan   *)
(* service or leaves the abstract plan as it is.                            *)

(* Both specifications are built from the same operators. *)
LEMMA SameStatuses ==
  ASSUME NEW g, NEW st, NEW d, NEW lost
  PROVE  /\ Service!PrereqsComplete(g, st, d) <=> PrereqsComplete(g, st, d)
         /\ Service!Reacquirable(g, st, d) <=> Reacquirable(g, st, d)
         /\ Service!Rederived(g, st, lost) = Rederived(g, st, lost)
         /\ Service!Completed(g, st, d) = Completed(g, st, d)
         /\ Service!InitialStatus(g) = InitialStatus(g)
  BY DEF Service!PrereqsComplete, PrereqsComplete, Service!Reacquirable,
         Reacquirable, Service!Rederived, Rederived, Service!Rederive, Rederive,
         Service!Completed, Completed, Service!InitialStatus, InitialStatus,
         Service!Absent, Absent

LEMMA SameFiles ==
  ASSUME NEW g, NEW d, NEW e
  PROVE  Service!FilesClash(g, d, e) <=> FilesClash(g, d, e)
  BY DEF Service!FilesClash, FilesClash, Service!ModesConflict, ModesConflict

LEMMA SameGraphs ==
  /\ Service!ValidGraphs = ValidGraphs
  /\ \A old, new : Service!SameGraph(old, new) <=> SameGraph(old, new)
  <1>1. \A g, d : Service!Ancestors(g, d) = Ancestors(g, d)
    BY DEF Service!Ancestors, Ancestors
  <1>2. \A g : Service!ValidateGraph(g) <=> ValidateGraph(g)
    BY <1>1, SameFiles
       DEF Service!ValidateGraph, ValidateGraph, Service!Injective, Injective
  <1>3. \A old, new : Service!SameGraph(old, new) <=> SameGraph(old, new)
    BY DEF Service!SameGraph, SameGraph, Service!Changed, Changed,
           Service!Survivors, Survivors, Service!Definition, Definition
  <1> QED
    BY <1>2, <1>3 DEF Service!ValidGraphs, ValidGraphs

LEMMA SameRevision ==
  ASSUME NEW old, NEW new, NEW st, NEW live, NEW leased, NEW evictor
  PROVE  /\ Service!Superseded(old, new, st, live) = Superseded(old, new, st, live)
         /\ Service!RevisedStatus(old, new, st, live) = RevisedStatus(old, new, st, live)
         /\ Service!Evictions(old, new, leased, evictor)
              <=> Evictions(old, new, leased, evictor)
  <1>1. Service!Survivors(old, new) = Survivors(old, new)
    BY DEF Service!Survivors, Survivors
  <1>2. Service!Recontracted(old, new) = Recontracted(old, new)
    BY <1>1 DEF Service!Recontracted, Recontracted
  <1>3. Service!Superseded(old, new, st, live) = Superseded(old, new, st, live)
    BY <1>2 DEF Service!Superseded, Superseded
  <1>4. Service!Carried(old, new, st) = Carried(old, new, st)
    BY <1>1 DEF Service!Carried, Carried
  <1>5. Service!ChangedContracts(old, new) = ChangedContracts(old, new)
    BY <1>1 DEF Service!ChangedContracts, ChangedContracts, Service!Changed, Changed,
                Service!Definition, Definition
  <1>6. Service!Seeds(old, new, st, live) = Seeds(old, new, st, live)
    BY <1>2, <1>3, <1>4, <1>5 DEF Service!Seeds, Seeds
  <1>7. Service!Reopened(old, new, st, live) = Reopened(old, new, st, live)
    BY <1>1, <1>4, <1>6 DEF Service!Reopened, Reopened
  <1>8. Service!RevisedStatus(old, new, st, live) = RevisedStatus(old, new, st, live)
    BY <1>1, <1>3, <1>7
       DEF Service!RevisedStatus, RevisedStatus, Service!Absent, Absent
  <1>9. Service!Evictions(old, new, leased, evictor) <=> Evictions(old, new, leased, evictor)
    BY SameFiles DEF Service!Evictions, Evictions, Service!FilesChanged, FilesChanged
  <1> QED
    BY <1>3, <1>8, <1>9

-----------------------------------------------------------------------------
(* The plan that a state stands for *)

LEMMA MapsPlan ==
  ASSUME TypeOK
  PROVE  /\ AbstractPlan.graph = graph /\ AbstractPlan.status = status
         /\ AbstractPlan.baseline = baseline
         /\ \A d \in Deliverable :
              /\ AbstractPlan.claim[d] = "none" <=> lease[d] = NoLease
              /\ AbstractPlan.claim[d] = "stale" <=> lease[d] # NoLease /\ lease[d].left < 0
              /\ AbstractPlan.claim[d] = "live" <=> lease[d] # NoLease /\ lease[d].left >= 0
         /\ Service!Claimed(AbstractPlan) = Leased
  <1>1. \A d \in Deliverable : lease[d] # NoLease => lease[d].left \in Int
    BY LeasesAssumption DEF TypeOK, Lease
  <1> QED
    BY <1>1 DEF AbstractPlan, Service!Claimed, Leased

(* What the leases of ls claim. *)
ClaimsOf(ls) ==
  [d \in Deliverable |-> IF ls[d] = NoLease THEN "none"
                         ELSE IF ls[d].left >= 0 THEN "live" ELSE "stale"]

PlanRecord(g, s, c, b) == [graph |-> g, status |-> s, claim |-> c, baseline |-> b]

(* The plan is determined by four of the variables, and so is the next. *)
LEMMA ThisPlan == AbstractPlan = PlanRecord(graph, status, ClaimsOf(lease), baseline)
  BY DEF AbstractPlan, ClaimsOf, PlanRecord

LEMMA NextPlan ==
  AbstractPlan' = PlanRecord(graph', status', ClaimsOf(lease'), baseline')
  BY DEF AbstractPlan, ClaimsOf, PlanRecord

(* A plan with one or two fields replaced. *)
WithBaseline(p) == [p EXCEPT !.baseline = TRUE]
WithStatusBaseline(p, x, z) == [p EXCEPT !.status = x, !.baseline = z]
WithStatusClaim(p, x, y) == [p EXCEPT !.status = x, !.claim = y]

LEMMA BaselineReplaced ==
  ASSUME NEW g, NEW s, NEW c, NEW b
  PROVE  WithBaseline(PlanRecord(g, s, c, b)) = PlanRecord(g, s, c, TRUE)
  <1>1. \A p, y : p = [graph |-> g, status |-> s, claim |-> c, baseline |-> b] =>
                   [p EXCEPT !.baseline = y] = [graph |-> g, status |-> s, claim |-> c, baseline |-> y]
    OBVIOUS
  <1> QED
    BY <1>1 DEF WithBaseline, PlanRecord

LEMMA StatusClaimReplaced ==
  ASSUME NEW g, NEW s, NEW c, NEW b, NEW x, NEW y
  PROVE  WithStatusClaim(PlanRecord(g, s, c, b), x, y) = PlanRecord(g, x, y, b)
  <1> DEFINE p == PlanRecord(g, s, c, b)
             q == [p EXCEPT !.status = x]
  <1>1. q = PlanRecord(g, x, c, b)
    BY DEF PlanRecord
  <1>2. WithStatusClaim(p, x, y) = [q EXCEPT !.claim = y]
    BY DEF WithStatusClaim
  <1> HIDE DEF q
  <1>3. [q EXCEPT !.claim = y] = PlanRecord(g, x, y, b)
    BY <1>1 DEF PlanRecord
  <1> QED
    BY <1>2, <1>3

LEMMA StatusBaselineReplaced ==
  ASSUME NEW g, NEW s, NEW c, NEW b, NEW x, NEW z
  PROVE  WithStatusBaseline(PlanRecord(g, s, c, b), x, z) = PlanRecord(g, x, c, z)
  <1> DEFINE p == PlanRecord(g, s, c, b)
             q == [p EXCEPT !.status = x]
  <1>1. q = PlanRecord(g, x, c, b)
    BY DEF PlanRecord
  <1>2. WithStatusBaseline(p, x, z) = [q EXCEPT !.baseline = z]
    BY DEF WithStatusBaseline
  <1> HIDE DEF q
  <1>3. [q EXCEPT !.baseline = z] = PlanRecord(g, x, c, z)
    BY <1>1 DEF PlanRecord
  <1> QED
    BY <1>2, <1>3

WithRevision(p, w, x, y) == [p EXCEPT !.graph = w, !.status = x, !.claim = y]

LEMMA RevisionReplaced ==
  ASSUME NEW g, NEW s, NEW c, NEW b, NEW w, NEW x, NEW y
  PROVE  WithRevision(PlanRecord(g, s, c, b), w, x, y) = PlanRecord(w, x, y, b)
  <1> DEFINE p == PlanRecord(g, s, c, b)
             q == [p EXCEPT !.graph = w]
             r == [q EXCEPT !.status = x]
  <1>1. q = PlanRecord(w, s, c, b)
    BY DEF PlanRecord
  <1>2. WithRevision(p, w, x, y) = [r EXCEPT !.claim = y]
    BY DEF WithRevision
  <1> HIDE DEF q
  <1>3. r = PlanRecord(w, x, c, b)
    BY <1>1 DEF PlanRecord
  <1> HIDE DEF r
  <1>4. [r EXCEPT !.claim = y] = PlanRecord(w, x, y, b)
    BY <1>3 DEF PlanRecord
  <1> QED
    BY <1>2, <1>4

(* Reaping leases that have expired, and those only, is a reaping of the   *)
(* abstract plan.                                                          *)
LEMMA ReapingMaps ==
  ASSUME TypeOK, NEW lost \in SUBSET Deliverable,
         \A d \in lost : lease[d] # NoLease /\ lease[d].left < 0
  PROVE  /\ Service!Ended(AbstractPlan, lost) \in Service!Reaps(AbstractPlan)
         /\ Service!Ended(AbstractPlan, lost) =
              PlanRecord(graph, Rederived(graph, status, lost),
                         ClaimsOf(Without(lost)), baseline)
  <1>1. lost \subseteq Service!Stale(AbstractPlan)
    BY MapsPlan DEF Service!Stale
  <1>2. ClaimsOf(Without(lost)) =
          [d \in Deliverable |-> IF d \in lost THEN "none" ELSE ClaimsOf(lease)[d]]
    BY DEF ClaimsOf, Without
  <1> DEFINE st == Rederived(graph, status, lost)
             cl == [d \in Deliverable |-> IF d \in lost THEN "none" ELSE ClaimsOf(lease)[d]]
  <1>3. Service!Ended(AbstractPlan, lost) = WithStatusClaim(AbstractPlan, st, cl)
    BY ThisPlan, SameStatuses DEF Service!Ended, WithStatusClaim, PlanRecord
  <1>4. Service!Ended(AbstractPlan, lost) =
          PlanRecord(graph, st, ClaimsOf(Without(lost)), baseline)
    <2> HIDE DEF st, cl
    <2>1. WithStatusClaim(AbstractPlan, st, cl) = PlanRecord(graph, st, cl, baseline)
      BY ThisPlan, StatusClaimReplaced
    <2> QED
      BY <1>2, <1>3, <2>1 DEF cl
  <1> QED
    BY <1>1, <1>4 DEF Service!Reaps

(* The leases that a call finds expired have expired. *)
LEMMA LapsedStale ==
  ASSUME TypeOK, NEW age \in Ages
  PROVE  /\ Lapsed(age) \in SUBSET Deliverable
         /\ \A d \in Lapsed(age) : lease[d] # NoLease /\ lease[d].left < 0
  BY LeasesAssumption DEF Lapsed, Leased, TypeOK, Lease, Ages

-----------------------------------------------------------------------------
(* The operations *)

LEMMA AcquireMaps ==
  ASSUME TypeOK, graph \in ValidGraphs, NEW w \in Caller, NEW scope, NEW n,
         NEW ttl \in Ttls, NEW age \in Ages, AcquireCohort(w, scope, n, ttl, age)
  PROVE  AbstractPlan' \in Service!Acquired(AbstractPlan)
  <1> DEFINE reaped   == ReapedStatus(age)
             held     == Without(Lapsed(age))
             Held     == {d \in Deliverable : held[d] # NoLease}
             lapsed   == Bump(lapses, Lapsed(age), MaxLapses)
             poisoned == {d \in graph.ids :
                            reaped[d] = "ready" /\ failures[d] >= MaxAttempts}
             broken   == [d \in Deliverable |->
                            IF d \in poisoned THEN "failed" ELSE reaped[d]]
             ready    == {d \in scope : /\ ~ graph.manual[d]
                                        /\ Reacquirable(graph, broken, d)
                                        /\ held[d] = NoLease
                                        /\ lapsed[d] < MaxLapses}
             granted  == [holder |-> w, left |-> ttl - age]
             claim    == IF ttl - age >= 0 THEN "live" ELSE "stale"
             r        == Service!Ended(AbstractPlan, Lapsed(age))
             t        == PlanRecord(graph, broken, ClaimsOf(held), baseline)
  <1>1. PICK cohort \in SUBSET ready :
          /\ GreedyCohort(graph, ready, Held, n, cohort)
          /\ IF cohort = {} THEN UNCHANGED baseline ELSE EnsureExecutionBaseline
          /\ Save([d \in Deliverable |->
                     IF d \in cohort THEN "in_progress" ELSE broken[d]],
                  [d \in Deliverable |-> IF d \in cohort THEN granted ELSE held[d]],
                  lockless \ cohort)
    BY DEF AcquireCohort
  <1>2. /\ scope \subseteq graph.ids /\ graph.ids \subseteq Deliverable
        /\ graph' = graph /\ graph \in Graph /\ Injective(graph.prio, graph.ids)
    BY LeasesAssumption DEF AcquireCohort, ValidGraphs, ValidateGraph, Graph
  <1>3. granted # NoLease /\ granted.left = ttl - age
    <2>1. ttl - age \in Int
      BY LeasesAssumption DEF Ttls, Ages
    <2> QED
      BY <2>1, LeasesAssumption
  <1>4. /\ r \in Service!Reaps(AbstractPlan)
        /\ r = PlanRecord(graph, reaped, ClaimsOf(held), baseline)
    BY LapsedStale, ReapingMaps DEF ReapedStatus
  <1>5. t \in Service!Trips(r)
    <2>1. poisoned \in SUBSET {d \in r.graph.ids : r.status[d] = "ready"}
      BY <1>4 DEF PlanRecord
    <2>2. broken = [d \in Deliverable |-> IF d \in poisoned THEN "failed" ELSE r.status[d]]
      BY <1>4 DEF PlanRecord
    <2>3. [r EXCEPT !.status = broken] = t
      <3> HIDE DEF r, broken, held, reaped
      <3> QED
        BY <1>4 DEF PlanRecord
    <2>4. t = [r EXCEPT !.status = [d \in Deliverable |->
                                     IF d \in poisoned THEN "failed" ELSE r.status[d]]]
      <3> HIDE DEF r, t, broken, poisoned
      <3> QED
        BY <2>2, <2>3
    <2> HIDE DEF r, poisoned, t
    <2> QED
      BY <2>1, <2>4 DEF Service!Trips
  <1>6. Service!Claimed(t) = Held
    BY DEF Service!Claimed, ClaimsOf, PlanRecord
  <1>7. cohort \in Service!Cohorts(t)
    <2>1. /\ \A d, e \in cohort : d # e => ~ FilesClash(graph, d, e)
          /\ \A d \in cohort, e \in Held : ~ FilesClash(graph, d, e)
      BY <1>1, <1>2, CohortDisjoint
    <2>2. \A d \in cohort :
            /\ d \in t.graph.ids \ Service!Claimed(t) /\ ~ t.graph.manual[d]
            /\ Service!Reacquirable(t.graph, t.status, d)
      BY <1>1, <1>2, <1>6, SameStatuses DEF PlanRecord
    <2>3. \A d \in cohort : \A e \in Service!Claimed(t) \cup (cohort \ {d}) :
            ~ Service!FilesClash(t.graph, d, e)
      BY <1>6, <2>1, SameFiles DEF PlanRecord
    <2> QED
      BY <2>2, <2>3 DEF Service!Cohorts
  <1>8. cohort = {} \/ Service!MayExecute(AbstractPlan)
    BY <1>1 DEF Service!MayExecute, EnsureExecutionBaseline, AbstractPlan
  <1>9. AbstractPlan' = Service!Grant(t, cohort, claim)
    <2>1. CASE cohort = {}
      <3>1. status' = broken /\ lease' = held /\ baseline' = baseline
        BY <1>1, <2>1 DEF Save, Without
      <3> QED
        BY <1>2, <2>1, <3>1, NextPlan DEF Service!Grant, PlanRecord
    <2>2. CASE cohort # {}
      <3>1. ClaimsOf(lease') =
              [d \in Deliverable |-> IF d \in cohort THEN claim ELSE ClaimsOf(held)[d]]
        BY <1>1, <1>3 DEF Save, ClaimsOf
      <3>2. /\ baseline' = TRUE
            /\ status' = [d \in Deliverable |->
                            IF d \in cohort THEN "in_progress" ELSE broken[d]]
        BY <1>1, <2>2 DEF Save, EnsureExecutionBaseline
      <3> HIDE DEF broken, held, claim
      <3> QED
        BY <1>2, <2>2, <3>1, <3>2, NextPlan DEF Service!Grant, PlanRecord
    <2> QED
      BY <2>1, <2>2
  <1> HIDE DEF r, t, claim
  <1>10. claim \in {"live", "stale"}
    BY DEF claim
  <1> QED
    BY <1>4, <1>5, <1>7, <1>8, <1>9, <1>10 DEF Service!Acquired

LEMMA HeartbeatMaps ==
  ASSUME TypeOK, NEW w \in Caller, NEW d \in Deliverable, NEW age \in Ages,
         \/ \E ttl \in Ttls : HeartbeatExplicit(w, d, ttl, age)
         \/ HeartbeatDefault(w, d, age)
  PROVE  /\ graph' = graph
         /\ AbstractPlan' \in Service!Renewed(AbstractPlan)
  <1>1. PICK left \in Int : Heartbeat(w, d, left)
    <2>1. CASE \E ttl \in Ttls : HeartbeatExplicit(w, d, ttl, age)
      BY <2>1, LeasesAssumption DEF HeartbeatExplicit, Ttls, Ages
    <2>2. CASE HeartbeatDefault(w, d, age)
      <3>1. lease[d].left \in Int /\ DefaultTtl - age \in Int
        BY <2>2, LeasesAssumption DEF HeartbeatDefault, Leased, TypeOK, Lease, Ages
      <3> QED
        BY <2>2, <3>1 DEF HeartbeatDefault
    <2> QED
      BY <2>1, <2>2
  <1>2. lease[d] \in Lease /\ lease[d] # NoLease
    BY <1>1 DEF Heartbeat, Leased, TypeOK
  <1>3. [lease[d] EXCEPT !.left = left] \in [holder : Caller, left : Int]
    BY <1>2 DEF Lease
  <1> DEFINE claim == IF left >= 0 THEN "live" ELSE "stale"
             claims == [ClaimsOf(lease) EXCEPT ![d] = claim]
  <1>4. ClaimsOf(lease') = claims
    <2>1. /\ lease'[d].left = left /\ lease'[d] # NoLease
          /\ \A e \in Deliverable : e # d => lease'[e] = lease[e]
      BY <1>1, <1>2, <1>3, LeasesAssumption DEF Heartbeat, TypeOK, Lease
    <2> QED
      BY <2>1 DEF ClaimsOf
  <1>5. graph' = graph /\ status' = status /\ baseline' = baseline
    BY <1>1 DEF Heartbeat
  <1>6. [AbstractPlan EXCEPT !.claim[d] = claim] = AbstractPlan'
    <2>1. [AbstractPlan EXCEPT !.claim[d] = claim]
            = [AbstractPlan EXCEPT !.claim = claims]
      BY ThisPlan DEF PlanRecord
    <2> HIDE DEF claims
    <2> QED
      BY <1>4, <1>5, <2>1, ThisPlan, NextPlan DEF PlanRecord
  <1>7. d \in Service!Claimed(AbstractPlan) /\ claim \in {"live", "stale"}
    BY <1>2, MapsPlan DEF Leased
  <1> HIDE DEF claim
  <1> QED
    BY <1>5, <1>6, <1>7 DEF Service!Renewed

(* The end of the work on d, as its holder or an operator reports it. *)
LEMMA FinishMaps ==
  ASSUME NEW d \in Deliverable, NEW st, NEW ls \in [Deliverable -> Lease \cup {NoLease}]
  PROVE  Service!Finished(PlanRecord(graph, st, ClaimsOf(ls), baseline), d) =
           PlanRecord(graph, Completed(graph, st, d), ClaimsOf(EndLease(ls, d)), baseline)
  <1> DEFINE p      == PlanRecord(graph, st, ClaimsOf(ls), baseline)
             done   == Completed(graph, st, d)
             claims == [ClaimsOf(ls) EXCEPT ![d] = "none"]
  <1>1. claims = ClaimsOf(EndLease(ls, d))
    BY DEF ClaimsOf, EndLease
  <1>2. Service!Completed(p.graph, p.status, d) = done
    BY SameStatuses DEF PlanRecord
  <1>3. Service!Finished(p, d) = WithStatusClaim(p, done, claims)
    <2> HIDE DEF done
    <2> QED
      BY <1>2 DEF Service!Finished, WithStatusClaim, PlanRecord
  <1> HIDE DEF done, claims
  <1>4. WithStatusClaim(p, done, claims) = PlanRecord(graph, done, claims, baseline)
    BY StatusClaimReplaced
  <1> QED
    BY <1>1, <1>3, <1>4 DEF done

LEMMA MarkCompleteMaps ==
  ASSUME TypeOK, NEW w, NEW d \in Deliverable, MarkComplete(w, d)
  PROVE  /\ graph' = graph
         /\ \/ AbstractPlan' \in Service!Baselined(AbstractPlan)
            \/ AbstractPlan' \in Service!MarkedComplete(AbstractPlan)
  <1>1. /\ graph' = graph /\ baseline' = TRUE /\ d \in graph.ids
        /\ baseline \/ ~ RefuseUnbaselined
        /\ "complete" \in Marks
    BY DEF MarkComplete, MayMark, EnsureExecutionBaseline
  <1>2. CASE UNCHANGED <<status, lease, lockless>>
    <2>1. WithBaseline(AbstractPlan) = AbstractPlan'
      BY <1>1, <1>2, ThisPlan, NextPlan, BaselineReplaced
    <2> QED
      BY <1>1, <2>1 DEF Service!Baselined, WithBaseline
  <1>3. CASE /\ lease[d] = NoLease =>
                  status[d] # "complete" /\ PrereqsComplete(graph, status, d)
             /\ Save(Completed(graph, status, d), EndLease(lease, d), lockless \ {d})
    <2>1. status' = Completed(graph, status, d) /\ lease' = EndLease(lease, d)
      BY <1>3 DEF Save
    <2>2. Service!Finished(AbstractPlan, d) =
            PlanRecord(graph, status', ClaimsOf(lease'), baseline)
      BY <2>1, ThisPlan, FinishMaps DEF TypeOK
    <2>3. AbstractPlan' = WithBaseline(Service!Finished(AbstractPlan, d))
      <3>1. AbstractPlan' = PlanRecord(graph, status', ClaimsOf(lease'), TRUE)
        BY <1>1, NextPlan
      <3>2. WithBaseline(PlanRecord(graph, status', ClaimsOf(lease'), baseline))
              = PlanRecord(graph, status', ClaimsOf(lease'), TRUE)
        BY BaselineReplaced
      <3>3. WithBaseline(Service!Finished(AbstractPlan, d))
              = WithBaseline(PlanRecord(graph, status', ClaimsOf(lease'), baseline))
        BY <2>2
      <3> QED
        BY <3>1, <3>2, <3>3
    <2>4. /\ d \in Service!Markable(AbstractPlan)
          /\ Service!MayExecute(AbstractPlan)
          /\ AbstractPlan.claim[d] # "none"
               \/ Service!PrereqsComplete(AbstractPlan.graph, AbstractPlan.status, d)
      BY <1>1, <1>3, MapsPlan, SameStatuses
         DEF MarkComplete, LocklessMarkAllowed, Service!Markable, Service!MayExecute
    <2> QED
      BY <1>1, <2>3, <2>4 DEF Service!MarkedComplete, WithBaseline
  <1> QED
    BY <1>2, <1>3 DEF MarkComplete

LEMMA MarkFailedMaps ==
  ASSUME TypeOK, NEW w, NEW d \in Deliverable, MarkFailed(w, d)
  PROVE  graph' = graph /\ AbstractPlan' \in Service!MarkedFailed(AbstractPlan)
  <1> DEFINE st     == [status EXCEPT ![d] = "failed"]
             claims == [ClaimsOf(lease) EXCEPT ![d] = "none"]
  <1>1. /\ graph' = graph /\ baseline' = baseline /\ d \in graph.ids
        /\ status' = st /\ lease' = EndLease(lease, d) /\ "failed" \in Marks
    BY DEF MarkFailed, MayMark, Save
  <1>2. ClaimsOf(lease') = claims
    BY <1>1 DEF ClaimsOf, EndLease, TypeOK
  <1>3. [AbstractPlan EXCEPT !.status[d] = "failed", !.claim[d] = "none"]
          = WithStatusClaim(AbstractPlan, st, claims)
    BY ThisPlan DEF WithStatusClaim, PlanRecord
  <1>4. WithStatusClaim(AbstractPlan, st, claims) = AbstractPlan'
    <2> HIDE DEF st, claims
    <2> QED
      BY <1>1, <1>2, ThisPlan, NextPlan, StatusClaimReplaced
  <1>5. d \in Service!Markable(AbstractPlan)
    BY <1>1, MapsPlan DEF MarkFailed, LocklessMarkAllowed, Service!Markable
  <1> QED
    BY <1>1, <1>3, <1>4, <1>5 DEF Service!MarkedFailed

LEMMA MarkOpenMaps ==
  ASSUME TypeOK, NEW w, NEW d \in Deliverable, NEW s \in Marks, MarkOpen(w, d, s)
  PROVE  graph' = graph /\ AbstractPlan' \in Service!MarkedOpen(AbstractPlan)
  <1> DEFINE st == [status EXCEPT ![d] = s]
             bl == IF s = "in_progress" THEN TRUE ELSE baseline
  <1>1. /\ graph' = graph /\ baseline' = bl /\ d \in graph.ids
        /\ status' = st /\ lease' = lease /\ s \in Marks \ {"complete", "failed"}
    BY DEF MarkOpen, MayMark, Save, EnsureExecutionBaseline
  <1>2. Service!MarkedAs(AbstractPlan, d, s) = WithStatusBaseline(AbstractPlan, st, bl)
    BY ThisPlan DEF Service!MarkedAs, WithStatusBaseline, PlanRecord
  <1>3. WithStatusBaseline(AbstractPlan, st, bl) = AbstractPlan'
    <2> HIDE DEF st, bl
    <2> QED
      BY <1>1, ThisPlan, NextPlan, StatusBaselineReplaced
  <1>4. /\ d \in Service!Markable(AbstractPlan)
        /\ s = "in_progress" => Service!MayExecute(AbstractPlan)
        /\ (AbstractPlan.claim[d] = "none" /\ s \in {"ready", "in_progress"})
             => Service!PrereqsComplete(AbstractPlan.graph, AbstractPlan.status, d)
    BY <1>1, MapsPlan, SameStatuses
       DEF MarkOpen, LocklessMarkAllowed, EnsureExecutionBaseline, Service!Markable,
           Service!MayExecute
  <1> DEFINE may == {e \in Service!Markable(AbstractPlan) :
                       /\ s = "in_progress" => Service!MayExecute(AbstractPlan)
                       /\ (AbstractPlan.claim[e] = "none" /\ s \in {"ready", "in_progress"})
                            => Service!PrereqsComplete(AbstractPlan.graph,
                                                       AbstractPlan.status, e)}
  <1>5. d \in may
    BY <1>4
  <1>6. {Service!MarkedAs(AbstractPlan, e, s) : e \in may} \subseteq
          Service!MarkedOpen(AbstractPlan)
    BY <1>1 DEF Service!MarkedOpen
  <1> HIDE DEF may
  <1> QED
    BY <1>1, <1>2, <1>3, <1>5, <1>6

LEMMA AcceptMaps ==
  ASSUME TypeOK, NEW d \in Deliverable, NEW override, NEW age \in Ages,
         Accept(d, override, age)
  PROVE  graph' = graph /\ AbstractPlan' \in Service!Accepted(AbstractPlan)
  <1> DEFINE reaped == ReapedStatus(age)
             held   == Without(Lapsed(age))
             q      == Service!Ended(AbstractPlan, Lapsed(age))
             may    == {e \in q.graph.ids :
                          /\ q.status[e] # "complete"
                          /\ Service!PrereqsComplete(q.graph, q.status, e)}
  <1>1. /\ q \in Service!Reaps(AbstractPlan)
        /\ q = PlanRecord(graph, reaped, ClaimsOf(held), baseline)
    BY LapsedStale, ReapingMaps DEF ReapedStatus
  <1>2. graph' = graph /\ baseline' = baseline /\ d \in graph.ids
    BY DEF Accept
  <1>3. CASE Save(reaped, held, lockless)
    <2>1. AbstractPlan' = q
      BY <1>1, <1>2, <1>3, NextPlan DEF Save
    <2> HIDE DEF q
    <2> QED
      BY <1>1, <1>2, <2>1 DEF Service!Accepted
  <1>4. CASE /\ reaped[d] # "complete"
             /\ PrereqsComplete(graph, reaped, d)
             /\ Save(Completed(graph, reaped, d), EndLease(held, d), lockless)
    <2>1. held \in [Deliverable -> Lease \cup {NoLease}]
      BY WithoutType
    <2>2. AbstractPlan' = Service!Finished(q, d)
      BY <1>1, <1>2, <1>4, <2>1, NextPlan, FinishMaps DEF Save
    <2>3. d \in may
      BY <1>1, <1>2, <1>4, SameStatuses DEF PlanRecord
    <2> HIDE DEF q
    <2> QED
      BY <1>1, <1>2, <2>2, <2>3 DEF Service!Accepted
  <1> QED
    BY <1>3, <1>4 DEF Accept

LEMMA ForceReleaseMaps ==
  ASSUME TypeOK, NEW d \in Deliverable, NEW reset, ForceRelease(d, reset)
  PROVE  /\ graph' = graph
         /\ AbstractPlan' \in Service!Released(AbstractPlan) \/ AbstractPlan' = AbstractPlan
  <1>1. graph' = graph /\ baseline' = baseline /\ d \in graph.ids
        /\ lease' = EndLease(lease, d)
    BY DEF ForceRelease, Save
  <1>2. CASE d \in Leased
    <2> DEFINE st     == [status EXCEPT ![d] = "ready"]
               claims == [ClaimsOf(lease) EXCEPT ![d] = "none"]
    <2>1. status' = st
      BY <1>2 DEF ForceRelease, Save, TypeOK
    <2>2. ClaimsOf(lease') = claims
      BY <1>1 DEF ClaimsOf, EndLease, TypeOK
    <2>3. [AbstractPlan EXCEPT !.status[d] = "ready", !.claim[d] = "none"]
            = WithStatusClaim(AbstractPlan, st, claims)
      BY ThisPlan DEF WithStatusClaim, PlanRecord
    <2>4. WithStatusClaim(AbstractPlan, st, claims) = AbstractPlan'
      <3> HIDE DEF st, claims
      <3> QED
        BY <1>1, <2>1, <2>2, ThisPlan, NextPlan, StatusClaimReplaced
    <2> QED
      BY <1>1, <1>2, <2>3, <2>4, MapsPlan DEF Service!Released
  <1>3. CASE d \notin Leased /\ reset /\ status[d] = "failed"
    <2>1. status' = Rederived(graph, status, {d}) /\ lease' = lease
      BY <1>1, <1>3 DEF ForceRelease, Save, EndLease, Leased, TypeOK
    <2> DEFINE cl == [e \in Deliverable |-> IF e \in {d} THEN "none" ELSE ClaimsOf(lease)[e]]
    <2>2. cl = ClaimsOf(lease)
      BY <1>3 DEF ClaimsOf, Leased
    <2>3. Service!Ended(AbstractPlan, {d}) = WithStatusClaim(AbstractPlan, status', cl)
      BY <2>1, ThisPlan, SameStatuses DEF Service!Ended, WithStatusClaim, PlanRecord
    <2>4. Service!Ended(AbstractPlan, {d}) = AbstractPlan'
      <3> HIDE DEF cl
      <3> QED
        BY <1>1, <2>1, <2>2, <2>3, ThisPlan, NextPlan, StatusClaimReplaced
    <2> QED
      BY <1>1, <1>3, <2>4, MapsPlan DEF Service!Released
  <1>4. CASE d \notin Leased /\ ~ (reset /\ status[d] = "failed")
    <2>1. status' = status /\ lease' = lease
      BY <1>1, <1>4 DEF ForceRelease, Save, EndLease, Leased, TypeOK
    <2> QED
      BY <1>1, <2>1, ThisPlan, NextPlan
  <1> QED
    BY <1>2, <1>3, <1>4

LEMMA SweepMaps ==
  ASSUME TypeOK, NoOrphans, NEW age \in Ages, Sweep(age)
  PROVE  graph' = graph /\ AbstractPlan' \in Service!Reaps(AbstractPlan)
  <1>1. Lapsed(age) \cup Orphans = Lapsed(age)
    BY DEF NoOrphans
  <1>2. /\ graph' = graph /\ baseline' = baseline
        /\ status' = Rederived(graph, status, Lapsed(age))
        /\ lease' = Without(Lapsed(age))
    BY <1>1 DEF Sweep, Save
  <1> QED
    BY <1>2, LapsedStale, ReapingMaps, NextPlan

(* The clock expires the leases that had no time left. *)
LEMMA TickMaps ==
  ASSUME TypeOK, Tick
  PROVE  graph' = graph /\ AbstractPlan' \in Service!Expired(AbstractPlan)
  <1> DEFINE D  == {d \in Leased : lease[d].left = 0}
             cl == [d \in Deliverable |-> IF d \in D THEN "stale" ELSE AbstractPlan.claim[d]]
  <1>1. graph' = graph /\ status' = status /\ baseline' = baseline
    BY DEF Tick
  <1>2. D \in SUBSET Service!LiveIn(AbstractPlan)
    BY MapsPlan DEF Leased, Service!LiveIn
  <1>3. ASSUME NEW d \in Deliverable
        PROVE  ClaimsOf(lease')[d] = cl[d]
    <2>1. CASE lease[d] = NoLease
      BY <2>1, MapsPlan DEF Tick, ClaimsOf, Leased
    <2>2. CASE lease[d] # NoLease
      <3>1. lease[d] \in Lease /\ lease[d].left \in Int
        BY <2>2, LeasesAssumption DEF TypeOK, Lease
      <3>2. CASE lease[d].left = -1 - MaxAge
        BY <2>2, <3>1, <3>2, MapsPlan, LeasesAssumption DEF Tick, ClaimsOf, Leased
      <3>3. CASE lease[d].left # -1 - MaxAge
        <4>1. lease'[d] = [lease[d] EXCEPT !.left = @ - 1]
          BY <2>2, <3>3 DEF Tick
        <4>2. lease'[d].left = lease[d].left - 1 /\ lease'[d] \in [holder : Caller, left : Int]
          BY <3>1, <4>1 DEF Lease
        <4>3. lease'[d] # NoLease
          BY <4>2, LeasesAssumption
        <4> QED
          BY <2>2, <3>1, <4>2, <4>3, MapsPlan DEF ClaimsOf, Leased
      <3> QED
        BY <3>2, <3>3
    <2> QED
      BY <2>1, <2>2
  <1>4. ClaimsOf(lease') = cl
    BY <1>3 DEF ClaimsOf
  <1>5. [AbstractPlan EXCEPT !.claim = cl] = AbstractPlan'
    <2> HIDE DEF cl
    <2> QED
      BY <1>1, <1>4, ThisPlan, NextPlan DEF PlanRecord
  <1> QED
    BY <1>1, <1>2, <1>5 DEF Service!Expired

(* A revision sees the plan as it is once its expired leases are reaped. *)
LEMMA ReviseMaps ==
  ASSUME TypeOK, NEW new, NEW force, NEW age \in Ages, Revise(new, force, age)
  PROVE  /\ graph' = new /\ new \in ValidGraphs /\ ~ SameGraph(graph, new)
         /\ AbstractPlan' \in Service!Revised(AbstractPlan, new)
  <1> DEFINE reaped  == ReapedStatus(age)
             held    == Without(Lapsed(age))
             live    == Leased \ Lapsed(age)
             carried == (live \cap new.ids) \ Superseded(graph, new, reaped, live)
             revised == RevisedStatus(graph, new, reaped, live)
             q       == Service!Ended(AbstractPlan, Lapsed(age))
  <1>1. PICK evictor \in [carried -> carried \cup {NoBarrier}] :
          /\ Evictions(graph, new, carried, evictor)
          /\ Save(Rederived(new, revised, {d \in carried : evictor[d] # NoBarrier}),
                  Without(Deliverable \ (carried \ {d \in carried : evictor[d] # NoBarrier})),
                  lockless \cap new.ids)
    BY DEF Revise
  <1>2. graph' = new /\ new \in ValidGraphs /\ ~ SameGraph(graph, new) /\ baseline' = baseline
    BY DEF Revise
  <1>3. /\ q \in Service!Reaps(AbstractPlan)
        /\ q = PlanRecord(graph, reaped, ClaimsOf(held), baseline)
    BY LapsedStale, ReapingMaps DEF ReapedStatus
  <1>4. Service!Claimed(q) = live
    BY <1>3 DEF Service!Claimed, PlanRecord, ClaimsOf, Without, Leased
  <1> DEFINE kept  == {d \in carried : evictor[d] = NoBarrier}
             st    == Rederived(new, revised, carried \ kept)
             cl    == [d \in Deliverable |-> IF d \in kept THEN q.claim[d] ELSE "none"]
  <1>5. status' = st
    <2>1. {d \in carried : evictor[d] # NoBarrier} = carried \ kept
      OBVIOUS
    <2> QED
      BY <1>1, <2>1 DEF Save
  <1>6. ClaimsOf(lease') = cl
    BY <1>1, <1>3 DEF Save, ClaimsOf, PlanRecord, Without
  <1>7. WithRevision(q, new, st, cl) = AbstractPlan'
    <2> HIDE DEF st, cl, q
    <2> QED
      BY <1>2, <1>3, <1>5, <1>6, NextPlan, RevisionReplaced
  <1> DEFINE leased    == Service!Claimed(q)
             Carried0  == (leased \cap new.ids)
                            \ Service!Superseded(q.graph, new, q.status, leased)
             Revised0  == Service!RevisedStatus(q.graph, new, q.status, leased)
             Keep(k)   == [q EXCEPT !.graph  = new,
                                    !.status = Service!Rederived(new, Revised0, Carried0 \ k),
                                    !.claim  = [d \in Deliverable |->
                                                  IF d \in k THEN q.claim[d] ELSE "none"]]
  <1>8. Carried0 = carried /\ Revised0 = revised
    BY <1>3, <1>4, SameRevision DEF PlanRecord
  <1>9. Keep({d \in Carried0 : evictor[d] = NoBarrier}) = AbstractPlan'
    <2>1. {d \in Carried0 : evictor[d] = NoBarrier} = kept
      BY <1>8
    <2>2. Service!Rederived(new, Revised0, Carried0 \ kept) = st
      BY <1>8, SameStatuses
    <2>3. Keep(kept) = WithRevision(q, new, st, cl)
      <3> HIDE DEF q, Revised0, Carried0, st, kept
      <3> QED
        BY <2>2 DEF WithRevision
    <2> HIDE DEF Keep, Carried0, kept
    <2> QED
      BY <1>7, <2>1, <2>3
  <1>10. evictor \in {e \in [Carried0 -> Carried0 \cup {NoBarrier}] :
                        Service!Evictions(q.graph, new, Carried0, e)}
    <2>1. Service!Evictions(q.graph, new, carried, evictor)
      BY <1>1, <1>3, SameRevision DEF PlanRecord
    <2> HIDE DEF carried, Carried0, q
    <2> QED
      BY <1>8, <2>1
  <1> DEFINE From(r) ==
               LET leasedIn  == Service!Claimed(r)
                   carriedIn == (leasedIn \cap new.ids)
                                  \ Service!Superseded(r.graph, new, r.status, leasedIn)
                   revisedIn == Service!RevisedStatus(r.graph, new, r.status, leasedIn)
                   KeepIn(k) ==
                     [r EXCEPT !.graph  = new,
                               !.status = Service!Rederived(new, revisedIn, carriedIn \ k),
                               !.claim  = [d \in Deliverable |->
                                             IF d \in k THEN r.claim[d] ELSE "none"]]
               IN  {KeepIn({d \in carriedIn : ev[d] = NoBarrier}) :
                      ev \in {e \in [carriedIn -> carriedIn \cup {NoBarrier}] :
                                Service!Evictions(r.graph, new, carriedIn, e)}}
  <1>11. Service!Revised(AbstractPlan, new) =
           UNION {From(r) : r \in Service!Reaps(AbstractPlan)}
    BY DEF Service!Revised
  <1>12. From(q) = {Keep({d \in Carried0 : ev[d] = NoBarrier}) :
                      ev \in {e \in [Carried0 -> Carried0 \cup {NoBarrier}] :
                                Service!Evictions(q.graph, new, Carried0, e)}}
    <2> HIDE DEF q
    <2> QED
      OBVIOUS
  <1> HIDE DEF Keep, Carried0, q, From
  <1>13. AbstractPlan' \in From(q)
    BY <1>9, <1>10, <1>12
  <1>14. AbstractPlan' \in Service!Revised(AbstractPlan, new)
    BY <1>3, <1>11, <1>13
  <1> QED
    BY <1>2, <1>14

-----------------------------------------------------------------------------
(* The refinement *)

LEMMA InitMaps ==
  ASSUME Init
  PROVE  Service!Init
  <1>1. graph \in Service!ValidGraphs
    BY SameGraphs DEF Init
  <1>2. AbstractPlan = Service!NewPlan(graph)
    <2>1. AbstractPlan.claim = [d \in Deliverable |-> "none"]
      BY DEF Init, AbstractPlan
    <2>2. status = Service!InitialStatus(graph) /\ baseline = FALSE
      BY SameStatuses DEF Init
    <2>3. AbstractPlan = PlanRecord(graph, status, AbstractPlan.claim, baseline)
      BY DEF AbstractPlan, PlanRecord
    <2> QED
      BY <2>1, <2>2, <2>3 DEF Service!NewPlan, PlanRecord
  <1> QED
    BY <1>1, <1>2 DEF Service!Init

(* Every step is one result of one operation of the service, or a step     *)
(* that the service does not see: a release that finds nothing to do.      *)
LEMMA StepMaps ==
  ASSUME TypeOK, graph \in ValidGraphs, NoOrphans, [Next]_vars
  PROVE  [Service!Next]_AbstractPlan
  <1>0. AbstractPlan.graph = graph /\ AbstractPlan'.graph = graph'
    BY ThisPlan, NextPlan DEF PlanRecord
  <1>1. CASE UNCHANGED vars
    BY <1>1, ThisPlan, NextPlan DEF vars
  <1>2. ASSUME NEW w \in Caller, CallerStep(w)
        PROVE  Service!Next
    <2>1. ASSUME NEW scope, NEW n, NEW ttl \in Ttls, NEW age \in Ages,
                 AcquireCohort(w, scope, n, ttl, age)
          PROVE  Service!Next
      <3>1. graph' = graph
        BY <2>1 DEF AcquireCohort
      <3> QED
        BY <1>0, <2>1, <3>1, AcquireMaps DEF Service!Next
    <2>2. ASSUME NEW d \in Deliverable, MarkComplete(w, d)
          PROVE  Service!Next
      BY <1>0, <2>2, MarkCompleteMaps DEF Service!Next
    <2>3. ASSUME NEW d \in Deliverable, MarkFailed(w, d)
          PROVE  Service!Next
      BY <1>0, <2>3, MarkFailedMaps DEF Service!Next
    <2>4. ASSUME NEW d \in Deliverable, NEW s \in Marks, MarkOpen(w, d, s)
          PROVE  Service!Next
      BY <1>0, <2>4, MarkOpenMaps DEF Service!Next
    <2>5. ASSUME NEW d \in Deliverable, NEW age \in Ages,
                 \/ \E ttl \in Ttls : HeartbeatExplicit(w, d, ttl, age)
                 \/ HeartbeatDefault(w, d, age)
          PROVE  Service!Next
      BY <1>0, <2>5, HeartbeatMaps DEF Service!Next
    <2> QED
      BY <1>2, <2>1, <2>2, <2>3, <2>4, <2>5 DEF CallerStep
  <1>3. CASE OperatorStep
    <2>1. ASSUME NEW d \in Deliverable, NEW override \in BOOLEAN, NEW age \in Ages,
                 Accept(d, override, age)
          PROVE  Service!Next
      BY <1>0, <2>1, AcceptMaps DEF Service!Next
    <2>2. ASSUME NEW d \in Deliverable, NEW reset \in BOOLEAN, ForceRelease(d, reset)
          PROVE  Service!Next \/ AbstractPlan' = AbstractPlan
      BY <1>0, <2>2, ForceReleaseMaps DEF Service!Next
    <2>3. ASSUME NEW new \in Graphs, NEW force \in BOOLEAN, NEW age \in Ages,
                 Revise(new, force, age)
          PROVE  Service!Next
      <3>1. /\ graph' = new /\ new \in Service!ValidGraphs /\ ~ Service!SameGraph(graph, new)
            /\ AbstractPlan' \in Service!Revised(AbstractPlan, new)
        BY <2>3, ReviseMaps, SameGraphs
      <3> QED
        BY <1>0, <3>1 DEF Service!Next
    <2>4. ASSUME NEW age \in Ages, Sweep(age)
          PROVE  Service!Next
      BY <1>0, <2>4, SweepMaps DEF Service!Next
    <2>5. CASE TakeBaseline
      <3>1. /\ graph' = graph /\ status' = status /\ lease' = lease
            /\ baseline' = TRUE
        BY <2>5 DEF TakeBaseline
      <3>2. AbstractPlan' = PlanRecord(graph, status, ClaimsOf(lease), TRUE)
        BY <3>1, NextPlan
      <3>3. AbstractPlan' = WithBaseline(AbstractPlan)
        BY <3>2, ThisPlan, BaselineReplaced
      <3> QED
        BY <1>0, <3>1, <3>3 DEF Service!Next, Service!Baselined, WithBaseline
    <2> QED
      BY <1>3, <2>1, <2>2, <2>3, <2>4, <2>5 DEF OperatorStep
  <1>4. CASE Tick
    BY <1>0, <1>4, TickMaps DEF Service!Next
  <1> QED
    BY <1>1, <1>2, <1>3, <1>4 DEF Next

(* The lease protocol implements the plan service: whatever callers,       *)
(* operators, the sweep and the clock do to a plan is one atomic result of *)
(* one of the service's operations, or leaves the plan as it is.           *)
THEOREM ImplementsService == Spec => Implements
  <1>1. Init => Service!Init
    BY InitMaps
  <1>2. TypeOK /\ graph \in ValidGraphs /\ NoOrphans /\ [Next]_vars
          => [Service!Next]_AbstractPlan
    BY StepMaps
  <1>3. Spec => [](TypeOK /\ graph \in ValidGraphs)
    BY TypeCorrect
  <1>4. Spec => []NoOrphans
    BY WorkHasOwner
  <1> QED
    BY <1>1, <1>2, <1>3, <1>4, PTL DEF Spec, Implements, Service!Spec

=====================================================================
