------------------------------ MODULE Leveling ------------------------------
(***************************************************************************)
(* plan.schedule (src/src/resource_schedule.rs): list scheduling of a      *)
(* valid graph against the capacities of its resource pools, the driving   *)
(* chain that explains the makespan, and the buffers.                      *)
(***************************************************************************)
EXTENDS CriticalPath

CONSTANT Unassigned     \* the pool of a deliverable that names none

(* What a deliverable claims: nothing for wall-clock time, its listed pools, or one
   unit of its owner's. *)
ResourcesOf(d) ==
    IF d.wallClock THEN [r \in {} |-> 0]
    ELSE IF d.claims # None THEN d.claims
    ELSE [r \in {IF d.owner = None THEN Unassigned ELSE d.owner} |-> 1]

(* build_nodes refuses a wall-clock window without a duration, and a claim of no pool
   or of no units. *)
BadResources(d) ==
    \/ d.wallClock /\ d.duration = None
    \/ /\ ~ d.wallClock /\ d.claims # None
       /\ DOMAIN d.claims = {} \/ \E r \in DOMAIN d.claims : d.claims[r] = 0

(* The graph as the scheduler sees it, by position. *)
Nodes(g) ==
    [i \in DOMAIN g |->
       LET deps == {j \in DOMAIN g : g[j].id \in Prerequisites(g[i])}
       IN  [id     |-> g[i].id,
            len    |-> ScheduledLength(g[i]),
            claims |-> ResourcesOf(g[i]),
            preds  |-> [j \in deps |-> g[i].pre[g[j].id].lag]]]

Capacity(caps, r) == IF r \in DOMAIN caps THEN caps[r] ELSE 0

(* check_capacities: only work that takes time needs units. *)
Missing(n, caps) ==
    UNION {{r \in DOMAIN n[i].claims : Capacity(caps, r) < n[i].claims[r]} :
              i \in {j \in DOMAIN n : n[j].len > 0}}

(* The nodes as a set of tasks, by position. *)
AsTasks(n) ==
    [ids  |-> [i \in DOMAIN n |-> i],
     len  |-> [i \in DOMAIN n |-> n[i].len],
     deps |-> [i \in DOMAIN n |-> DOMAIN n[i].preds],
     lag  |-> [i \in DOMAIN n |-> n[i].preds]]

(* The longest remaining tail of each node: its length and the heaviest successor. *)
Tails(n) == LongestFrom(AsTasks(n))

-----------------------------------------------------------------------------
(* Placing the nodes one at a time.  s has the start of each placed node, and for each
   pool the time from which each of its units is free. *)

Work(n) == {i \in DOMAIN n : n[i].len > 0}

WorkPools(n) == UNION {DOMAIN n[i].claims : i \in Work(n)}

(* The units of r that the nodes in S claim together. *)
Claimed(n, S, r) ==
    LET upTo[k \in 0 .. Len(n)] ==
          IF k = 0 THEN 0
          ELSE upTo[k - 1] + IF k \in S /\ r \in DOMAIN n[k].claims THEN n[k].claims[r] ELSE 0
    IN  upTo[Len(n)]

(* No more units than could be occupied at once. *)
Units(n, caps, r) == 1 .. Min({Capacity(caps, r), Claimed(n, Work(n), r)})

Unplaced(n, caps) ==
    [start |-> [i \in {} |-> 0],
     free  |-> [r \in WorkPools(n) |-> [u \in Units(n, caps, r) |-> 0]]]

Finish(n, s, i) == s.start[i] + n[i].len

Candidates(n, s) == {i \in DOMAIN n \ DOMAIN s.start : DOMAIN n[i].preds \subseteq DOMAIN s.start}

ReadyAt(n, s, i) == Latest({Finish(n, s, p) + n[i].preds[p] : p \in DOMAIN n[i].preds})

(* The units that are free first, k of them. *)
Soonest(free, k) ==
    CHOOSE T \in SUBSET DOMAIN free :
       Cardinality(T) = k /\ \A u \in T, v \in DOMAIN free \ T : free[u] <= free[v]

(* Where a node fits: its dependencies are done and each claimed pool has its units. *)
EarliestFeasible(n, s, i) ==
    IF n[i].len = 0 THEN ReadyAt(n, s, i)
    ELSE Max({ReadyAt(n, s, i)} \cup
             UNION {{s.free[r][u] : u \in Soonest(s.free[r], n[i].claims[r])} : r \in DOMAIN n[i].claims})

(* i goes before j: the earlier start, then what takes no time, then the longer tail,
   then the smaller id. *)
GoesBefore(n, s, tail, i, j) ==
    LET si == EarliestFeasible(n, s, i)
        sj == EarliestFeasible(n, s, j)
    IN  IF si # sj THEN si < sj
        ELSE IF (n[i].len = 0) # (n[j].len = 0) THEN n[i].len = 0
        ELSE IF tail[i] # tail[j] THEN tail[i] > tail[j]
        ELSE n[i].id < n[j].id

(* The claimed number of units, those free first, is taken until the node finishes. *)
Occupy(free, claim, finish) ==
    LET taken == Soonest(free, claim)
    IN  [u \in DOMAIN free |-> IF u \in taken THEN finish ELSE free[u]]

NextNode(n, tail, s) ==
    CHOOSE c \in Candidates(n, s) : \A d \in Candidates(n, s) : c = d \/ GoesBefore(n, s, tail, c, d)

(* Mutant of Place: only the first of the claimed pools is reserved. *)
PlaceFirstPool(n, tail, s) ==
    LET i == NextNode(n, tail, s)
        at == EarliestFeasible(n, s, i)
        taken == IF n[i].len = 0 THEN {} ELSE {CHOOSE r \in DOMAIN n[i].claims : TRUE}
    IN  [start |-> With(s.start, i, at),
         free  |-> [r \in DOMAIN s.free |->
                      IF r \in taken THEN Occupy(s.free[r], n[i].claims[r], at + n[i].len)
                      ELSE s.free[r]]]

Place(n, tail, s) ==
    LET i == NextNode(n, tail, s)
        at == EarliestFeasible(n, s, i)
        taken == IF n[i].len = 0 THEN {} ELSE DOMAIN n[i].claims
    IN  [start |-> With(s.start, i, at),
         free  |-> [r \in DOMAIN s.free |->
                      IF r \in taken THEN Occupy(s.free[r], n[i].claims[r], at + n[i].len)
                      ELSE s.free[r]]]

Placed(n, caps) ==
    LET tail == Tails(n)
        after[k \in 0 .. Len(n)] ==
          IF k = 0 THEN Unplaced(n, caps) ELSE Place(n, tail, after[k - 1])
    IN  after[Len(n)]

Makespan(n, s) == Latest({Finish(n, s, i) : i \in DOMAIN n})

-----------------------------------------------------------------------------
(* The driving chain, from the last finisher back. *)

ById(n, S) == CHOOSE i \in S : \A j \in S : n[i].id <= n[j].id

(* The predecessors whose finish and lag set the start of i. *)
DrivingDeps(n, s, i) ==
    {p \in DOMAIN n[i].preds : Finish(n, s, p) + n[i].preds[p] = s.start[i]}

(* Pools of i that were full just before it started.  The code adds the units up in a
   u32, the model without a limit. *)
Saturated(n, s, caps, i) ==
    {r \in DOMAIN n[i].claims :
       LET holders == {j \in DOMAIN n \ {i} : /\ s.start[j] < s.start[i]
                                              /\ Finish(n, s, j) >= s.start[i]}
       IN  Claimed(n, holders, r) + n[i].claims[r] > Capacity(caps, r)}

(* The work that gave a unit of such a pool back then. *)
DrivingWork(n, s, caps, i) ==
    {j \in Work(n) \ {i} : /\ Finish(n, s, j) = s.start[i]
                           /\ Saturated(n, s, caps, i) \cap DOMAIN n[j].claims # {}}

(* Mutant of Waited: a start that a dependency set is not looked up. *)
WaitedResource(n, s, caps, i) ==
    IF s.start[i] = 0 THEN [on |-> "start", next |-> i]
    ELSE IF DrivingWork(n, s, caps, i) # {}
         THEN [on |-> "resource", next |-> ById(n, DrivingWork(n, s, caps, i))]
         ELSE [on |-> "start", next |-> i]

(* What i waited on, and who that was. *)
Waited(n, s, caps, i) ==
    IF s.start[i] = 0 THEN [on |-> "start", next |-> i]
    ELSE IF DrivingDeps(n, s, i) # {}
         THEN [on |-> "dependency", next |-> ById(n, DrivingDeps(n, s, i))]
         ELSE IF DrivingWork(n, s, caps, i) # {}
              THEN [on |-> "resource", next |-> ById(n, DrivingWork(n, s, caps, i))]
              ELSE [on |-> "start", next |-> i]

(* The links in execution order; the first one waited on the start. *)
DrivingChain(n, s, caps) ==
    LET last == ById(n, {i \in DOMAIN n : Finish(n, s, i) = Makespan(n, s)})
        back[k \in 1 .. Len(n)] ==
          IF k = 1 THEN <<[node |-> last, on |-> Waited(n, s, caps, last).on]>>
          ELSE LET chain == back[k - 1]
                   head  == Head(chain)
                   next  == Waited(n, s, caps, head.node).next
               IN  IF head.on = "start" THEN chain
                   ELSE <<[node |-> next, on |-> Waited(n, s, caps, next).on]>> \o chain
    IN  IF n = <<>> THEN <<>> ELSE back[Len(n)]

-----------------------------------------------------------------------------
(* Buffers: each chain that joins the driving chain from outside. *)

(* The heaviest chain off the driving one that ends at each node: its hours and its
   nodes; equal hours go to the chain whose first id is smaller. *)
OffChain(n, chain) ==
    LET heaviest[i \in DOMAIN n] ==
          LET into == {heaviest[p] : p \in DOMAIN n[i].preds \ chain}
              best == CHOOSE h \in into :
                        \A o \in into : \/ h.sum > o.sum
                                        \/ /\ h.sum = o.sum
                                           /\ n[h.path[1]].id <= n[o.path[1]].id
          IN  IF into = {} THEN [sum |-> n[i].len, path |-> <<i>>]
              ELSE [sum |-> best.sum + n[i].len, path |-> Append(best.path, i)]
    IN  heaviest

FeedingBuffers(n, chain) ==
    LET off == OffChain(n, chain)
    IN  UNION {{[joins |-> c, from |-> off[p].path, hours |-> off[p].sum] :
                   p \in DOMAIN n[c].preds \ chain} : c \in chain}

(* Busy unit-hours of each pool. *)
Loads(n) ==
    [r \in WorkPools(n) |->
       MapThenSumSet(LAMBDA i : n[i].len * n[i].claims[r],
                     {j \in Work(n) : r \in DOMAIN n[j].claims})]

(* resource_schedule_with_cpm, of a graph whose resources and capacities are in order. *)
Schedulable(g, caps) ==
    /\ \A i \in DOMAIN g : ~ BadResources(g[i])
    /\ Missing(Nodes(g), caps) = {}

ResourceSchedule(g, caps) ==
    LET n == Nodes(g)
        s == Placed(n, caps)
        chain == DrivingChain(n, s, caps)
    IN  [nodes    |-> n,
         start    |-> s.start,
         makespan |-> Makespan(n, s),
         chain    |-> chain,
         project  |-> MapThenSumSet(LAMBDA k : n[chain[k].node].len, DOMAIN chain),
         feeding  |-> FeedingBuffers(n, {chain[k].node : k \in DOMAIN chain}),
         load     |-> Loads(n)]

=============================================================================
