---------------------------- MODULE CriticalPath ----------------------------
(***************************************************************************)
(* The critical path kernel over the tasks of a graph (src/src/algorithm.rs), *)
(* and what is read off its result: drag (src/src/drag.rs), the rows of    *)
(* the milestones (src/src/schedule.rs).  A set of tasks is the record     *)
(* Network!Tasks builds: ids in order, len, deps, lag.                     *)
(***************************************************************************)
EXTENDS Network

(* Above every latest start: f32::MAX, the start of a minimisation. *)
Unrelaxed == 1 + (MAX_DELIVERABLES + 1) * (2 * MAX_HOURS + DerivedHours)

Members(t) == ToSet(t.ids)
Followers(t, x) == {y \in Members(t) : x \in t.deps[y]}
Latest(S) == IF S = {} THEN 0 ELSE Max(S)

-----------------------------------------------------------------------------
(* Forward pass: Kahn's algorithm with a queue. *)

(* Mutant of Raised: the lag of the edge is forgotten. *)
RaisedNoLag(t, s, p, x) == IF s.ef[p] > s.es[x] THEN s.ef[p] ELSE s.es[x]

(* The earliest start of x once its predecessor p has been popped. *)
Raised(t, s, p, x) ==
    IF s.ef[p] + t.lag[x][p] > s.es[x] THEN s.ef[p] + t.lag[x][p] ELSE s.es[x]

(* Pop the head of the queue: its dependents start no earlier than it allows, and
   those it was the last to block join the queue, in task order. *)
Pop(t, s) ==
    LET p    == Head(s.queue)
        next == Followers(t, p)
        es   == [x \in Members(t) |-> IF x \in next THEN Raised(t, s, p, x) ELSE s.es[x]]
        left == [x \in Members(t) |-> IF x \in next THEN s.left[x] - 1 ELSE s.left[x]]
        freed == {x \in next : left[x] = 0}
    IN  [es    |-> es,
         ef    |-> [x \in Members(t) |-> IF x \in next THEN es[x] + t.len[x] ELSE s.ef[x]],
         left  |-> left,
         queue |-> Tail(s.queue) \o Kept(t.ids, freed),
         order |-> Append(s.order, p)]

ForwardPass(t) ==
    LET roots == {x \in Members(t) : t.deps[x] = {}}
        after[n \in 0 .. Len(t.ids)] ==
          IF n = 0
          THEN [es    |-> [x \in Members(t) |-> 0],
                ef    |-> [x \in Members(t) |-> IF x \in roots THEN t.len[x] ELSE 0],
                left  |-> [x \in Members(t) |-> Cardinality(t.deps[x])],
                queue |-> Kept(t.ids, roots),
                order |-> <<>>]
          ELSE LET s == after[n - 1] IN IF s.queue = <<>> THEN s ELSE Pop(t, s)
    IN  after[Len(t.ids)]

ProjectLength(t, ef) == Latest({ef[x] : x \in Members(t)})

-----------------------------------------------------------------------------
(* Backward pass: the latest finishes are lowered, in the reverse of the forward
   order, until a sweep changes nothing. *)

LatestStarts(t, s, x) ==
    {s[y] - t.lag[y][x] : y \in {z \in Followers(t, x) : s[z] < Unrelaxed}}

Relax(t, s, x) ==
    LET bound == LatestStarts(t, s, x)
    IN  IF bound = {} \/ Min(bound) >= s[x] + t.len[x] THEN s
        ELSE [s EXCEPT ![x] = Min(bound) - t.len[x]]

(* One sweep over the latest starts. *)
Sweep(t, ls, order) ==
    LET swept[n \in 0 .. Len(order)] ==
          IF n = 0 THEN ls ELSE Relax(t, swept[n - 1], order[Len(order) + 1 - n])
    IN  swept[Len(order)]

(* The sinks finish with the project; the others are not bounded yet. *)
InitialStarts(t, length) ==
    [x \in Members(t) |-> IF Followers(t, x) = {} THEN length - t.len[x] ELSE Unrelaxed]

BackwardPass(t, order, length) ==
    LET after[n \in 0 .. 2 * Len(t.ids)] ==
          IF n = 0 THEN <<InitialStarts(t, length), TRUE>>
          ELSE LET s == after[n - 1]
               IN  IF ~ s[2] THEN s
                   ELSE LET swept == Sweep(t, s[1], order) IN <<swept, swept # s[1]>>
    IN  after[2 * Len(t.ids)][1]

-----------------------------------------------------------------------------
(* The critical path: back along tight edges, by the smallest id. *)

(* Mutant of TightDeps: the lag is forgotten. *)
TightDepsNoLag(t, es, ef, x) == {p \in t.deps[x] : ef[p] = es[x]}

(* The prerequisites that set the start of x. *)
TightDeps(t, es, ef, x) == {p \in t.deps[x] : ef[p] + t.lag[x][p] = es[x]}

TraceBack(t, es, ef, end) ==
    LET back[n \in 1 .. Len(t.ids)] ==
          IF n = 1 THEN <<end>>
          ELSE LET path == back[n - 1]
                   next == TightDeps(t, es, ef, Head(path)) \ ToSet(path)
               IN  IF next = {} THEN path ELSE <<Min(next)>> \o path
    IN  back[Len(t.ids)]

(* Where the trace starts: the latest finish, then the latest start, then the
   smallest id. *)
LastTask(t, es, ef) ==
    LET last == {x \in Members(t) : ef[x] = ProjectLength(t, ef)}
    IN  Min({x \in last : \A y \in last : es[x] >= es[y]})

-----------------------------------------------------------------------------
(* The result. *)

(* Tasks grouped by earliest start, in its order. *)
Batches(t, es) ==
    [i \in 1 .. Cardinality({es[x] : x \in Members(t)}) |->
       LET starts == SetToSortSeq({es[x] : x \in Members(t)}, <)
       IN  [start |-> starts[i], tasks |-> {x \in Members(t) : es[x] = starts[i]}]]

(* Tasks and hours that wait for x, from a walk that stamps what it has visited. *)
Blocks(t, x) ==
    LET walk[n \in 0 .. Len(t.ids)] ==
          IF n = 0 THEN Followers(t, x)
          ELSE LET seen == walk[n - 1] IN seen \cup UNION {Followers(t, y) : y \in seen}
    IN  walk[Len(t.ids)]

(* The code also divides the hours by the length of x and sorts the bottlenecks by the
   quotient, for display. *)
Bottleneck(t, x) ==
    LET blocked == Blocks(t, x)
    IN  [count |-> Cardinality(blocked), hours |-> MapThenSumSet(LAMBDA y : t.len[y], blocked)]

Calculate(t) ==
    LET fwd    == ForwardPass(t)
        length == ProjectLength(t, fwd.ef)
        ls     == BackwardPass(t, fwd.order, length)
        slack  == [x \in Members(t) |-> ls[x] - fwd.es[x]]
    IN  [es          |-> fwd.es,
         ef          |-> fwd.ef,
         ls          |-> ls,
         float       |-> slack,
         critical    |-> {x \in Members(t) : slack[x] = 0},
         path        |-> TraceBack(t, fwd.es, fwd.ef, LastTask(t, fwd.es, fwd.ef)),
         length      |-> length,
         batches     |-> Batches(t, fwd.es),
         bottlenecks |-> [x \in {y \in Members(t) : Followers(t, y) # {}} |-> Bottleneck(t, x)],
         order       |-> fwd.order,
         unscheduled |-> Members(t) \ ToSet(fwd.order)]

(* compute_cpm: the schedule of a graph. *)
ComputeCpm(g) == Calculate(Tasks(g))

(* What plan.status and plan.simulate report of a milestone. *)
MilestoneRow(t, cpm, x) == [path |-> TraceBack(t, cpm.es, cpm.ef, x), hours |-> cpm.ef[x]]

-----------------------------------------------------------------------------
(* Drag. *)

Overlap(cpm, x, y) == cpm.es[x] < cpm.ef[y] /\ cpm.es[y] < cpm.ef[x]

Drag(t, cpm, x) ==
    IF x \notin cpm.critical THEN 0
    ELSE Min({t.len[x]} \cup {cpm.float[y] : y \in {z \in Members(t) \ cpm.critical :
                                                       Overlap(cpm, x, z)}})

-----------------------------------------------------------------------------
(* What the schedule should be: the lengths of the chains of prerequisites. *)

(* The hours of the longest chain before x starts. *)
LongestBefore(t) ==
    LET before[x \in Members(t)] ==
          Latest({before[p] + t.len[p] + t.lag[x][p] : p \in t.deps[x]})
    IN  before

(* The hours of the longest chain that x begins. *)
LongestFrom(t) ==
    LET from[x \in Members(t)] ==
          t.len[x] + Latest({t.lag[y][x] + from[y] : y \in Followers(t, x)})
    IN  from

IsChain(t, path) == \A i \in 2 .. Len(path) : path[i - 1] \in t.deps[path[i]]

ChainHours(t, path) ==
    LET upTo[n \in 0 .. Len(path)] ==
          IF n = 0 THEN 0
          ELSE upTo[n - 1] + t.len[path[n]] + IF n = 1 THEN 0 ELSE t.lag[path[n]][path[n - 1]]
    IN  upTo[Len(path)]

=============================================================================
