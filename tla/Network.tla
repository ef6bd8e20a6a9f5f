------------------------------ MODULE Network ------------------------------
(***************************************************************************)
(* A plan graph as its author submits it (src/src/plan.rs), well formed or *)
(* not: a sequence of deliverables in declaration order.  The rules a      *)
(* submission must satisfy (validate_graph of src/src/planner.rs), the     *)
(* reachability they share with lint (src/src/graph.rs), the scheduled     *)
(* lengths and the endpoints that the kernel adds (src/src/schedule.rs),   *)
(* and the edits an agent may apply (src/src/edits.rs).                    *)
(*                                                                         *)
(* Ids are numbers, ordered as the strings are.  Hours are whole numbers.  *)
(***************************************************************************)
EXTENDS Integers, SequencesExt

CONSTANTS
    START, FINISH,      \* __start__ and __finish__, somewhere in the order of the ids
    MAX_HOURS,
    MAX_DELIVERABLES,
    DerivedHours,       \* what the estimator answers for a deliverable without hours
    None

ASSUME NetworkAssumption ==
    /\ {START, FINISH} \subseteq Int /\ FINISH < START
    /\ {MAX_HOURS, MAX_DELIVERABLES, DerivedHours} \subseteq Nat

(* A deliverable:
     id        its id
     pre       its prerequisites: the ids, each with what the edge says
     duration, effort   hours, or None
     estimate  <<optimistic, likely, pessimistic>>, or None
     milestone, contract, artifact, manual   flags, of the fields or of the metadata
     legacy    the ids for which metadata.consumes has a text
     files     the owned paths, each with its mode
     claims    the pools of metadata.resources, each with its units
     wallClock metadata.wall_clock_only
     barrier   metadata.consumes_revision_from, or None
   An edge says its lag, whether it is of kind interface, and what it consumes (a
   text, or None).  A prerequisite listed twice is one edge with the larger lag, as in
   the code. *)
Prerequisites(d) == DOMAIN d.pre

IdSet(g) == {g[i].id : i \in DOMAIN g}

(* Pools with a number of units each, or None. *)
IsClaims(c) == c # None => IsFiniteSet(DOMAIN c) /\ \A r \in DOMAIN c : c[r] \in Nat

(* What is read from the files and the requests: a sequence of deliverables with these
   fields. *)
IsDeliverable(d) ==
    /\ {"id", "pre", "duration", "effort", "estimate", "milestone", "barrier", "files", "claims"}
          \subseteq DOMAIN d
    /\ IsClaims(d.claims)
    /\ d.id \in Int /\ Prerequisites(d) \subseteq Int /\ IsFiniteSet(Prerequisites(d))

IsGraph(g) ==
    /\ Len(g) \in Nat /\ g = [i \in 1 .. Len(g) |-> g[i]]
    /\ \A i \in DOMAIN g : IsDeliverable(g[i])

Find(g, x) == g[CHOOSE i \in DOMAIN g : g[i].id = x /\ \A j \in 1 .. i - 1 : g[j].id # x]

(* The elements of s that are in S, in their order: a recursive function, that proofs
   can unfold. *)
Kept(s, S) ==
    LET kept[n \in 0 .. Len(s)] ==
          IF n = 0 THEN <<>>
          ELSE IF s[n] \in S THEN Append(kept[n - 1], s[n]) ELSE kept[n - 1]
    IN  kept[Len(s)]

UniqueIds(g) == Cardinality(IdSet(g)) = Len(g)

KnownPrerequisites(g) == \A i \in DOMAIN g : Prerequisites(g[i]) \subseteq IdSet(g)

-----------------------------------------------------------------------------
(* Reachability. *)

(* The ids that list x as a prerequisite. *)
Dependents(g, x) == {g[i].id : i \in {j \in DOMAIN g : x \in Prerequisites(g[j])}}

(* The ids that wait for x, directly or through a chain. *)
Reach(g, x) ==
    LET within[n \in 1 .. Len(g) + 1] ==
          IF n = 1 THEN Dependents(g, x)
          ELSE LET near == within[n - 1] IN near \cup UNION {Dependents(g, y) : y \in near}
    IN  within[Len(g) + 1]

Ordered(g, x, y) == y \in Reach(g, x) \/ x \in Reach(g, y)

-----------------------------------------------------------------------------
(* Validation. *)

HoursOk(h) == h \in 0 .. MAX_HOURS

(* Hours out of range, or an estimate out of order. *)
ValueProblem(d) ==
    \/ \E h \in {d.duration, d.effort} \ {None} : ~ HoursOk(h)
    \/ /\ d.estimate # None
       /\ \/ \E k \in 1 .. 3 : ~ HoursOk(d.estimate[k])
          \/ d.estimate[1] > d.estimate[2] \/ d.estimate[2] > d.estimate[3]
    \/ \E p \in Prerequisites(d) : ~ HoursOk(d.pre[p].lag)

(* Two claimants of a path, not both appending, one of which could run while the
   other holds it. *)
UnorderedClash(g, i, j) ==
    /\ g[i].id # g[j].id
    /\ \E f \in DOMAIN g[i].files \cap DOMAIN g[j].files :
          ~ (g[i].files[f] = "append" /\ g[j].files[f] = "append")
    /\ ~ Ordered(g, g[i].id, g[j].id)

(* What Kahn's algorithm pops: whatever only waits for what was popped before. *)
Popped(g) ==
    LET after[n \in 0 .. Len(g)] ==
          IF n = 0 THEN {}
          ELSE LET done == after[n - 1]
               IN  {g[i].id : i \in {j \in DOMAIN g : Prerequisites(g[j]) \subseteq done}}
    IN  after[Len(g)]

(* The barrier names one of the prerequisites. *)
BarrierDeclared(d) == d.barrier = None \/ d.barrier \in Prerequisites(d)

(* Mutant of Valid: a claim of a path is compared with the next one only. *)
ValidNeighbours(g) ==
    /\ Len(g) <= MAX_DELIVERABLES /\ {START, FINISH} \cap IdSet(g) = {} /\ UniqueIds(g)
    /\ KnownPrerequisites(g) /\ Popped(g) = IdSet(g)
    /\ \A i \in DOMAIN g : ~ ValueProblem(g[i]) /\ BarrierDeclared(g[i])
    /\ \A i \in 2 .. Len(g) : ~ UnorderedClash(g, i - 1, i)

(* validate_graph accepts g. *)
Valid(g) ==
    /\ Len(g) <= MAX_DELIVERABLES
    /\ {START, FINISH} \cap IdSet(g) = {}
    /\ UniqueIds(g)
    /\ \A i \in DOMAIN g : ~ ValueProblem(g[i])
    /\ KnownPrerequisites(g)
    /\ \A i \in DOMAIN g : BarrierDeclared(g[i])
    /\ \A i, j \in DOMAIN g : i < j => ~ UnorderedClash(g, i, j)
    /\ Popped(g) = IdSet(g)

-----------------------------------------------------------------------------
(* Edits. *)

Update(g, x, field, value) ==
    [i \in DOMAIN g |-> IF g[i].id = x THEN [g[i] EXCEPT ![field] = value] ELSE g[i]]

(* The edits there are; of the metadata, those this model has. *)
IsEdit(e) ==
    \/ e.op \in {"RemoveEdge", "AddEdge", "SetEffort", "SetDuration", "SetEstimate",
                 "RemoveDeliverable"}
    \/ /\ e.op = "SetMetadata" /\ e.key \notin {"id", "pre", "duration", "effort", "estimate"}
       /\ e.key = "claims" => IsClaims(e.value)
    \/ e.op = "AddDeliverable" /\ IsDeliverable(e.deliverable)

(* Every id an edit names is in the graph. *)
Names(e) ==
    CASE e.op \in {"RemoveEdge", "AddEdge"} -> {e.from, e.to}
      [] e.op = "AddDeliverable"            -> Prerequisites(e.deliverable)
      [] OTHER                              -> {e.id}

(* apply_one refuses the edit. *)
Refused(g, e) ==
    \/ ~ Names(e) \subseteq IdSet(g)
    \/ e.op = "RemoveEdge" /\ e.from \notin Prerequisites(Find(g, e.to))
    \/ e.op = "AddEdge" /\ e.from \in Prerequisites(Find(g, e.to))
    \/ e.op = "RemoveDeliverable" /\ Dependents(g, e.id) \ {e.id} # {}
    \/ e.op = "AddDeliverable" /\ e.deliverable.id \in IdSet(g)

With(f, x, v) == [y \in DOMAIN f \cup {x} |-> IF y = x THEN v ELSE f[y]]
Without(f, x) == [y \in DOMAIN f \ {x} |-> f[y]]

(* An edge that an edit adds: no lag and no kind. *)
NewEdge(says) == [lag |-> 0, interface |-> FALSE, consumes |-> says]

(* The graph after an edit that is not refused. *)
Edited(g, e) ==
    CASE e.op = "RemoveEdge" ->
           Update(g, e.to, "pre", Without(Find(g, e.to).pre, e.from))
      [] e.op = "AddEdge" ->
           Update(g, e.to, "pre", With(Find(g, e.to).pre, e.from, NewEdge(e.consumes)))
      [] e.op = "SetEffort"   -> Update(g, e.id, "effort", e.hours)
      [] e.op = "SetDuration" -> Update(g, e.id, "duration", e.hours)
      [] e.op = "SetEstimate" -> Update(g, e.id, "estimate", e.estimate)
      [] e.op = "SetMetadata" -> Update(g, e.id, e.key, e.value)
      [] e.op = "RemoveDeliverable" -> Kept(g, {d \in ToSet(g) : d.id # e.id})
      [] e.op = "AddDeliverable"    -> Append(g, e.deliverable)

(* apply_edits: the edits in order, then the rules of a submission; None when it
   fails. *)
ApplyEdits(g, edits) ==
    LET after[n \in 0 .. Len(edits)] ==
          IF n = 0 THEN g
          ELSE LET out == after[n - 1]
               IN  IF out = None \/ Refused(out, edits[n]) THEN None ELSE Edited(out, edits[n])
        out == after[Len(edits)]
    IN  IF out = None \/ ~ Valid(out) THEN None ELSE out

-----------------------------------------------------------------------------
(* What the kernels schedule. *)

(* The scheduled length of a deliverable, by precedence. *)
ScheduledLength(d) ==
    IF d.duration # None THEN d.duration
    ELSE IF d.effort # None THEN d.effort
    ELSE IF d.estimate # None THEN d.estimate[2]
    ELSE IF d.milestone THEN 0 ELSE DerivedHours

(* Its cost: calendar time is not cost. *)
EffortBasis(d) ==
    IF d.effort # None THEN d.effort
    ELSE IF d.estimate # None THEN d.estimate[2]
    ELSE IF d.milestone THEN 0 ELSE DerivedHours

(* Deliverables that no other lists as a prerequisite. *)
Sinks(g) == {x \in IdSet(g) : Dependents(g, x) = {}}

(* The tasks of a valid graph: its deliverables and the two endpoints.  ids is their
   order, and lag is defined on the edges. *)
Tasks(g) ==
    LET ids == [i \in DOMAIN g |-> g[i].id] \o <<START, FINISH>>
        Deps(x) == IF x = START THEN {}
                   ELSE IF x = FINISH THEN IF Sinks(g) = {} THEN {START} ELSE Sinks(g)
                   ELSE IF Prerequisites(Find(g, x)) = {} THEN {START}
                   ELSE Prerequisites(Find(g, x))
        deps == [x \in ToSet(ids) |-> Deps(x)]
        Lag(x, p) == IF {x, p} \cap {START, FINISH} # {} THEN 0 ELSE Find(g, x).pre[p].lag
    IN  [ids  |-> ids,
         len  |-> [x \in ToSet(ids) |-> IF x \in {START, FINISH} THEN 0
                                        ELSE ScheduledLength(Find(g, x))],
         deps |-> deps,
         lag  |-> [x \in ToSet(ids) |-> [p \in deps[x] |-> Lag(x, p)]]]

=============================================================================
