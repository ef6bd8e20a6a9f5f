----------------------------- MODULE PlanState -----------------------------
(***************************************************************************)
(* The pure part of a plan's runtime state: the graph of deliverables, the *)
(* statuses, the file claims of the held leases, and the derivations every *)
(* planner operation is built from (src/src/locks.rs, src/src/planner.rs). *)
(*                                                                         *)
(* Nothing here is recursive: the loops of the code that compute a least   *)
(* set or a greedy selection are stated by what they compute, so the       *)
(* modules above can be proved about as well as checked.                   *)
(***************************************************************************)
EXTENDS Integers, FiniteSets

CONSTANTS
  Deliverable,   (* every deliverable id that any graph of the plan uses   *)
  File,          (* paths that deliverables may own                        *)
  NoBarrier      (* metadata.consumes_revision_from is not declared        *)

Status == {"pending", "ready", "in_progress", "superseded_revision",
           "complete", "failed"}

Absent == "absent"           (* the deliverable is not in the plan's graph *)

Mode == {"none", "append", "exclusive"}

(***************************************************************************)
(* A plan graph.  Every field but ids is total on Deliverable; only the    *)
(* values at ids mean anything.  order is the position in the deliverables *)
(* list, prio the rank by (latest_start, float, id) that acquire_cohort    *)
(* sorts by, content stands for the fields no operation interprets, and    *)
(* chained is the plan's max_chained_dispatch, a hint to the workers.      *)
(***************************************************************************)
Graph == [ids       : SUBSET Deliverable,
          prereqs   : [Deliverable -> SUBSET Deliverable],
          interface : [Deliverable -> SUBSET Deliverable],
          files     : [Deliverable -> [File -> Mode]],
          contract  : [Deliverable -> BOOLEAN],
          barrier   : [Deliverable -> Deliverable \cup {NoBarrier}],
          manual    : [Deliverable -> BOOLEAN],
          content   : [Deliverable -> Nat],
          order     : [Deliverable -> Nat],
          prio      : [Deliverable -> Nat],
          chained   : Nat]

Injective(f, S) == \A x, y \in S : f[x] = f[y] => x = y

-----------------------------------------------------------------------------
(* Files *)

(* Two claims on one path conflict unless both are append. *)
ModesConflict(requested, held) ==
  /\ requested # "none"
  /\ held # "none"
  /\ ~ (requested = "append" /\ held = "append")

(* d and e claim some path in conflicting modes. *)
FilesClash(g, d, e) ==
  \E f \in File : ModesConflict(g.files[d][f], g.files[e][f])

-----------------------------------------------------------------------------
(* Validation of a graph *)

(* Everything d transitively depends on: the least set that contains d's   *)
(* prerequisites and the prerequisites of its members.                     *)
Ancestors(g, d) ==
  {a \in g.ids :
     \A S \in SUBSET g.ids :
       (g.prereqs[d] \subseteq S /\ \A e \in S : g.prereqs[e] \subseteq S)
         => a \in S}

ValidateGraph(g) ==
  /\ \A d \in g.ids :
       /\ g.prereqs[d] \subseteq g.ids
       /\ g.interface[d] \subseteq g.prereqs[d]
       /\ g.barrier[d] # NoBarrier => g.barrier[d] \in g.prereqs[d]
       /\ d \notin Ancestors(g, d)
  /\ \A d, e \in g.ids :
       (d # e /\ FilesClash(g, d, e))
         => d \in Ancestors(g, e) \/ e \in Ancestors(g, d)
  /\ Injective(g.order, g.ids)
  /\ Injective(g.prio, g.ids)

-----------------------------------------------------------------------------
(* Statuses *)

PrereqsComplete(g, st, d) == \A p \in g.prereqs[d] : st[p] = "complete"

(* Mutant of Rederive: whatever was reaped waits, also when nothing is     *)
(* left to promote it.                                                     *)
RederiveWaiting(g, st, d) == "pending"

(* The single re-derivation rule. *)
Rederive(g, st, d) == IF PrereqsComplete(g, st, d) THEN "ready" ELSE "pending"

(* Statuses once the leases of lost have been reaped or swept. *)
Rederived(g, st, lost) ==
  [d \in Deliverable |-> IF d \in lost THEN Rederive(g, st, d) ELSE st[d]]

(* Statuses of a new plan: every deliverable without prerequisites is      *)
(* ready, the others wait.                                                 *)
InitialStatus(g) ==
  [d \in Deliverable |->
     IF d \notin g.ids THEN Absent
     ELSE IF g.prereqs[d] = {} THEN "ready" ELSE "pending"]

(* Statuses once d is complete: the pending dependents whose prerequisites *)
(* are all complete now become ready.                                      *)
Completed(g, st, d) ==
  LET done == [st EXCEPT ![d] = "complete"]
  IN  [e \in Deliverable |->
         IF /\ e \in g.ids
            /\ d \in g.prereqs[e]
            /\ done[e] = "pending"
            /\ PrereqsComplete(g, done, e)
         THEN "ready" ELSE done[e]]

(* Mutant of Reacquirable: work in progress is leased as well. *)
ReacquirableInProgress(g, st, d) ==
  /\ st[d] \in {"ready", "superseded_revision", "in_progress"}
  /\ PrereqsComplete(g, st, d)

(* d may receive a fresh lease, as far as its status goes. *)
Reacquirable(g, st, d) ==
  /\ st[d] \in {"ready", "superseded_revision"}
  /\ PrereqsComplete(g, st, d)

-----------------------------------------------------------------------------
(* The cohort an acquire hands out *)

(* The greedy fill: in prio order, a candidate is taken while fewer than n *)
(* are, unless its files clash with a held lease or an earlier pick.       *)
GreedyCohort(g, candidates, held, n, cohort) ==
  /\ cohort \subseteq candidates
  /\ \A d \in candidates :
       LET earlier == {e \in cohort : g.prio[e] < g.prio[d]}
       IN  d \in cohort <=>
             /\ Cardinality(earlier) < n
             /\ \A e \in held \cup earlier : ~ FilesClash(g, d, e)

=============================================================================
