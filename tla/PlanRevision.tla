---------------------------- MODULE PlanRevision ----------------------------
(***************************************************************************)
(* plan_revision (src/src/revise.rs): what becomes of the runtime state of *)
(* graph old when the plan is revised to graph new.  st are the statuses   *)
(* and live the deliverables with a live lease, both after the caller has  *)
(* reaped the expired leases.                                              *)
(***************************************************************************)
EXTENDS PlanState

Survivors(old, new) == old.ids \cap new.ids

Removed(old, new) == old.ids \ new.ids

(* The canonical definition of a deliverable. *)
Definition(g, d) ==
  <<g.prereqs[d], g.interface[d], g.files[d], g.contract[d], g.barrier[d],
    g.manual[d], g.content[d]>>

Changed(old, new) ==
  {d \in Survivors(old, new) : Definition(old, d) # Definition(new, d)}

(* The hash that makes a revision a no-op ignores the order of the list.   *)
SameGraph(old, new) ==
  /\ old.ids = new.ids
  /\ Changed(old, new) = {}
  /\ old.chained = new.chained

(* The survivors whose prerequisites or revision barrier differ. *)
Recontracted(old, new) ==
  {d \in Survivors(old, new) : \/ old.prereqs[d] # new.prereqs[d]
                               \/ old.barrier[d] # new.barrier[d]}

(* The leases such a change invalidates. *)
Superseded(old, new, st, live) ==
  {d \in Recontracted(old, new) : st[d] = "in_progress" /\ d \in live}

(* Statuses the reopen rule applies to. *)
Carried(old, new, st) ==
  {d \in Survivors(old, new) : st[d] \in {"complete", "ready", "pending"}}

ChangedContracts(old, new) ==
  {d \in Changed(old, new) : old.contract[d] \/ new.contract[d]}

Seeds(old, new, st, live) ==
     (Recontracted(old, new)
        \cap (Carried(old, new, st) \cup Superseded(old, new, st, live)))
  \cup {d \in Carried(old, new, st) :
          new.interface[d] \cap ChangedContracts(old, new) # {}}

(* Mutant of Reopened: only the seeds themselves reopen. *)
ReopenedSeedsOnly(old, new, st, live) == Seeds(old, new, st, live)

(* The seeds and, transitively, their carried dependents: leased, failed   *)
(* and superseded deliverables stop the walk.                              *)
Reopened(old, new, st, live) ==
  {d \in Survivors(old, new) :
     \A S \in SUBSET Survivors(old, new) :
       (/\ Seeds(old, new, st, live) \subseteq S
        /\ \A e \in Carried(old, new, st) :
             new.prereqs[e] \cap S # {} => e \in S)
       => d \in S}

(* Statuses of the new graph.  A re-derived deliverable is never complete, *)
(* so the prerequisites that count as complete are the complete survivors  *)
(* that were not reopened.                                                 *)
RevisedStatus(old, new, st, live) ==
  LET kept == Survivors(old, new) \ Reopened(old, new, st, live)
      done == {d \in kept : st[d] = "complete"}
  IN  [d \in Deliverable |->
         CASE d \notin new.ids -> Absent
           [] d \in Superseded(old, new, st, live) -> "superseded_revision"
           [] d \in kept -> st[d]
           [] OTHER -> IF new.prereqs[d] \subseteq done
                       THEN "ready" ELSE "pending"]

-----------------------------------------------------------------------------
(* The leases that survive *)

FilesChanged(old, new, d) ==
  d \in old.ids /\ old.files[d] # new.files[d]

(* Mutant of Evictions: surviving leases keep clashing claims. *)
EvictionsForgotten(old, new, leased, evictor) ==
  evictor = [d \in leased |-> NoBarrier]

(***************************************************************************)
(* Surviving leases claim their files again in graph order.  evictor[d] is *)
(* the deliverable in whose turn d's lease is released, NoBarrier when it  *)
(* is kept.  In the turn of d, every clashing holder whose files changed   *)
(* in the revision while d's did not is released; a clash with any other   *)
(* holder releases d itself, and then which of the first kind went before  *)
(* it depends on the order of d's files, which the model leaves open.      *)
(***************************************************************************)
Evictions(old, new, leased, evictor) ==
  /\ evictor \in [leased -> leased \cup {NoBarrier}]
  /\ \A d \in leased :
       LET holders == {e \in leased :
                         /\ new.order[e] < new.order[d]
                         /\ evictor[e] # e
                         /\ evictor[e] \in leased =>
                              new.order[evictor[e]] >= new.order[d]}
           clashing == {e \in holders : FilesClash(new, d, e)}
           yielding == {e \in clashing : /\ FilesChanged(old, new, e)
                                         /\ ~ FilesChanged(old, new, d)}
           evicted  == {e \in leased : e # d /\ evictor[e] = d}
       IN  /\ evicted \subseteq yielding
           /\ clashing = yielding => evictor[d] # d /\ evicted = yielding
           /\ clashing # yielding => evictor[d] = d

(* Without force a live lease that cannot be carried over refuses the      *)
(* revision with LOCK_HELD.                                                *)
Undisturbing(old, new, st, live) ==
  /\ Removed(old, new) \cap live = {}
  /\ Superseded(old, new, st, live) = {}
  /\ \A d, e \in live : d # e => ~ FilesClash(new, d, e)

=============================================================================
