------------------------------ MODULE MCGraphs ------------------------------
(* The graphs of small instances, from what their deliverables do not      *)
(* leave at the default.                                                   *)
EXTENDS PlanState, TLC

CONSTANTS a, b, c,         (* deliverables, in this order in every graph   *)
          f, h             (* files                                        *)

Rank == a :> 1 @@ b :> 2 @@ c :> 3

NoFiles == [x \in File |-> "none"]

PlanGraph(ids, prereqs, interface, files, contract, barrier, manual, content) ==
  [ids |-> ids,
   prereqs   |-> prereqs @@ [d \in Deliverable |-> {}],
   interface |-> interface @@ [d \in Deliverable |-> {}],
   files     |-> files @@ [d \in Deliverable |-> NoFiles],
   contract  |-> [d \in Deliverable |-> d \in contract],
   barrier   |-> barrier @@ [d \in Deliverable |-> NoBarrier],
   manual    |-> [d \in Deliverable |-> d \in manual],
   content   |-> [d \in Deliverable |-> IF d \in content THEN 1 ELSE 0],
   order     |-> Rank,
   prio      |-> Rank,
   chained   |-> 0]

Unset == [d \in {} |-> 0]

Excl(x) == x :> "exclusive" @@ NoFiles
App(x) == x :> "append" @@ NoFiles

=============================================================================
