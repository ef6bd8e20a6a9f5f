--------------------------- MODULE LeasesService ---------------------------
(***************************************************************************)
(* Leases implements PlanService: holders, clocks, retry budgets and the   *)
(* lockless mark are how the planner keeps a promise that does not mention *)
(* them.                                                                   *)
(***************************************************************************)
EXTENDS Leases

(* The plan as its promise sees it: a lock row says that its deliverable   *)
(* is claimed, and by its expires_at whether the claim is still live.      *)
AbstractPlan ==
  [graph    |-> graph,
   status   |-> status,
   claim    |-> [d \in Deliverable |->
                   IF lease[d] = NoLease THEN "none"
                   ELSE IF lease[d].left >= 0 THEN "live" ELSE "stale"],
   baseline |-> baseline]

Service == INSTANCE PlanService WITH plan <- AbstractPlan

(* Every step of the detailed execution (all operations of planner.rs, the *)
(* sweep of plan_store.rs, the clock) is a step of the plan service or     *)
(* leaves it as it is.                                                     *)
Implements == Service!Spec

=============================================================================
