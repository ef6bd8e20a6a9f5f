---------------------------- MODULE PlanService ----------------------------
(***************************************************************************)
(* The specification of one plan that Leases implements: one atomic result *)
(* of one operation at a time, on a plan that is executed, revised, swept  *)
(* or left to its leases' expiry.                                          *)
(***************************************************************************)
EXTENDS Execution

VARIABLE plan

Init == plan \in {NewPlan(g) : g \in ValidGraphs}

(* A step is one result of one operation.  The graph of the next state     *)
(* comes first in each disjunct: that is all TLC needs to see of most      *)
(* steps that it holds against this specification.                         *)
Next ==
  \/ /\ plan'.graph = plan.graph
     /\ \/ plan' \in Expired(plan)
        \/ plan' \in Reaps(plan)
        \/ plan' \in Baselined(plan)
        \/ plan' \in Renewed(plan)
        \/ plan' \in Released(plan)
        \/ plan' \in MarkedFailed(plan)
        \/ plan' \in MarkedOpen(plan)
        \/ plan' \in MarkedComplete(plan)
        \/ plan' \in Accepted(plan)
        \/ plan' \in Acquired(plan)
  \/ \E new \in ValidGraphs : /\ plan'.graph = new
                             /\ ~ SameGraph(plan.graph, new)
                             /\ plan' \in Revised(plan, new)

Spec == Init /\ [][Next]_plan

=============================================================================
