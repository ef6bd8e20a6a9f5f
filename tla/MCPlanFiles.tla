---------------------------- MODULE MCPlanFiles ----------------------------
(* Model values for PlanFiles: variants, graphs and processes are          *)
(* interchangeable.                                                        *)
EXTENDS PlanFiles, TLC

Symmetric == Permutations(Variant) \cup Permutations(Graph) \cup Permutations(Proc)

=============================================================================
