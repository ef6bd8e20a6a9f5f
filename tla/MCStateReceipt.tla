--------------------------- MODULE MCStateReceipt ---------------------------
(* Instances of StateReceipt for TLC.                                      *)
EXTENDS StateReceipt, TLC

Symmetry == Permutations(Proc) \cup Permutations(Plan)

=============================================================================
