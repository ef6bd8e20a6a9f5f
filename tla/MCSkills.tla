------------------------------ MODULE MCSkills ------------------------------
(* Two processes, two targets of the shared root, two versions of the binary;
   the second version no longer ships the second file. *)
EXTENDS Skills, TLC

CONSTANTS f, g

MCFileOrder == <<f, g>>
MCShips == [v \in Versions |-> IF v = 1 THEN {f, g} ELSE {f}]
MCVersions == {1, 2}

Symmetric == Permutations(Runs) \cup Permutations(Inodes)
=============================================================================
