---------------------------- MODULE MCPortfolio ----------------------------
(* An instance of Portfolio for TLC: the graphs of a small line's drafts.  *)
EXTENDS Portfolio, MCGraphs

(* b builds on a and shares its file; c builds on b.                       *)
Draft == PlanGraph({a, b, c}, b :> {a} @@ c :> {b}, Unset,
                   a :> Excl(f) @@ b :> Excl(f), {}, Unset, {}, {})

(* The same with another a: what stands on it is defined as in Draft.      *)
Rethought == [Draft EXCEPT !.content[a] = 1]

(* b stands alone; c builds on it as in Draft.                             *)
Trimmed == [Draft EXCEPT !.ids = {b, c}, !.prereqs[b] = {}]

Drafts == {Draft, Rethought, Trimmed}

Names == Permutations(Variant)

=============================================================================
