------------------------------ MODULE MCLedger ------------------------------
(* An instance of Ledger for TLC: a line whose drafts add and drop a       *)
(* deliverable.                                                            *)
EXTENDS Ledger, MCGraphs

(* a builds on b. *)
Full == PlanGraph({a, b}, a :> {b}, Unset, Unset, {}, Unset, {}, {})

(* Only a: dropping b, or adding it, reopens a. *)
Half == [Full EXCEPT !.ids = {a}, !.prereqs[a] = {}]

Drafts == {Full, Half}

Rules == a :> "weighted" @@ b :> "fifty_fifty"

Names == Permutations(Variant)

=============================================================================
