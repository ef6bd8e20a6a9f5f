--------------------------- MODULE MCImprovement ---------------------------
(* The drafts of the checked instances, in three families: small plans of all shapes
   for the kernels, ill-formed ones for lint, and a few plans to review and to edit.
   Hours are tenths of an hour. *)
EXTENDS Improvement

CONSTANTS P, Q,         \* pools
          A, B, C       \* files

Nothing == [y \in {} |-> 0]

(* Ids 1, 4, 5, 6; __finish__ is 2 and __start__ is 3. *)
Plain(x) ==
    [id |-> x, pre |-> Nothing, duration |-> None, effort |-> None, estimate |-> None,
     milestone |-> FALSE, contract |-> FALSE, artifact |-> TRUE, manual |-> FALSE,
     legacy |-> {}, files |-> Nothing, claims |-> None, owner |-> None,
     wallClock |-> FALSE, barrier |-> None, mentions |-> {}]

Edge(lag) == [lag |-> lag, interface |-> FALSE, consumes |-> "the artifact"]

-----------------------------------------------------------------------------
(* Kernels: a chain of positions, each waiting for some of those before it. *)

(* The prerequisites of the k-th id: a set of earlier ones, the first with a lag. *)
Pre(ids, S, lag) == [x \in {ids[k] : k \in S} |-> Edge(IF x = ids[Min(S)] THEN lag ELSE 0)]

Shape(ids, waits, lags, lens, claims) ==
    [k \in DOMAIN ids |-> [Plain(ids[k]) EXCEPT !.pre = Pre(ids, waits[k], lags[k]),
                                                !.duration = lens[k], !.claims = claims[k]]]

NoClaims == [k \in 1 .. 4 |-> None]

Kernels ==
    {[graph |-> Shape(ids, <<{}, w2, w3, w4>>, <<0, l, l, l>>, lens, NoClaims), caps |-> None, rounds |-> 0] :
        ids \in {<<1, 4, 5, 6>>, <<5, 1, 6, 4>>}, w2 \in SUBSET {1}, w3 \in SUBSET {1, 2},
        w4 \in SUBSET {1, 2, 3}, l \in {0, 10}, lens \in [1 .. 4 -> {0, 10}]}

Claim(p, q) == (IF p > 0 THEN P :> p ELSE Nothing) @@ (IF q > 0 THEN Q :> q ELSE Nothing)

Pools == {Claim(1, 0), Claim(2, 0), Claim(1, 1)}

Contended ==
    {[graph |-> Shape(<<1, 4, 5, 6>>, <<{}, {}, w3, w4>>, <<0, 0, l, l>>, lens, claims),
      caps |-> Claim(2, 1), rounds |-> 0] :
        w3 \in {{}, {1}}, w4 \in {{1}, {3}}, l \in {0, 10},
        lens \in {Append(l3, 10) : l3 \in [1 .. 3 -> {10, 20}]}, claims \in [1 .. 4 -> Pools]}

-----------------------------------------------------------------------------
(* Ill-formed drafts: reserved, duplicate and unknown ids, loops, values out of range,
   barriers and shared files. *)

WaitsFor(S) == [x \in S |-> Edge(0)]

Touching(m) == IF m = "none" THEN Nothing ELSE A :> m

Looped ==
    {<<[Plain(1) EXCEPT !.pre = WaitsFor(w1)], [Plain(x) EXCEPT !.pre = WaitsFor(w2)],
       [Plain(y) EXCEPT !.pre = WaitsFor(w3), !.barrier = b]>> :
        x \in {1, 4}, y \in {2, 5}, b \in {None, 4}, w1 \in SUBSET {4, 5},
        w2 \in SUBSET {1, 4, 5}, w3 \in SUBSET {1, 4, 6}}

Sharing ==
    {<<[Plain(1) EXCEPT !.files = Touching(m1)],
       [Plain(4) EXCEPT !.pre = WaitsFor(w2), !.duration = v],
       [Plain(5) EXCEPT !.pre = WaitsFor(w3), !.files = Touching(m3)]>> :
        m1 \in {"none", "edit", "append"}, m3 \in {"edit", "append"},
        w2 \in SUBSET {1}, w3 \in SUBSET {1, 4}, v \in {None, 10, 101}}

(* Three that say the same of one producer. *)
FannedOut ==
    {<<[Plain(1) EXCEPT !.milestone = m, !.manual = ~ m], [Plain(4) EXCEPT !.pre = WaitsFor({1})],
       [Plain(5) EXCEPT !.pre = WaitsFor({1})], [Plain(6) EXCEPT !.pre = WaitsFor({1})]>> :
        m \in BOOLEAN}

Unruly == {[graph |-> g, caps |-> None, rounds |-> 0] :
             g \in Looped \cup Sharing \cup FannedOut \cup {[k \in 1 .. 5 |-> Plain(10 + k)], <<>>}}

-----------------------------------------------------------------------------
(* Plans to review and to edit. *)

Saying(text) == [Edge(0) EXCEPT !.consumes = text]

(* 1 -> 4 -> 5 -> 6, and an edge from 1 to 5 that 4 makes redundant; 6 is the
   milestone. *)
Chain ==
    <<[Plain(1) EXCEPT !.effort = 40, !.files = A :> "edit", !.owner = P],
      [Plain(4) EXCEPT !.pre = 1 :> Saying("the schema of the database"), !.duration = 20, !.owner = P],
      [Plain(5) EXCEPT !.pre = 4 :> Saying("the server") @@ 1 :> Saying("upstream artifact"),
                       !.estimate = <<10, 20, 40>>, !.files = B :> "edit"],
      [Plain(6) EXCEPT !.pre = 5 :> Saying("the release"), !.milestone = TRUE]>>

(* 1 and 4 side by side before 5, with a lag whose reason is in the metadata, and one
   pool. *)
Fork ==
    <<[Plain(1) EXCEPT !.effort = 30, !.files = A :> "edit", !.claims = Claim(1, 0)],
      [Plain(4) EXCEPT !.effort = 20, !.files = B :> "append", !.claims = Claim(1, 0)],
      [Plain(5) EXCEPT !.pre = 1 :> [Edge(10) EXCEPT !.consumes = None] @@ 4 :> Saying("the tests"),
                       !.legacy = {1}, !.effort = 40, !.claims = Claim(1, 1), !.mentions = {6}],
      [Plain(6) EXCEPT !.effort = 10, !.claims = Claim(0, 1), !.files = C :> "edit"]>>

Drafted == {[graph |-> Chain, caps |-> None, rounds |-> 2],
            [graph |-> Fork, caps |-> Claim(1, 1), rounds |-> 2],
            [graph |-> Chain, caps |-> (P :> 1 @@ Unassigned :> 1), rounds |-> 2]}

MCPlans == Kernels \cup Contended \cup Unruly \cup Drafted

Directories == A :> <<"src">> @@ B :> <<"src", "db">> @@ C :> <<"src", "db", "sql">>

MCHandEdits ==
    {[op |-> "RemoveEdge", from |-> 1, to |-> 5], [op |-> "AddEdge", from |-> 6, to |-> 1, consumes |-> None],
     [op |-> "AddEdge", from |-> 1, to |-> 6, consumes |-> "the schema of the database"],
     [op |-> "SetEffort", id |-> 5, hours |-> 10], [op |-> "SetDuration", id |-> 1, hours |-> 200],
     [op |-> "SetEstimate", id |-> 5, estimate |-> <<40, 20, 10>>],
     [op |-> "SetMetadata", id |-> 1, key |-> "milestone", value |-> TRUE],
     [op |-> "RemoveDeliverable", id |-> 6], [op |-> "RemoveDeliverable", id |-> 1],
     [op |-> "AddDeliverable", deliverable |-> [Plain(6) EXCEPT !.pre = WaitsFor({1})]]}

Percent == {20, 90, None}

MCAnswers ==
    [crash_option |-> {<<"add_capacity", 80, 70>>, <<"reduce_scope", 80, 90>>, None},
     false_dependency |-> Percent, interface_split |-> {60}, split_candidate |-> {20},
     missing_dependency |-> {60}]

=============================================================================
