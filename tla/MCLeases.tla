------------------------------ MODULE MCLeases ------------------------------
(* Instances of Leases for TLC: the graphs a small plan moves between.     *)
EXTENDS LeasesService, MCGraphs

(* b builds on a and shares its file; c shares a log with b.               *)
Chain == PlanGraph({a, b, c}, b :> {a}, b :> {a},
                   a :> Excl(f) @@ b :> (f :> "exclusive" @@ App(h)) @@ c :> App(h),
                   {a}, Unset, {}, {})

(* c builds on a and shares its file; b shares a log with c.               *)
Base == PlanGraph({a, b, c}, c :> {a}, c :> {a},
                  a :> Excl(f) @@ c :> (f :> "exclusive" @@ App(h)) @@ b :> App(h),
                  {a}, Unset, {}, {})

(* a now waits for b, which takes the log for itself; c only waits for a.  *)
Rerouted == [Base EXCEPT !.prereqs[a] = {b}, !.files[b] = Excl(h),
                         !.interface[c] = {}]

(* a waits for b, and it is c that takes the log.                          *)
Retaken == [Base EXCEPT !.prereqs[a] = {b},
                        !.files[c] = f :> "exclusive" @@ Excl(h)]

(* c waits for b too, pinned to the revision b produces, and b has become  *)
(* a person's work.                                                        *)
Pinned == [Base EXCEPT !.prereqs[c] = {a, b}, !.barrier[c] = b,
                       !.manual[b] = TRUE]

(* b is gone, and a's contract text changes: the consumer of its interface *)
(* reopens.                                                                *)
Dropped == [Base EXCEPT !.ids = {a, c}, !.content[a] = 1]

(* Not valid: c takes the log without being ordered after b.               *)
Unordered == [Base EXCEPT !.files[c] = f :> "exclusive" @@ Excl(h)]

(* The same work, dispatched otherwise.                                    *)
Redispatched == [Base EXCEPT !.chained = 1]

ChainOnly == {Chain}

Revised == {Base, Rerouted, Retaken, Pinned, Dropped, Unordered, Redispatched}

PlainScopes == {{a, b, c}, {a, c}}

Workers == Permutations(Caller)

=============================================================================
