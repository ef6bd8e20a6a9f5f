------------------------------- MODULE Leases -------------------------------
(***************************************************************************)
(* The execution of one plan (src/src/planner.rs): callers lease cohorts   *)
(* of deliverables, report on them, keep leases alive or let them lapse;   *)
(* operators accept, release and revise; a process that opens the store    *)
(* sweeps it.                                                              *)
(*                                                                         *)
(* Every operation of the code is one immediate SQLite transaction that    *)
(* loads the plan, applies a closure and saves it, or rolls back on an     *)
(* error.  So every operation is one atomic action here, and a call that   *)
(* returns an error is no action at all.  What does interleave inside a    *)
(* call is the clock: an operation reads it before it waits for the write  *)
(* lock, so its timestamp may be up to MaxAge old when it runs.            *)
(*                                                                         *)
(* Time is kept relative: a lease records how long it still has (its       *)
(* expires_at minus the current time).                                     *)
(***************************************************************************)
EXTENDS PlanRevision

CONSTANTS
  Caller,         (* the workers that lease deliverables                   *)
  NoLease,        (* the deliverable is not leased                         *)
  Graphs,         (* the graphs the plan may be submitted with or revised to *)
  Marks,          (* the statuses callers pass to mark_status              *)
  MaxAttempts,    (* explicit failures that trip the circuit breaker       *)
  MaxLapses,      (* lapses after which a deliverable is not leased again  *)
  DefaultTtl,     (* lease length when the caller names none               *)
  MaxTtl,         (* the longest lease a caller may ask for                *)
  Scopes,         (* the sets of ids an acquire is narrowed to             *)
  Counts,         (* the max_count values callers pass                     *)
  MaxAge,         (* bound on the age of an operation's timestamp          *)
  RefuseUnbaselined  (* baseline mode: TRUE for refuse, FALSE for auto     *)

ASSUME LeasesAssumption ==
  /\ Graphs \subseteq Graph
  /\ \E g \in Graphs : ValidateGraph(g)
  /\ IsFiniteSet(Deliverable)
  /\ NoLease \notin [holder : Caller, left : Int]
  /\ NoBarrier \notin Deliverable
  /\ Marks \subseteq Status
  /\ MaxAttempts \in Nat \ {0}
  /\ MaxLapses \in Nat \ {0}
  /\ MaxTtl \in Nat \ {0}
  /\ DefaultTtl \in 1..MaxTtl
  /\ Scopes \subseteq SUBSET Deliverable
  /\ Counts \subseteq Nat
  /\ MaxAge \in Nat
  /\ RefuseUnbaselined \in BOOLEAN

VARIABLES
  graph,          (* the plan's current graph                              *)
  status,         (* status of every deliverable                           *)
  lease,          (* lock row of every deliverable, or NoLease             *)
  failures,       (* explicit failures                                     *)
  lapses,         (* environmental lapses                                  *)
  lockless,       (* in progress by a mark without a lease                 *)
  baseline        (* an earned-value baseline has been taken               *)

vars == <<graph, status, lease, failures, lapses, lockless, baseline>>

Lease == [holder : Caller, left : (-1 - MaxAge)..MaxTtl]

Ttls == 1..MaxTtl
Ages == 0..MaxAge

TypeOK ==
  /\ graph \in Graphs
  /\ status \in [Deliverable -> Status \cup {Absent}]
  /\ lease \in [Deliverable -> Lease \cup {NoLease}]
  /\ failures \in [Deliverable -> 0..MaxAttempts]
  /\ lapses \in [Deliverable -> 0..MaxLapses]
  /\ lockless \subseteq Deliverable
  /\ baseline \in BOOLEAN

ValidGraphs == {g \in Graphs : ValidateGraph(g)}

-----------------------------------------------------------------------------
(* Parts of a transaction *)

Leased == {d \in Deliverable : lease[d] # NoLease}

(* Mutants of Lapsed: a lease ends at its expiry already; a lease whose    *)
(* holder put the work back is overlooked.                                 *)
LapsedAtExpiry(age) == {d \in Leased : lease[d].left + age <= 0}

LapsedInProgress(age) ==
  {d \in Leased : status[d] = "in_progress" /\ lease[d].left + age < 0}

(* The leases that a transaction with a timestamp of this age finds        *)
(* expired: expires_at < now, strictly.                                    *)
Lapsed(age) == {d \in Leased : lease[d].left + age < 0}

(* Mutant of ReapedStatus: the lock row goes, the status stays. *)
ReapedStatusKept(age) == status

(* The statuses, leases and lapse counters once those are reaped. *)
ReapedStatus(age) == Rederived(graph, status, Lapsed(age))

Without(lost) == [d \in Deliverable |-> IF d \in lost THEN NoLease ELSE lease[d]]

(* Mutant of Bump: nothing is counted. *)
BumpLost(count, D, limit) == count

(* One more for the members of D.  The code counts on without a limit; it  *)
(* only asks whether a count has reached the limit, and so the model stops *)
(* there.                                                                  *)
Bump(count, D, limit) ==
  [d \in Deliverable |->
     IF d \in D /\ count[d] < limit THEN count[d] + 1 ELSE count[d]]

(* Mutant of EndLease: the row stays. *)
EndLeaseKept(leases, d) == leases

(* A lease ends: the row goes, the status is left to the caller. *)
EndLease(leases, d) == [leases EXCEPT ![d] = NoLease]

(* save_plan_state: the lockless mark is kept only by a deliverable that   *)
(* is in progress and not leased.                                          *)
Save(st, ls, ll) ==
  /\ status' = st
  /\ lease' = ls
  /\ lockless' = {d \in ll : st[d] = "in_progress" /\ ls[d] = NoLease}

(* A call that starts execution needs a baseline: auto mode takes one,     *)
(* refuse mode fails the call.                                             *)
EnsureExecutionBaseline ==
  /\ baseline \/ ~ RefuseUnbaselined
  /\ baseline' = TRUE

-----------------------------------------------------------------------------
Init ==
  /\ graph \in ValidGraphs
  /\ status = InitialStatus(graph)
  /\ lease = [d \in Deliverable |-> NoLease]
  /\ failures = [d \in Deliverable |-> 0]
  /\ lapses = [d \in Deliverable |-> 0]
  /\ lockless = {}
  /\ baseline = FALSE

(***************************************************************************)
(* acquire_cohort: reap, trip the circuit breaker, then lease a greedy     *)
(* cohort of at most n of the deliverables in scope (the requested ids     *)
(* that pass the metadata filter).                                         *)
(***************************************************************************)
AcquireCohort(c, scope, n, ttl, age) ==
  LET reaped   == ReapedStatus(age)
      held     == Without(Lapsed(age))
      lapsed   == Bump(lapses, Lapsed(age), MaxLapses)
      poisoned == {d \in graph.ids :
                     reaped[d] = "ready" /\ failures[d] >= MaxAttempts}
      broken   == [d \in Deliverable |->
                     IF d \in poisoned THEN "failed" ELSE reaped[d]]
      ready    == {d \in scope : /\ ~ graph.manual[d]
                                 /\ Reacquirable(graph, broken, d)
                                 /\ held[d] = NoLease
                                 /\ lapsed[d] < MaxLapses}
  IN  /\ scope \subseteq graph.ids
      /\ \E cohort \in SUBSET ready :
           /\ GreedyCohort(graph, ready,
                           {d \in Deliverable : held[d] # NoLease}, n, cohort)
           /\ IF cohort = {} THEN UNCHANGED baseline
              ELSE EnsureExecutionBaseline
           /\ Save([d \in Deliverable |->
                      IF d \in cohort THEN "in_progress" ELSE broken[d]],
                   [d \in Deliverable |->
                      IF d \in cohort THEN [holder |-> c, left |-> ttl - age]
                      ELSE held[d]],
                   lockless \ cohort)
      /\ lapses' = lapsed
      /\ UNCHANGED <<graph, failures>>

(***************************************************************************)
(* mark_status.  A lease, even an expired one, must be the caller's.       *)
(***************************************************************************)
MayMark(c, d) ==
  /\ d \in graph.ids
  /\ lease[d] # NoLease => lease[d].holder = c

(* Mutant of LocklessMarkAllowed: complete work can be put back. *)
LocklessMarkUndoes(d, s) ==
  lease[d] = NoLease => status[d] # "superseded_revision"

(* Without a lease, superseded work cannot be marked at all and complete   *)
(* work only complete.                                                     *)
LocklessMarkAllowed(d, s) ==
  lease[d] = NoLease =>
    /\ status[d] # "superseded_revision"
    /\ status[d] = "complete" => s = "complete"

MarkComplete(c, d) ==
  /\ "complete" \in Marks
  /\ MayMark(c, d)
  /\ LocklessMarkAllowed(d, "complete")
  /\ EnsureExecutionBaseline
  /\ \/ /\ lease[d] = NoLease /\ status[d] = "complete"
        /\ UNCHANGED <<status, lease, lockless>>
     \/ /\ lease[d] = NoLease =>
             status[d] # "complete" /\ PrereqsComplete(graph, status, d)
        /\ Save(Completed(graph, status, d), EndLease(lease, d), lockless \ {d})
  /\ UNCHANGED <<graph, failures, lapses>>

(* Mutant of MarkFailed: failed work is charged again. *)
MarkFailedTwice(c, d) ==
  /\ "failed" \in Marks
  /\ MayMark(c, d)
  /\ LocklessMarkAllowed(d, "failed")
  /\ failures' = Bump(failures, {d}, MaxAttempts)
  /\ Save([status EXCEPT ![d] = "failed"], EndLease(lease, d), lockless \ {d})
  /\ UNCHANGED <<graph, lapses, baseline>>

MarkFailed(c, d) ==
  /\ "failed" \in Marks
  /\ MayMark(c, d)
  /\ LocklessMarkAllowed(d, "failed")
  /\ failures' = IF status[d] = "failed" THEN failures
                 ELSE Bump(failures, {d}, MaxAttempts)
  /\ Save([status EXCEPT ![d] = "failed"], EndLease(lease, d), lockless \ {d})
  /\ UNCHANGED <<graph, lapses, baseline>>

(* Every other mark keeps the lease of a holder. *)
MarkOpen(c, d, s) ==
  /\ s \in Marks \ {"complete", "failed"}
  /\ MayMark(c, d)
  /\ LocklessMarkAllowed(d, s)
  /\ lease[d] = NoLease /\ s \in {"ready", "in_progress"} =>
       PrereqsComplete(graph, status, d)
  /\ IF s = "in_progress" THEN EnsureExecutionBaseline ELSE UNCHANGED baseline
  /\ Save([status EXCEPT ![d] = s], lease,
          IF s = "in_progress" /\ lease[d] = NoLease
          THEN lockless \cup {d} ELSE lockless \ {d})
  /\ UNCHANGED <<graph, failures, lapses>>

(* The holder extends its lease, unless it has already expired.  Without   *)
(* an explicit ttl a heartbeat never shortens the lease.                   *)
Heartbeat(c, d, left) ==
  /\ d \in Leased
  /\ lease[d].holder = c
  /\ lease' = [lease EXCEPT ![d].left = left]
  /\ UNCHANGED <<graph, status, failures, lapses, lockless, baseline>>

(* Mutant of HeartbeatExplicit: the ttl is added to the old expiry. *)
HeartbeatAdding(c, d, ttl, age) ==
  /\ d \notin Lapsed(age)
  /\ d \in Leased
  /\ Heartbeat(c, d, lease[d].left + ttl)

HeartbeatExplicit(c, d, ttl, age) ==
  /\ d \notin Lapsed(age)
  /\ Heartbeat(c, d, ttl - age)

HeartbeatDefault(c, d, age) ==
  /\ d \notin Lapsed(age)
  /\ d \in Leased
  /\ Heartbeat(c, d, IF lease[d].left > DefaultTtl - age THEN lease[d].left
                     ELSE DefaultTtl - age)

(***************************************************************************)
(* accept: an operator records that d is done.  Expired leases are reaped  *)
(* first, also when d is already complete; a live one must be overridden.  *)
(***************************************************************************)
Accept(d, override, age) ==
  LET reaped == ReapedStatus(age)
      held   == Without(Lapsed(age))
  IN  /\ d \in graph.ids
      /\ \/ /\ reaped[d] = "complete"
            /\ Save(reaped, held, lockless)
         \/ /\ reaped[d] # "complete"
            /\ held[d] # NoLease => override
            /\ PrereqsComplete(graph, reaped, d)
            /\ Save(Completed(graph, reaped, d), EndLease(held, d), lockless)
      /\ lapses' = Bump(lapses, Lapsed(age), MaxLapses)
      /\ UNCHANGED <<graph, failures, baseline>>

(***************************************************************************)
(* force_release: an operator ends d's lease, whoever holds it, and may    *)
(* clear d's counters, which also revives it when it is failed.            *)
(***************************************************************************)
ForceRelease(d, reset) ==
  LET released == IF d \in Leased THEN [status EXCEPT ![d] = "ready"]
                  ELSE status
      zeroed(count) == IF reset THEN [count EXCEPT ![d] = 0] ELSE count
  IN  /\ d \in graph.ids
      /\ Save(IF reset /\ released[d] = "failed"
              THEN Rederived(graph, released, {d}) ELSE released,
              EndLease(lease, d), lockless)
      /\ failures' = zeroed(failures)
      /\ lapses' = zeroed(lapses)
      /\ UNCHANGED <<graph, baseline>>

(***************************************************************************)
(* revise (src/src/portfolio.rs) with plan_revision: the plan moves to     *)
(* graph new with the progress that can be carried over.                   *)
(***************************************************************************)
Revise(new, force, age) ==
  LET reaped   == ReapedStatus(age)
      live     == Leased \ Lapsed(age)
      lapsed   == Bump(lapses, Lapsed(age), MaxLapses)
      carried  == (live \cap new.ids) \ Superseded(graph, new, reaped, live)
      revised  == RevisedStatus(graph, new, reaped, live)
      kept(count) == [d \in Deliverable |->
                        IF d \in new.ids THEN count[d] ELSE 0]
  IN  /\ new \in ValidGraphs
      /\ ~ SameGraph(graph, new)
      /\ force \/ Undisturbing(graph, new, reaped, live)
      /\ \E evictor \in [carried -> carried \cup {NoBarrier}] :
           LET released == {d \in carried : evictor[d] # NoBarrier}
           IN  /\ Evictions(graph, new, carried, evictor)
               /\ Save(Rederived(new, revised, released),
                       Without(Deliverable \ (carried \ released)),
                       lockless \cap new.ids)
      /\ graph' = new
      /\ failures' = kept(failures)
      /\ lapses' = kept(lapsed)
      /\ UNCHANGED baseline

(***************************************************************************)
(* quarantine_expired (src/src/plan_store.rs), on every open of the store: *)
(* expired leases and orphans (in progress, neither leased nor lockless)   *)
(* count as lapses and their statuses are re-derived.                      *)
(***************************************************************************)
Orphans == {d \in graph.ids : /\ status[d] = "in_progress"
                              /\ d \notin lockless
                              /\ lease[d] = NoLease}

Sweep(age) ==
  LET lost == Lapsed(age) \cup Orphans
  IN  /\ Save(Rederived(graph, status, lost), Without(lost), lockless \ lost)
      /\ lapses' = Bump(lapses, lost, MaxLapses)
      /\ UNCHANGED <<graph, failures, baseline>>

(* plan.baseline: the coordinator freezes the schedule. *)
TakeBaseline ==
  /\ baseline' = TRUE
  /\ UNCHANGED <<graph, status, lease, failures, lapses, lockless>>

(* Time passes.  Once a lease is expired for every timestamp it makes no   *)
(* difference how long ago it expired.                                     *)
Tick ==
  /\ lease' = [d \in Deliverable |->
                 IF lease[d] = NoLease \/ lease[d].left = -1 - MaxAge
                 THEN lease[d] ELSE [lease[d] EXCEPT !.left = @ - 1]]
  /\ UNCHANGED <<graph, status, failures, lapses, lockless, baseline>>

-----------------------------------------------------------------------------
CallerStep(c) ==
  \/ \E scope \in Scopes, n \in Counts,
        ttl \in Ttls, age \in Ages : AcquireCohort(c, scope, n, ttl, age)
  \/ \E d \in Deliverable :
       \/ MarkComplete(c, d)
       \/ MarkFailed(c, d)
       \/ \E s \in Marks : MarkOpen(c, d, s)
       \/ \E ttl \in Ttls, age \in Ages : HeartbeatExplicit(c, d, ttl, age)
       \/ \E age \in Ages : HeartbeatDefault(c, d, age)

OperatorStep ==
  \/ \E d \in Deliverable, override \in BOOLEAN, age \in Ages :
       Accept(d, override, age)
  \/ \E d \in Deliverable, reset \in BOOLEAN : ForceRelease(d, reset)
  \/ \E new \in Graphs, force \in BOOLEAN, age \in Ages :
       Revise(new, force, age)
  \/ \E age \in Ages : Sweep(age)
  \/ TakeBaseline

Next == (\E c \in Caller : CallerStep(c)) \/ OperatorStep \/ Tick

Spec == Init /\ [][Next]_vars

-----------------------------------------------------------------------------
(* Safety *)

(* Two leases held at once never claim a path in conflicting modes, across *)
(* acquires by different processes, reaping, forced releases and revisions *)
(* that change owned_files under a lease (acquire_cohort, plan_revision).  *)
FileExclusion ==
  \A d, e \in Leased : d # e => ~ FilesClash(graph, d, e)

(* Leased work is unfinished work of the current graph: no operation       *)
(* leaves a lease behind on a deliverable that is complete, failed,        *)
(* superseded or gone (complete_deliverable, plan_revision, reap_expired). *)
LeaseStatus ==
  \A d \in Leased : /\ d \in graph.ids
                    /\ status[d] \in {"pending", "ready", "in_progress"}

(* Work in progress always has someone behind it: a lease, or the lockless *)
(* mark that keeps the sweep from resetting it (save_plan_state,           *)
(* quarantine_expired).                                                    *)
NoOrphans == Orphans = {}

(* Nothing is leased or in progress before the plan has the baseline its   *)
(* earned value is measured against (ensure_execution_baseline).           *)
BaselineFirst ==
  Leased \cup {d \in graph.ids : status[d] = "in_progress"} # {} => baseline

(* Nor is anything completed, but by an operator's accept, which asks for  *)
(* no baseline (mark_status, accept).                                      *)
CompletedWithBaseline ==
  [][\A d \in Deliverable :
       status[d] # "complete" /\ status'[d] = "complete" =>
         \/ baseline'
         \/ \E override \in BOOLEAN, age \in Ages : Accept(d, override, age)]_vars

Live(d) == d \in Leased /\ lease[d].left >= 0

(* d's lease ends, or is taken over, in this step. *)
LosesLease(d) ==
  /\ d \in Leased
  /\ lease'[d] # NoLease => lease'[d].holder # lease[d].holder

GainsLease(d) ==
  /\ lease'[d] # NoLease
  /\ d \in Leased => lease'[d].holder # lease[d].holder

(* A lease is granted only on unfinished, unclaimed, non-manual work whose *)
(* prerequisites are complete and that is within its failure and lapse     *)
(* budgets, counting the lapse this very call has just reaped.             *)
GrantsAreSound ==
  [][\A d \in Deliverable :
       GainsLease(d) =>
         /\ PrereqsComplete(graph, status, d)
         /\ status[d] \notin {"complete", "failed"}
         /\ d \notin lockless
         /\ ~ graph.manual[d]
         /\ failures[d] < MaxAttempts
         /\ lapses'[d] < MaxLapses]_vars

EndedBy(w, d) == MarkComplete(w, d) \/ MarkFailed(w, d)

(* A live lease ends only by a mark that none but its holder can make, by  *)
(* an accept or a revision that would be refused without override or       *)
(* force, or by a force release: never by another worker, a sweep, an      *)
(* unforced revision or a call with an old timestamp (mark_status, accept, *)
(* plan_revision, reap_expired, quarantine_expired).                       *)
LiveLeaseKept ==
  [][\A d \in Deliverable :
       Live(d) /\ LosesLease(d) =>
         \/ /\ \E w \in Caller : EndedBy(w, d)
            /\ \A w \in Caller : EndedBy(w, d) => w = lease[d].holder
         \/ \E age \in Ages : Accept(d, TRUE, age) /\ ~ Accept(d, FALSE, age)
         \/ \E reset \in BOOLEAN : ForceRelease(d, reset)
         \/ graph' # graph /\ ~ \E age \in Ages : Revise(graph', FALSE, age)]_vars

(* Lockless work stays in progress until it is marked, accepted or removed *)
(* from the plan: restarts and force releases leave it alone.              *)
LocklessKept ==
  [][\A d \in lockless :
       status'[d] # "in_progress" =>
         \/ \E w \in Caller : \/ MarkComplete(w, d)
                              \/ MarkFailed(w, d)
                              \/ \E s \in Marks : MarkOpen(w, d, s)
         \/ \E override \in BOOLEAN, age \in Ages : Accept(d, override, age)
         \/ d \notin graph'.ids]_vars

(* Complete work is undone only by a revision: in particular a late holder *)
(* of an overridden lease cannot undo an accept.                           *)
CompleteIsStable ==
  [][\A d \in Deliverable :
       status[d] = "complete" /\ status'[d] # "complete"
         => graph' # graph]_vars

(* Every complete deliverable has complete prerequisites. *)
CompleteClosed ==
  \A d \in graph.ids :
    status[d] = "complete" => PrereqsComplete(graph, status, d)

(* A revision reopens transitively: it never leaves work complete on top   *)
(* of a prerequisite that it reopened, replaced or added.                  *)
RevisionKeepsOrder ==
  [][graph' # graph /\ CompleteClosed => CompleteClosed']_vars

(* Pending although every prerequisite is complete: nothing promotes it.   *)
Stranded(d) ==
  d \in graph.ids /\ status[d] = "pending" /\ PrereqsComplete(graph, status, d)

(* Only a caller's explicit pending mark strands a deliverable: reaping,   *)
(* revising, releasing and completing leave nothing waiting for a          *)
(* promotion that has already happened.                                    *)
OnlyMarksStrand ==
  [][\A d \in Deliverable :
       ~ Stranded(d) /\ Stranded(d)' =>
         \E w \in Caller : MarkOpen(w, d, "pending")]_vars

(* The two retry budgets are kept apart: a lapse is charged exactly when a *)
(* lease that had expired is reaped or swept, and a failure exactly when   *)
(* work is newly marked failed.                                            *)
Reaped(d) ==
  \E age \in Ages : /\ d \in Lapsed(age)
                    /\ \/ \E w \in Caller, scope \in Scopes \cup {graph.ids},
                              n \in Counts, ttl \in Ttls :
                            AcquireCohort(w, scope, n, ttl, age)
                       \/ \E e \in graph.ids, override \in BOOLEAN :
                            Accept(e, override, age)
                       \/ \E force \in BOOLEAN : Revise(graph', force, age)
                       \/ Sweep(age)

BudgetsKeptApart ==
  [][\A d \in graph'.ids :
       /\ lapses'[d] > lapses[d] => Reaped(d) /\ failures'[d] = failures[d]
       /\ failures'[d] > failures[d] =>
            status[d] # "failed" /\ status'[d] = "failed"]_vars

BecomesSuperseded(d) ==
  status[d] # "superseded_revision" /\ status'[d] = "superseded_revision"

LeavesSuperseded(d) ==
  status[d] = "superseded_revision" /\ status'[d] # "superseded_revision"

(* A revision that supersedes work ends its lease, and from then on only a *)
(* fresh lease, an operator's accept or another revision moves it: no late *)
(* mark of the former holder, no reaping, sweep, release, circuit breaker  *)
(* or completed prerequisite does (plan_revision, mark_status).            *)
SupersededNeedsFreshLease ==
  [][\A d \in Deliverable :
       /\ graph' # graph /\ BecomesSuperseded(d) => lease'[d] = NoLease
       /\ d \notin Leased /\ LeavesSuperseded(d) =>
            \/ GainsLease(d)
            \/ \E override \in BOOLEAN, age \in Ages : Accept(d, override, age)
            \/ graph' # graph]_vars

-----------------------------------------------------------------------------
(* What the source says of leases and statuses and the code does not keep. *)

(* plan.rs on DeliverableStatus::Ready: all prerequisites are complete.    *)
ReadyIsUnblocked ==
  \A d \in graph.ids : status[d] = "ready" => PrereqsComplete(graph, status, d)

(* revise.rs: a live lease cannot keep working against a changed           *)
(* prerequisite or exact-revision barrier.                                 *)
ChangedContractEndsLease ==
  [][\A d \in Deliverable :
       d \in Recontracted(graph, graph') /\ Live(d) => LosesLease(d)]_vars

(* planner.rs on MAX_ATTEMPTS: once that many failures are marked the next *)
(* acquire fails the deliverable instead of leasing it again.              *)
NoLeaseBeyondBudget ==
  [][\A d \in Deliverable :
       failures[d] >= MaxAttempts => ~ GainsLease(d)]_vars

-----------------------------------------------------------------------------
(* Liveness: workers that keep asking for work and may die at any point,   *)
(* and a coordinator that retries whatever failed.                         *)

Poll == \E w \in Caller, age \in Ages :
          AcquireCohort(w, graph.ids, Cardinality(Deliverable), DefaultTtl, age)

RetryNext ==
  \/ Poll
  \/ \E w \in Caller, d \in Deliverable : \/ MarkComplete(w, d)
                                         \/ MarkFailed(w, d)
                                         \/ MarkOpen(w, d, "ready")
  \/ TakeBaseline
  \/ Tick

RetrySpec == Init /\ [][RetryNext]_vars /\ WF_vars(Poll) /\ WF_vars(Tick)

(* The retry budgets bound the work: however often workers die and failed  *)
(* work is put back, from some point on nothing is leased any more.        *)
LeasingStops == <>[](Leased = {})

(* A lease whose holder has died does not block its files for ever.        *)
ExpiredLeaseIsReclaimed ==
  \A d \in Deliverable :
    (d \in Leased /\ lease[d].left < -MaxAge) ~> (d \notin Leased \/ Live(d))

=============================================================================
