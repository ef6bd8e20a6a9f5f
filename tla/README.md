# TLA+ specifications of cpm-planner

cpm-planner is an MCP server that keeps plans: graphs of deliverables with
prerequisites, owned files and estimates. It computes the critical path of a
plan and hands out its deliverables to concurrent workers as *leases*. Every
server process shares one SQLite database. These modules specify what the
processes do to that shared state; TLC checks small instances of them, and TLAPS
proves the central properties for every instance.

Paths below are relative to the repository (`src/planner.rs` is the Rust file).

## The system

| Component | Source | State it keeps | Operations | Specified in |
|---|---|---|---|---|
| Plan execution | `src/planner.rs`, `src/locks.rs` | per plan: graph, statuses, locks with expiry, failure and lapse counts, lockless marks | acquire_cohort, mark_status, heartbeat, accept, force_release | `Leases`, abstractly `Execution` |
| Plan revision | `src/revise.rs` | (computes the next state of a plan) | plan_revision, called by revise | `PlanRevision` |
| Portfolio | `src/portfolio.rs` | plan lines, variants, selected variant, revision history, archive flags | sync, fork, select, archive, revise | `Portfolio`, `PlanFiles` |
| Plan store | `src/plan_store.rs` | the database file, the state receipt beside it | open (migrate, sweep, compare), transactions, refresh_receipt | `StateReceipt`, `Leases!Sweep` |
| Earned value | `src/earned_value.rs`, `src/ev_store.rs`, `src/planner/ev.rs` | baselines, reported and leased hours, snapshots | baseline, mark with actuals, measure, snapshot | `Ledger`; the execution gate also in `Leases` |
| CPM kernel | `src/algorithm.rs`, `src/graph.rs`, `src/edits.rs`, `src/task.rs`, `src/schedule.rs`, `src/drag.rs` | none | validation, edits, forward and backward pass, paths, batches, drag | `Network`, `CriticalPath` |
| Analysis | `src/resource_schedule.rs`, `src/lint.rs`, `src/simulate.rs`, ... | none | leveling, lint, simulation of edits | `Leveling`, `Linting`, `Triage` |
| Plan review | `src/review.rs`, `src/llm/` | none | candidates, questions, findings, verified proposals | `Triage`, composed in `Improvement` |
| MCP server | `src/server.rs`, `src/bin/server.rs`, `src/audit.rs` | review permits, the blocking pool, the audit sink | one request, one planner call or one analysis | `Reviews` |
| Project and plan files | `src/project.rs` | plan files in the project tree | read, create, overwrite, remove | `PlanFiles` |
| Skills installer | `src/skills.rs` | in each skills directory: the skill files, a manifest and a lock file; beside it AGENTS.md | install, uninstall | `Skills` |
| Release DAG | `src/release_dag.rs` | none | compile, lint, diff | not modelled |
| npm launcher | `npm/`, `scripts/` | download cache, its lock | resolve, download, verify | not modelled |

How they interact. A request of a worker or a coordinator reaches the MCP server,
which calls one method of the planner. A method that writes runs one
`BEGIN IMMEDIATE` transaction: load the plan, apply a closure, save, commit; an
error rolls everything back. The transaction serialises all processes, so a
planner operation is atomic *except* for three things, and these are where the
hard behaviour is:

* the clock is read before the write lock is waited for (`planner.rs:1560`), so
  an operation may act on a timestamp that is older than what it sees;
* the state receipt is read before and rewritten after the transaction
  (`plan_store.rs:272`, `:570`);
* a worker lives outside: it may die with a lease, come back after its lease has
  expired or was given away, or report on work that an operator has accepted,
  released or revised in the meantime.

Three parts share something other than the database. Plan files belong to
the user as much as to the program, and no transaction covers them: sync reads a
file before its transaction, fork writes one before its own, export compares, writes and
records. The skills installer serialises its runs by a lock file that it also
deletes. A review holds a permit while it waits for a model, in a closure that
outlives the caller who may have gone away. The analyses keep nothing: an agent
simulates a draft, has it reviewed, answers, adopts an edit and starts again, and
what can go wrong is that two of them disagree about the same graph.

What makes each component correct:

* execution: two leases never conflict on a file; work is leased only when it is
  due and within its retry budgets; a live lease is never taken from its holder
  behind the coordinator's back; accepted work stays accepted; abandoned work
  comes back to the pool, and does so a bounded number of times;
* revision: work stays complete only on top of complete work; no lease survives
  whose files now clash; a changed contract ends the lease that works against it;
* store: a restart neither loses nor disturbs work; an outside loss of the
  database is noticed, and none is reported that did not happen;
* portfolio: only the selected variant is executed; selecting another one ends
  the leases of the old one and carries over what is done, no more and no less;
  what is archived stays as it is;
* earned value: each hour of a lease is credited once, however the lease ends;
  work that leaves the graph keeps what it had earned;
* plan files: what is reported as matching matches; a refused call leaves no
  file; an edit of the user is not overwritten unseen;
* kernel and analysis: the passes agree with the longest paths; a leveled
  schedule keeps every capacity and its chain accounts for the makespan; what
  lint passes is accepted; advice, when followed, keeps its promise;
* review: the permits are neither lost nor exceeded; every call ends;
* skills: two installers do not write one directory at once; the shared files
  stay while a target needs them; the user's edits survive.

## The modules

`PlanState` - the pure part. A graph is a record of functions on deliverables; a
status function uses `Absent` for what is not in the graph. File claims are the
modes `exclusive`, `append` and `none` per path. The operators are those every
operation is built from: validation, re-derivation of a status, completion,
reacquirability and the greedy cohort. Loops of the code are stated by what
they compute: `Ancestors` is the least closed set, `GreedyCohort` says of each
candidate when the greedy loop takes it. Priority is a rank: the floating-point
computation of it is left to the kernel.

`PlanRevision` - `plan_revision` of `src/revise.rs`: which deliverables changed,
which reopen (`Reopened`, the least set closed under carried dependents), which
live leases are superseded, and which surviving leases lose a clash of files
when they claim them again in graph order (`Evictions`; the order of one
deliverable's files is left open).

`Leases` - the execution of one plan.

| Variable | In the code |
|---|---|
| `graph` | `PlanState.graph` (`plans.graph`) |
| `status` | `PlanState.statuses` |
| `lease` | `PlanState.locks`: the holder, and `left` = `expires_at` - now |
| `failures`, `lapses` | `failure_counts`, `lapse_counts` |
| `lockless` | `PlanState.lockless` |
| `baseline` | a row of `baselines` for the plan |

One action per operation: `AcquireCohort`, `MarkComplete`, `MarkFailed` and
`MarkOpen` (`mark_status` by target), `HeartbeatExplicit` and `HeartbeatDefault`,
`Accept`, `ForceRelease`, `Revise`, `Sweep` (the quarantine on every open),
`TakeBaseline`, `Tick`. Reaping is part of the operations that reap. A call that
returns an error leaves the state alone and is no action. `Bump` stops counting failures and
lapses at the limit, beyond which the code counts on and no guard can tell. `age` is how old the
operation's timestamp is when its transaction runs. `attempt_counts` is left out:
no guard reads it. Reaping in the code visits the lapsed leases one at a time and
re-derives each status as it goes; the result equals the simultaneous
`Rederived`, because a leased deliverable is never complete and re-derivation
only asks which prerequisites are. `Orphans` is empty in every reachable state
(`NoOrphans` checks it): that branch of the sweep serves databases written by
older versions or by hand.

`Execution`, `PlanService` - what execution promises of one plan. A plan is a record
(graph, statuses, a claim per deliverable, whether there is a baseline). A claim
is live or stale; who holds it, when it expires, which retry budget is spent and
the lockless mark are gone. Each operation of `Leases` has an operator here that
returns the set of its possible results, and `PlanService` is the specification whose
step is one such result. Where a budget or a clock decides in `Leases`, the
abstract operation may go either way: `Trips` fails any ready work, `Reaps` reaps
any of the stale claims, `Cohorts` are all those without a clash.

`LeasesService` - the refinement mapping from `Leases` to `PlanService`.

`Portfolio` - one plan line. Every variant is a plan of `Execution`, so the
interleaving of selections and archives with execution costs TLC nothing for
callers, clocks and budgets.

| Variable | In the code |
|---|---|
| `plan` | `variants.plan_id` with the `PlanState` it names, `NoPlan` before creation |
| `selected` | `plan_lines.selected_variant` |
| `archived` | `variants.archived` of each variant |
| `lineArchived` | `plan_lines.archived` |

`Create` is a sync of a new variant or a fork, `Revise` a sync of an existing one or
`revise_plan`; `Execute` is any of the calls gated by `ensure_executable`; `Select`,
`ArchiveLine`, `UnarchiveLine`, `ArchiveVariant` and `UnarchiveVariant` are
`select_variant` and the cases of `archive`. `Sweep` and `Expire` pass no gate. The loop of
`carry_progress` that takes carried completions back until nothing changes is
stated as the greatest set that stands on itself (`CarriedOver`). The counters that
`carry_progress` merges are budgets and so not in the abstract plan; that they are
nonempty is the choice `history` in `Select`.

`StateReceipt` - opening the database file and the sidecar receipt, in the steps
in which the code does it, with crashes between any two. `Lose` is the
environment: while no process runs, the file is deleted, emptied or replaced by
an older copy. `acked` and `lost` are history variables: the plans whose
submission a caller was told of, and what the environment removed. `unswept`
stands for the rest of the database's content: leases that a sweep would end.

`Ledger` - the actuals of earned value, over `Portfolio`: every step of a line with the
entries it makes. `book` holds, per variant, what `plan_actuals` and the baselines hold:
the start and expiry of each lease, the hours credited, the reported percent, the percent
frozen when a deliverable was removed, and the rows of the latest baseline. `now` is the
clock. `worked` is the history of the ticks in which a lease ran, and `blurred` marks the
deliverables whose credit is known to differ (below). Each action says with `Enter`
which leases end and at what time, for each of the ways the code has: reaping credits up
to the expiry, every other end up to the call.

`PlanFiles` - the files of one line. `row` is the variant's row with its tracked hash
and its revisions, `file` the bytes on disk, `job` the call a process is in and
how far it has come: sync (read, register), fork (write, register, take back; `RegisterUnreceipted` is the commit whose receipt fails),
export (check, drift, edits, write, record), revise and archive. The user writes any file at any
time. `dirty`, `heads`, `foreign` and `overtaken` are history: the files that a user wrote and no sync has
read, the graphs that were a variant's head, the files that a user or a stopped call left, and
the rows whose hash an export recorded after the head it had read was replaced.

`Skills` - one shared skills directory. `disk` is what its files hold, `manifest` the
recorded hashes and targets, `lockfile` the inode at the lock's path and `ino` the inode that each run has open:
that a lock survives the deletion of its path is the point. A run
goes through `job` and `pc` in the order of `install` and `uninstall`: open the lock file, lock it,
compare its inode with the path's, plan against what is there, write file by file,
save the manifest, AGENTS.md, release. Any write may fail and a run
may be killed anywhere, up to `MaxFaults`; the user edits files. Of the history, `unlinked` says
that a lock file was removed while another run had it open, `cut` that a run ended
between a write and the manifest that records it.

`Reviews` - the server's concurrency. Per call: the caller's future, the
closure on the blocking pool, the outcome and its audit events; shared: the
pool's `queue`, the `waiters` for a permit, the free `slots`. A caller may be dropped at
each of its awaits, a closure may panic, the judge may answer, fail or time out.

`Network` - graphs as the analyses see them: a sequence of deliverables, so that
duplicates, unknown ids and loops can be stated; `Validate`, the edits, and the
tasks derived from them with their START and FINISH. Hours are integers (tenths where
halves occur).

`CriticalPath`, `Leveling`, `Linting`, `Triage` - pure functions of a graph: the two passes as the code
runs them (a queue; sweeps until nothing changes), the traced paths, batches,
bottlenecks and drag; serial leveling with capacities, the driving chain and feeding
buffers; every finding of lint; the candidates of a review, their order and cap,
judged answers, drafted proposals and their verification by simulation. `Triage` has three constants for what the code
reads off texts and paths: `ShortTexts` (a rationale below 24 characters), `MergeIds` (an id that contains "merge") and `MAX_DIR_DEPTH`.
`MAX_CANDIDATE_PAIRS` is out of reach of the drafts and left out; so are the `roi` of a bottleneck and the sort by it, which
no other result reads, and the width of the sum of occupied units in the driving chain (`u32`, `resource_schedule.rs:490`).

`Improvement` - the loop that composes them: the agent holds a draft and may simulate it,
ask for a review, receive any of the answers, adopt a verified proposal or make an edit of
its own. Its invariants compare each function with a definition that owes nothing to
the code: longest path over all paths, the constraints of a schedule, submission's own validation.

`MCGraphs` builds graphs from what differs from the default; the other `MC` modules are
the instances: the graphs a plan moves between, drafts, answers, symmetry sets.

`LeasesProofs` (with the lemmas on the operators of `PlanState` and `PlanRevision`, and the refinement of
`LeasesService`), `LedgerProofs` (`Portfolio` first, then `Ledger` on top of it), `KernelProofs` (`Network`,
`CriticalPath` and `Leveling`), `ImprovementProofs` (the analyses, on top of `KernelProofs`), `StateReceiptProofs`, `SkillsProofs`,
`ReviewsProofs`, `PlanFilesProofs` - theorems and proofs.

Operators named as mutants in their comments are not part of the
specifications: each is a plausible slip in the definition that follows it, which
makes some property fail, and so shows that the property depends on the code.

## What is checked

| Run | Question | Properties |
|---|---|---|
| `Leases.cfg` | Two workers, an operator and restarts on a chain of two with a shared log | `TypeOK`, `NoOrphans`, `GrantsAreSound`, `CompleteIsStable`, `BudgetsKeptApart`, `LiveLeaseKept` |
| `Revisions.cfg` | Forced and unforced revisions among seven graphs under live leases | `FileExclusion`, `LeaseStatus`, `RevisionKeepsOrder`, `OnlyMarksStrand`, `Implements` |
| `Retry.cfg` | Workers that die, fail and retry for ever | `LeasingStops`, `ExpiredLeaseIsReclaimed` |
| `Portfolio.cfg` | Two variants on three graphs: created, revised, executed, selected, archived | `OnlyExecutableLeased`, `SelectedCanExecute`, `SelectionKeepsOrder`, `SelectionKeepsProgress`, `SelectionSettles` |
| `Receipt.cfg` | Two processes open, commit and crash; the file is lost | `NoFalseLoss`, `LossStaysKnown` |
| `Ledger.cfg` | Leases of two variants end in every way the code has | `SpendIsExact`, `RemovedScopeKeepsEarned` |
| `PlanFiles.cfg` | Two processes sync, fork, export, revise and archive while a user edits | `DriftNoticed`, `FailedForkLeavesNoFile`, `UserEditsKept` |
| `Reviews.cfg` | Reviews and other analyses compete for threads and permits; callers go away, judges time out, closures panic | `JudgeCallsBounded`, `PermitsAccounted`, `EveryCallEnds` |
| `Skills.cfg` | Installers of two versions and two targets run at once, fail and die | `LockExcludes`, `SharedRootKept`, `OwnFilesRecognised`, `EditsKept` |
| `Improvement.cfg` | Drafts are linted, scheduled, leveled, reviewed and edited | `ScheduleIsExact`, `PathIsLongest`, `LevelingIsFeasible`, `ChainExplainsMakespan`, `LintFindsRefusals`, `RedundantEdgeIsRemovable`, `NoSilentEdge`, `ProposalsHold` |

Two runs state something the repository says of itself and find it violated:

| Run | Said | Done |
|---|---|---|
| `PathReachesFinish.cfg` | the critical path always runs from `__start__` to `__finish__` (`README.md:247`) | it ends at the task that finishes last, ties going to the smallest id (`algorithm.rs:473`): a zero-length sink whose id sorts before `__finish__` ends it |
| `LaggingFile.cfg` | a file that merely lags behind the head is safe to export again (`planner.rs:338`) | the hash of what an export wrote is kept only until the next revision overwrites it, so the file then matches none of the recorded hashes (`planner.rs:340`) and its export is refused as edited |

More such disagreements are stated in the modules without a run of their own. Adding
the named definition to the run's `.cfg` shows each:

| Definition (run) | Said | Done |
|---|---|---|
| `ReadyIsUnblocked` (Revisions) | a ready deliverable has all prerequisites complete (`plan.rs:404`) | `force_release` sets ready without looking (`planner.rs:2338`); `acquire_cohort` looks again, so nothing blocked is leased (`GrantsAreSound`) |
| `ChangedContractEndsLease` (Revisions) | a live lease cannot keep working against a changed prerequisite (`revise.rs:180`) | it can when its holder has marked the work ready or pending, which keeps the lease (`revise.rs:190`) |
| `NoLeaseBeyondBudget` (Revisions, with `failed` and `superseded_revision` among the marks) | the circuit breaker stops leasing after `MAX_ATTEMPTS` (`planner.rs:72`) | failed work marked `superseded_revision` is leased again (`planner.rs:1626`) |
| `LossIsRefused`, `KnownStaysKnown` (Receipt) | a lost known plan is refused (`CHANGELOG.md:49`) | after a failed receipt write the retry is answered without one (`plan_store.rs:556`); of two concurrent receipt writes the older list may land last (`plan_store.rs:372`) |
| `RefusedUnmutated` (Receipt) | a refused startup does not mutate the database (`README.md:423`) | it migrates and sweeps first (`plan_store.rs:273`) |
| `OneWriter` (Skills, `MaxFaults = 0`) | one run at a time per directory (`skills.rs:18`) | the lock's drop releases, then deletes the path, which by then may be another run's lock file (`skills.rs:669`); `LockExcludes` therefore excludes that window by name |
| `ReaddedRestarts` (Ledger, `MaxMoves = 3`) | an id added back restarts its earned progress (`portfolio.rs:367`) | its reported percent stays unless it was baselined when it was removed (`ev_store.rs:243`) |
| `ExportMatchesHead` (PlanFiles) | after an export the file matches the head (`planner.rs:1394`) | a revision during the export makes it the previous head, whose hash is then recorded for the new one |
| `TakenBackIsUnregistered` (PlanFiles) | the fork whose file is taken back was never registered (`planner.rs:1342`) | `write_tx` also fails when the commit stands and the receipt cannot be refreshed (`plan_store.rs:707`): the file of a registered variant is removed, and its row keeps naming it |
| `StartGatewayBlocks` (Improvement) | a start of no effort never propagates, its successors keep `EF = 0` and are all non-critical (a note in the tests, `drag.rs:153`, again at 241) | stale: `forward_pass` locks in the finish of every task it frees (`algorithm.rs:203`), and `ScheduleIsExact` holds with `__start__` of length zero |
| `LintFindsEveryRefusal` (Improvement) | lint reports every rule of a submission (`lint.rs:3`) | a barrier that is no prerequisite is refused by a submission and not reported; `LintFindsRefusals` therefore leaves barriers out by name |

`StateReceipt` also shows that a second process starting on a fresh machine may find
the empty file that the first has just created and be refused, although
`docs/architecture.md:203` says of the migrations that concurrent openers serialise.

The modules made other behaviour visible that the repository does not promise
otherwise, and that a maintainer should know of:

* A fork whose registration fails removes the file it wrote even if another process has
  registered that file by a sync meanwhile, or if the fork itself is committed and only the receipt failed; a process killed between the write and the
  registration leaves a file that refuses later forks of that name.
* A lease that has lapsed unnoticed and is then ended by a late mark counts up to the
  mark (`blurred`), although `README.md:246` has a lapsed lease count up to its expiry. Selecting
  back and forth between two variants carries the hours of shared work twice.
* Removing in-progress work under the fifty-fifty rule in the same revision that reaps its lapsed
  lease freezes it at nothing.
* An install that finds only files of the user removes the manifest, and with it the record that
  a target was installed. A process killed before it saves the manifest leaves files
  that later runs take for the user's (`cut`).
* Drag is an upper bound of what shortening saves, not the saving (`drag.rs:5`); proposals of a
  review are verified one at a time, so two of them need not hold together;
  removing a redundant edge that has a lag changes the schedule.
* The outcome of a dropped caller is not audited, although `server.rs:2283` says that every
  outcome but a panic or bad parameters is.

### Bounds

* `Leases`, `Revisions`, `Retry`. Three deliverables, two in the chain: three are the least number with a
  transitive dependent, an independent deliverable that shares a file, and a
  prerequisite that can move. Time is `DefaultTtl`, `MaxTtl` and `MaxAge` of one tick: a lease is then fresh, at
  its last moment, or expired; a timestamp is current or stale; `Tick` stops
  counting once a lease is expired for every timestamp. `MaxAttempts` is 2 in `Leases.cfg`, so that a failure is charged below the limit;
  the code's limits (3 and 10) only move the point at which the same guard bites.
  Two workers suffice for all the races of one deliverable: a holder and another.
  `Revisions.cfg` has one, since a revision does not look at who holds a lease. Its marks
  leave out `failed`: work fails there when it has lapsed too often, and `Leases.cfg` has the mark.
* `Portfolio`. A selection involves two variants and every other one is a
  bystander. The three graphs differ where carrying can go wrong: the same, the
  foundation redefined under unchanged dependents, and the foundation gone.
* `Receipt`. Two processes and two plans; the environment interferes once.
* `Ledger`. `MaxTime` 2 and leases of one tick: a lease can end early, at its expiry, or
  after it. `MaxMoves` 2 bounds revisions, selections and archives together: enough to remove and re-add,
  or to carry and come back. Two deliverables, one weighted and one fifty-fifty.
* `PlanFiles`. Two variants, two graphs, two processes: one call overtakes another, on the
  same file or on a different one. Four calls allow a fork, two overlapping exports and a revision;
  three edits: one that is read, one that is not, and a deletion. Five calls with two edits (1.8 million states) hold as well.
* `Reviews`. Three calls for one permit and two threads: one holds, one waits for the permit on
  the other thread, one waits for a thread. One fault per behaviour.
* `Skills`. Three commands in two processes: a first install, and two that overlap. Two versions, of which the second embeds
  a file less; two inodes: the lock file at the path is put there by a run that has it open, and whoever removes
  one has closed it by then, so two runs never have more than two inodes between them and the path. One fault.
* `Improvement`. Four kinds of drafts: all networks of four deliverables in two orders of ids, with lengths of zero or one, which makes ties
  and zero-length tasks, networks that contend for two pools, ill-formed drafts (loops, duplicates,
  values out of range), and plans for two rounds of review and edits.

### Fairness

`RetrySpec` assumes weak fairness of `Poll` (some worker keeps asking for a cohort
of the whole plan) and of `Tick`. The first is what the driver loop of the
shipped skills does, the second is a clock. Nothing is assumed of workers
that hold a lease: they may never report. Under that, leasing stops for good,
because every lease that ends without completion is charged to one of two
budgets, and an expired lease is always reclaimed. `RetryNext` has no operator
that resets budgets, since that renews the work by design.

`Reviews!Spec` assumes weak fairness of each call's own steps: of its future, which the runtime polls, of
its closure, which is a thread, and with it of the timer of the judge's request. It does not assume
that a judge answers: without the timeout a call would never end.

## What is proved

TLAPS checks these for every number of workers, deliverables, files, graphs, processes, variants,
calls, permits and inodes, from the named assumptions of the modules only. Those say what the code's
types do (graphs are graphs, marks are statuses, bounds are numbers) and that the values which stand for "nothing"
(`NoPlan`, `NoRow`, `NoFile`, `Idle`, `None`, ...) are different from anything. Of the analyses: ids are numbers, `FINISH` and
`START` are two of them in that order (`NetworkAssumption`), and a draft and an edit have the fields the file format gives
them (`ImprovementAssumption`: `IsGraph` and `IsEdit`, which say nothing of the values but that claims are finitely many pools with numbers,
so that ill-formed drafts are included), capacities are numbers (`IsClaims`);
a judge's probability is a percentage or missing. Every safety and action property that a run
checks of `Leases`, `Portfolio`, `Ledger`, `StateReceipt`, `PlanFiles`, `Reviews` and `Skills` is a theorem, and of those of
`Improvement`.

### Execution (`LeasesProofs`)

* `TypeCorrect` - `TypeOK` and that the plan's graph is always a valid one. The content is in the bounds: a lease
  never has more left than the longest ttl nor less than the clock's staleness, and no sequence of revisions leaves an ill-formed graph.
  Of the counters it says only that they are numbers within the model's limit, which `Bump` sees to.
* `FilesExcluded` - `FileExclusion`. The inductive invariant is `LeaseInv`: the types, a valid graph, and exclusion
  itself. Three steps disturb it: an acquire (the greedy cohort is pairwise without clashes and clear of what is
  held, `GreedyCohort`), and a revision, where exclusion is re-established from nothing by
  `Evictions`, since the new graph may give the surviving leases any files. Every other step only shrinks the set of leases.
* `WorkHasOwner` - `NoOrphans`. A save derives the lockless marks from the statuses and leases it
  stores, so whoever saves leaves no orphan (`SavedOrphans`); what is left is that every action that ends a lease saves, that a
  heartbeat and the clock end none, and that a revision re-derives what it ends.
* `CompletionStable` - `CompleteIsStable`, by `CompleteInv`: complete work has no lease, so no
  report, expiry or sweep can reach it.
* `RevisionOrder` - `RevisionKeepsOrder`: `Reopened` is closed under carried dependents, so a
  complete deliverable that is kept has no reopened prerequisite.
* `BaselineBeforeWork` - the execution gate: `BaselineFirst` (work that is leased or in progress has a baseline) and
  `CompletedWithBaseline` (nothing is completed without one but by an operator's accept, which asks for none). The inductive
  `HeldHasBaseline` says it of leases and lockless marks, one of which work in progress always has (`NoOrphans`).
* `SupersededStays` - `SupersededNeedsFreshLease`: a revision that supersedes work ends its lease, and superseded work without a lease is moved only
  by a fresh lease, an accept or another revision. Work that its holder itself marks superseded is leased still, and its holder may move it.
* `LeasesAreOpen` (`LeaseStatus`), `GrantsSound` (`GrantsAreSound`) - under the hypothesis that
  `"superseded_revision" \notin Marks`. The code lets a caller mark leased work `superseded_revision` with
  the lease kept, and also failed work, which is then leased again beyond its budget: without the hypothesis both are
  false, with it they are inductive together with the budgets (`BudgetInv`): what is leased or superseded
  has attempts left, because it was granted with some and a failure ends the lease. The runs of both properties
  leave `superseded_revision` out of their `Marks`, so both are instances of the hypothesis.
  `LeasedIsOpen` is what remains without the hypothesis: leased work is in the graph and never complete.
* `LiveLeasesKept` (`LiveLeaseKept`), `NothingStranded` (`OnlyMarksStrand`), `BudgetsApart`
  (`BudgetsKeptApart`) - one lemma per action says what it does to the lease, the readiness and the two counters of one deliverable.
  Stranding needs a case for each way a prerequisite can become complete: `Completed` promotes its dependents, and
  every other step that touches them re-derives them against the statuses after the step.
* `ImplementsService` - `Implements`. Initial states map to initial states (`InitMaps`), and each action maps to
  the operator of `Execution` of the same name: a concrete reap is one of `Reaps` since what has expired at
  an old timestamp is among the stale; the breaker is one of `Trips`; the greedy cohort is one of `Cohorts`; an
  acquire whose ttl is below the staleness of its timestamp grants stale claims. The proof
  needs `NoOrphans`, because a sweep that found an orphan would have no abstract counterpart.

### Plan lines and earned value (`LedgerProofs`)

* `LeasesCanReport` and `LineCanExecute` - `OnlyExecutableLeased` and
  `SelectedCanExecute`. They are inductive only together (`PortfolioInv`): that a
  selection clears the leases of the line needs that they were all on the
  selected plan, and that the selected variant exists. Only `Executed` can add a claim: reaping, expiry, revision
  and carrying never do (the lemmas named after their operators).
* `LineTypes` - `TypeOK`. That statuses and leases are those of the plan's own graph is no property of the line's types:
  it is part of the invariant `PlansInv` of every plan (a valid graph, no lease on complete work, `Whole`),
  which every operation of `Execution` is shown to keep.
* `SelectionOrder` - `SelectionKeepsOrder`. A carried completion stands on
  a set of carried ones (`CarriedOver`), a completion of the plan's own on what
  was complete already, and re-derivation touches neither.
* `SelectionCarries` - `SelectionKeepsProgress`. `CarriedOver` is the greatest set that stands on itself, so it is enough to
  exhibit one: the work whose foundation was finished in the variant left behind stands on itself, since the foundation of a
  prerequisite is part of the foundation (`FoundationClosed`), and is neither complete nor claimed otherwise.
* `SelectionLeavesNothingWaiting` (`SelectionSettles`), `SelectionTakesBaseline`, `ArchivedStays` (`ArchivedIsFrozen`)
  - the last two are properties of the module that no run repeats.
* `LedgerKeepsTheLine` - a ledger step is a step of `Portfolio` or none of it, so every theorem above
  holds of `LedgerSpec` too. It uses `PortfolioInv`: the clock expires leases of every variant at once, which is one
  `Expire` only because the selected variant has them all.
* `SpendExact` - `SpendIsExact`. `LedgerInv` adds to `PortfolioInv`, for each deliverable (`Fit`): the hours worked lie within
  the clock, a lease starts before it ends, a live one has not reached its expiry and a stale one has passed it,
  and what is booked with what is open is the number of hours, or at least that where a late end has blurred it. A tick adds one hour to
  the set and one to what is open; ending a lease moves what is open into the book (`CreditFits`, which `ReapedFits` and
  `EndFits` use, one for each way a lease ends; `TickFits` is the hour); a selection carries the book with the work.
* `RemovedKeepsEarned` - `RemovedScopeKeepsEarned`, from the same step lemma: each entry leaves percent,
  status and frozen percent of what is outside the graph alone, and a revision freezes what it takes out.
* `LedgerTypes` - `LedgerTypeOK`, with the agreement of clock, expiries and claims.

### Store, files, reviews, skills

* `StateReceiptProofs!NoFalseAlarm` - `NoFalseLoss`. The strengthening says that
  the receipt and every copy of it in a process name only committed plans
  (`NamesCommitted`), and needs that a refused process is down and that whoever
  has migrated the store has one. `ReceiptTypeCorrect` is its `TypeOK`.
* `StateReceiptProofs!LossIsRemembered` - `LossStaysKnown`, by `LossHeeded`: whoever has passed the comparison after a loss,
  other than in recover mode, found nothing lost in the receipt or saw it taken out by a recovery, and what it is about to
  write was collected from the database, where nothing lost is.
* `StateReceiptProofs!SoloLossRefused` - `LossIsRefused` for one call at a time with a writable
  receipt: then the receipt on disk names all that was acknowledged (`SoloInv`). With two writers or a failing
  write it does not hold (above).
* `PlanFilesProofs!DriftIsNoticed` - `DriftNoticed`. `FilesInv`: what a sync registers is what it read, an export is of a variant that has a row
  (`JobsFit`), and a recorded hash is that of the head unless its export was overtaken (`HashOfHead`). `FilesTypeCorrect` is its `TypeOK`.
* `PlanFilesProofs!ForksTakeTheirFilesBack` (`FailedForkLeavesNoFile`), `EditsAreKept` (`UserEditsKept`) - by `CareInv`: each stray
  file is foreign or belongs to one fork in progress whose bytes are still there, every recorded hash
  is that of a graph that was the head, and a call at its write or removal has looked at bytes that were one.
* `SkillsProofs!InstallersExcluded` - `LockExcludes`. The inductive `LockInv` says that no two runs hold the lock of the same inode, that
  whoever waits for or holds a lock has a file open, and that this file is the one at the path unless one was removed
  under a run: two holders then have the same inode, and so are one.
* `SkillsProofs!EditsAreKept` (`EditsKept`), `OwnFilesAreRecognised` (`OwnFilesRecognised`), `SharedRootIsKept`
  (`SharedRootKept`) - each by an invariant of the runs between plan and save, which the lock keeps apart from one another:
  `EditInv` (a plan touches a user's file only if forced, or if the file was written after the plan), `OwnInv` (the manifest a run is
  about to save has every file of the installer's), `SharedInv` (an installed target is in it, and its files are there or about
  to be written). `InstallerTypes` is its `TypeOK`.
* `ReviewsProofs!PermitsNeverLost`, `JudgeBounded` - free permits and holders add up to the constant after any panic,
  timeout or drop. The invariant (`ReviewInv`) also orders a call's stages, so that no call is queued twice or waits for a
  permit it holds; the sum is carried by the cardinality of the set of holders.

### Kernel and analyses (`KernelProofs`, `ImprovementProofs`)

What a recursive function computes is proved in two parts. A function defined by recursion is a `CHOOSE`, so first a lemma
says that some function satisfies the equation (the lemmas named `...Unfolds`: one is built up step by step, by `Upward`, the induction on numbers
that `NatLessThanWellFounded` gives without an operator for a parameter). Then what it computes is shown by the same induction, or by
induction along a rank (`Upwards`).

* `ForwardIs`, `BackwardIs`, `CalculateIs` - for every network that is `Sound` (there is a rank that grows along dependencies; lengths and
  lags are numbers), the queue of the forward pass and the sweeps of the backward pass compute the longest chains. The forward
  invariant (`Forward`) says that what is out is out in topological order with its exact hours, that `left` counts the dependencies
  that are not, and that the queue holds exactly what is freed; the backward pass needs one sweep in that order (`SweepIsExact`), whatever
  starts it is given that are not too early.
* `PathIs`, `MilestoneRowIs` - a trace back over tight dependencies is a chain from the start whose hours add up (`Traced`).
* `DragIs` - a drag is never less than the saving: what starts before `x` could finish gains nothing from it, and what lies beside it is held by
  its float (`CrashedSaves`).
* `ValidIsPlannable`, `ScheduleIs` - a graph that a submission accepts is such a network: what Kahn's algorithm pops has a depth, and the limits on hours
  and deliverables keep all sums below the value that stands for no deadline.
* `ScheduleIsExactHolds`, `PathIsLongestHolds`, `ProposalsHoldAlways`, `NoSilentEdgeHolds`, `RedundantEdgeIsRemovableHolds`,
  `LintFindsRefusalsHolds` - the properties of `Improvement`, from the invariant `Current`: what the agent holds (findings, simulation, questions, answers,
  report) was computed from the draft, and the draft is a graph. It is inductive because an edit leaves a graph (`EditedIsGraph`)
  and whatever replaces the draft forgets the rest.
  - A verified draft is simulated on the edited graph, so a proposal saves what it says; that the edit leaves efforts alone is `EffortKept`.
  - The questions that are asked come from `FlattenSeq` over the rounds; an edge left unmentioned was answered on both sides.
  - Reachability is the least set closed under dependents (`ReachClosed`, `ReachLeast`); an edge whose prerequisite is reached another way
    can go (`RedundantRemoved`), and what is reached is later, so the edge sets no start unless it has a lag (`RedundantSchedule`).
  - Lint's errors and the rules of a submission are the same rules in other words, but for loops, where lint
    searches depth first and a submission runs Kahn's algorithm. `PoppedHasNoCycle`: the nodes on the search's path have falling depths, so no edge leads back
    into it. `NoCycleIsPopped`: while no loop is found, the `k`-th id that the search closes is among the first `k` turns of Kahn's
    (`Covered`), and in `2 * nodes + edges` visits the search closes every id, because each visit adds to the
    ids that are closed, those that were opened, or the edges followed (`Measure`).

  - A leveled plan is a placement, and its chain a driving chain, as below (`LevelIs`); what `LevelingIsFeasibleHolds` and
    `ChainExplainsMakespanHolds` say of it follows from `PrecedenceHolds`, `RunningFits`, `LinksAre` and `WithoutContention`.

Leveling, also in `KernelProofs`, for every graph that is `Levelable` (there is a rank that grows along dependencies, no claim is
larger than its pool; `NodesAre`: what a submission accepts and `Schedulable` lets through is such a graph):

* `PlacedIs` - the scheduler's loop places every node, and keeps the invariant `Under`. It has three parts. `Placing`: who is placed
  starts after its dependencies. `Held`: there is an assignment of units to the nodes placed, so that each has as many as it claims, two
  nodes with a unit in common do not overlap, and a unit is free from the last finish among its holders. The code keeps only the times
  at which units become free; who holds which unit is what the proof adds. `Explained`, with `Waiting`: a start is 0, or the finish and lag of a
  dependency, or a node lacked idle units of a pool at that time and one of its holders gives a unit back then. `Waiting` says it of the
  candidates, and is needed because one node's start is explained by what was placed since it was ready; it holds because
  starts never decrease (`NoneGoesBack`): the earliest candidate goes first, so later ones only become later.
* `RunningFits` - nodes at work hold disjoint sets of units, so together they claim no more than the pool has.
* `LackIsFull` - the driving chain does not know the units: it adds up the claims of all who started before a node and finish no sooner than it starts, and
  calls the pool full when the sum with the node's own claim exceeds the capacity. A pool with too few idle units is full by that
  count, even though a holder and its successor on one unit may both be counted, and though a pool may have fewer units than its capacity
  (the code allocates no more than all work together claims: then nothing ever lacks).
* `DrivingChainIs`, `LinksAre` - each link back is to an earlier start, or the same start and a smaller rank (`Earlier`), so no node occurs twice and the
  chain reaches its beginning within as many steps as there are nodes (`ChainIsShort`).
* `StartsAreLate`, `WithoutContention` - the makespan is at least the longest chain of the kernel, and equal to it when no link waited for units.

Model-checked only: liveness (`LeasingStops`, `ExpiredLeaseIsReclaimed`, `EveryCallEnds`), which is beyond the
prover.

## Plan

1. The loops of `acquire_cohort`, `plan_revision` and reachability as recursive functions, checked equal to
   `GreedyCohort`, `Evictions`, `Reopened` and `Ancestors` over all small graphs.
2. Unnamed plans with the dedup map of submissions; `Counters` of `carry_progress`.
3. Feeding buffers: that each is the heaviest chain that joins, and the load of a pool its busy unit-hours.

## Not modelled, and why

* Floating point: priorities, earned-value indices, PERT estimates. Lengths are
  integers; where only an order matters the modules take the rank as given.
* Monte Carlo, comparison, metrics, network health and risk: reports over one
  graph, without a protocol.
* Of earned value: evidence, reported hours, planned value, snapshots and alerts.
* The release DAG: a compiler without state. The npm launcher: a cache of one
  download per version.
* Discovery of the project root and confinement of paths: checks of the file system.
* Unnamed plans and the dedup of submissions.
* What the judge answers, HTTP, SQLite itself: external. SQLite's
  immediate transactions are taken to be atomic, isolated and durable.
* Data of old schemas: a migration is one step in `StateReceipt`.
