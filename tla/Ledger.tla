------------------------------- MODULE Ledger -------------------------------
(***************************************************************************)
(* The earned-value ledger of a plan line (src/src/earned_value.rs,        *)
(* src/src/ev_store.rs, src/src/planner/ev.rs) on top of its portfolio:    *)
(* what every operation on a variant writes into the variant's baselines   *)
(* and actuals.  A lease is credited, in hours, when it ends, and there    *)
(* are many ways for it to end; percents are reported by marks, frozen     *)
(* when a revision removes a baselined deliverable, restarted when one     *)
(* adds it back, and copied along when another variant is selected.        *)
(*                                                                         *)
(* Here the expiry of a lease is a time, so the claims of the portfolio    *)
(* ("live", "stale") follow the clock, and a call reaps every lease that   *)
(* has expired.  Reported actual hours and evidence are stored and copied  *)
(* by the same rules as the percent and are left out.  The planned values  *)
(* of a baseline and the snapshots are left out too.                       *)
(***************************************************************************)
EXTENDS Portfolio

CONSTANTS
  Rule,          (* the earning rule of every deliverable                  *)
  Reports,       (* the percents that callers report                       *)
  NoPercent,     (* no percent is stored                                   *)
  Ttls,          (* the lifetimes a lease may be given                     *)
  MaxTime,       (* bound: the clock stops here                            *)
  MaxMoves       (* bound on the revisions, selections and baselines that *)
                 (* the coordinator asks for                               *)

ASSUME LedgerAssumption ==
  /\ Rule \in [Deliverable -> {"zero_hundred", "fifty_fifty", "weighted"}]
  /\ Reports \subseteq 0..100
  /\ NoPercent \notin 0..100
  /\ Ttls \subseteq Nat
  /\ MaxTime \in Nat
  /\ MaxMoves \in Nat

VARIABLES
  now,       (* the time, in hours                                         *)
  moves,     (* the coordinator's moves so far, for the bound              *)
  book,      (* per variant, its ledger and the times of its leases        *)
  worked,    (* history: the hours in which a lease of d ran, per variant  *)
             (* and d; a selection adds those of the carried work          *)
  blurred    (* history: what has been credited differently, see End       *)

ledgerVars == <<now, moves, book, worked, blurred>>

allVars == <<vars, ledgerVars>>

Percent == 0..100 \cup {NoPercent}

Book == [since  : [Deliverable -> 0..MaxTime],
         until  : [Deliverable -> Nat],
         leased : [Deliverable -> Nat],      (* leased_hours               *)
         pct    : [Deliverable -> Percent],  (* earned_pct                 *)
         frozen : [Deliverable -> Percent],  (* frozen_pct, set with removed_at *)
         number : Nat,                       (* of the latest baseline     *)
         rows   : SUBSET Deliverable]        (* its deliverables           *)

(* The lease of a claimed deliverable is stale once its expiry has passed. *)
ClaimsFollowClock ==
  \A v \in Variants, d \in Deliverable :
    /\ plan[v].claim[d] = "live" => now <= book[v].until[d]
    /\ plan[v].claim[d] = "stale" => book[v].until[d] < now

LedgerTypeOK ==
  /\ TypeOK
  /\ now \in 0..MaxTime
  /\ moves \in 0..MaxMoves
  /\ book \in [Variant -> Book]
  /\ worked \in [Variant -> [Deliverable -> SUBSET (1..MaxTime)]]
  /\ blurred \in [Variant -> SUBSET Deliverable]
  /\ \A v \in Variants : plan[v].baseline <=> book[v].number # 0
  /\ ClaimsFollowClock

EmptyBook ==
  [since  |-> [d \in Deliverable |-> 0],
   until  |-> [d \in Deliverable |-> 0],
   leased |-> [d \in Deliverable |-> 0],
   pct    |-> [d \in Deliverable |-> NoPercent],
   frozen |-> [d \in Deliverable |-> NoPercent],
   number |-> 0,
   rows   |-> {}]

-----------------------------------------------------------------------------
(* Entries in a book *)

(* When the lease of d is over for a call that has reaped: when it lapsed, *)
(* not when the call noticed.                                              *)
Lapse(v, d) == IF plan[v].claim[d] = "stale" THEN book[v].until[d] ELSE now

(* Mutant of ReapEnd: a lapsed lease counts until it is noticed. *)
ReapEndNoticed(v) == [d \in Deliverable |-> now]

ReapEnd(v) == [d \in Deliverable |-> Lapse(v, d)]

Without(times, ended) == [d \in Deliverable |-> IF d \in ended THEN 0 ELSE times[d]]

(* The leases of ended are over at the times end: their hours are added.   *)
Credited(bk, ended, end) ==
  [bk EXCEPT !.leased = [d \in Deliverable |->
                           IF d \in ended THEN @[d] + (end[d] - bk.since[d])
                           ELSE @[d]],
             !.since = Without(@, ended),
             !.until = Without(@, ended)]

(* The leases that end between the plans p and q.                          *)
EndedBetween(p, q) == Claimed(p) \ Claimed(q)

(* The scope of the next baseline is the graph as it is now.               *)
BuildBaseline(bk, p) == [bk EXCEPT !.number = @ + 1, !.rows = p.graph.ids]

(* The first baseline, taken when execution starts. *)
FirstBaseline(bk, p) ==
  IF p.baseline /\ bk.number = 0 THEN BuildBaseline(bk, p) ELSE bk

(* A mark may report a percent. *)
RecordReported(bk, d, report) ==
  IF report = NoPercent THEN bk ELSE [bk EXCEPT !.pct[d] = report]

(* The percent d earns under its rule, with what has been reported.        *)
EarnedPct(d, status, reported) ==
  CASE status = "complete" -> 100
    [] status # "complete" /\ Rule[d] = "zero_hundred" -> 0
    [] status # "complete" /\ Rule[d] = "fifty_fifty" ->
         IF status = "in_progress" \/ reported # NoPercent THEN 50 ELSE 0
    [] status # "complete" /\ Rule[d] = "weighted" ->
         IF reported = NoPercent THEN 0 ELSE reported

(* What the baseline row of d earns in the report on plan p. *)
RowEarns(p, bk, d) ==
  IF d \in p.graph.ids THEN EarnedPct(d, p.status[d], bk.pct[d])
  ELSE IF bk.frozen[d] = NoPercent THEN 0 ELSE bk.frozen[d]

(* Deliverables that leave the graph keep a percent each ...               *)
FreezeRemoved(bk, removed, percent) ==
  [bk EXCEPT !.frozen = [d \in Deliverable |->
                           IF d \in removed THEN percent[d] ELSE @[d]]]

(* ... and those that had been frozen and are added back start over.       *)
ReopenReadded(bk, added) ==
  LET readded == {d \in added : bk.frozen[d] # NoPercent}
      Cleared(percents) == [d \in Deliverable |->
                              IF d \in readded THEN NoPercent ELSE percents[d]]
  IN  [bk EXCEPT !.frozen = Cleared(@), !.pct = Cleared(@)]

(* Mutant of ScopeChange: the percent is looked up as reported. *)
ScopeChangeReported(bk, old, new) ==
  FreezeRemoved(ReopenReadded(bk, new.graph.ids \ old.graph.ids),
                (old.graph.ids \ new.graph.ids) \cap bk.rows, bk.pct)

(* A revision takes old, already reaped, to new: baselined deliverables    *)
(* that are removed keep what they have earned.                            *)
ScopeChange(bk, old, new) ==
  FreezeRemoved(ReopenReadded(bk, new.graph.ids \ old.graph.ids),
                (old.graph.ids \ new.graph.ids) \cap bk.rows,
                [d \in Deliverable |-> EarnedPct(d, old.status[d], bk.pct[d])])

(* A selection carries complete work along: hours add up, a percent that   *)
(* the source has wins, and the merged row is not removed.                 *)
CarryActuals(from, to, carried) ==
  [to EXCEPT
     !.leased = [d \in Deliverable |->
                   IF d \in carried THEN @[d] + from.leased[d] ELSE @[d]],
     !.pct = [d \in Deliverable |->
                IF d \in carried /\ from.pct[d] # NoPercent THEN from.pct[d]
                ELSE @[d]],
     !.frozen = [d \in Deliverable |->
                   IF d \in carried THEN NoPercent ELSE @[d]]]

-----------------------------------------------------------------------------
LedgerInit ==
  /\ Init
  /\ now = 0
  /\ moves = 0
  /\ book = [v \in Variant |-> EmptyBook]
  /\ worked = [v \in Variant |-> [d \in Deliverable |-> {}]]
  /\ blurred = [v \in Variant |-> {}]

Move == moves < MaxMoves /\ moves' = moves + 1

(* The plan of v becomes p and its book bk. *)
Enter(v, p, bk) ==
  /\ plan' = [plan EXCEPT ![v] = p]
  /\ book' = [book EXCEPT ![v] = FirstBaseline(bk, p)]
  /\ UNCHANGED <<selected, archived, lineArchived, now, worked>>

(* A call that reaps first takes the plan of v to p. *)
AfterReaping(v, p) ==
  /\ Stale(p) = {}
  /\ UNCHANGED blurred

Reaped(v, p) == Credited(book[v], EndedBetween(plan[v], p), ReapEnd(v))

(* A call that does not reap takes the plan of v to p: the lease it ends   *)
(* counts until now, also when it had lapsed before.                       *)
End(v, p) ==
  /\ Enter(v, p, Credited(book[v], EndedBetween(plan[v], p),
                          [d \in Deliverable |-> now]))
  /\ UNCHANGED moves
  /\ blurred' = [blurred EXCEPT ![v] = @ \cup (EndedBetween(plan[v], p) \cap Stale(plan[v]))]

Submit(v, g) == Create(v, g) /\ UNCHANGED ledgerVars

(* No retry budget runs out here: the circuit breaker credits nothing.     *)
AcquireCohort(v, ttl) ==
  /\ Executable(v)
  /\ UNCHANGED moves
  /\ UNCHANGED blurred
  /\ LET reaped == Ended(plan[v], Stale(plan[v]))
     IN  \E cohort \in Cohorts(reaped) :
           /\ cohort # {} => MayExecute(reaped)
           /\ Enter(v, Grant(reaped, cohort, "live"),
                [Reaped(v, reaped) EXCEPT
                   !.since = [d \in Deliverable |-> IF d \in cohort THEN now ELSE @[d]],
                   !.until = [d \in Deliverable |->
                                IF d \in cohort THEN now + ttl ELSE @[d]]])

(* A lease that has expired is not renewed.                                *)
Heartbeat(v, d, ttl) ==
  /\ Executable(v)
  /\ d \in LiveIn(plan[v])
  /\ Enter(v, plan[v], [book[v] EXCEPT !.until[d] = now + ttl])
  /\ UNCHANGED <<moves, blurred>>

(* The marks that end a lease. *)
MarkTerminal(v) ==
  /\ Executable(v)
  /\ \E p \in MarkedComplete(plan[v]) \cup MarkedFailed(plan[v]) : End(v, p)

(* Every other mark; a percent may be reported with in_progress.           *)
MarkOpen(v, d, s, report) ==
  /\ Executable(v)
  /\ s \in Marks \ {"complete", "failed"}
  /\ report # NoPercent => s = "in_progress"
  /\ d \in Markable(plan[v])
  /\ s = "in_progress" => MayExecute(plan[v])
  /\ plan[v].claim[d] = "none" /\ s \in {"ready", "in_progress"} =>
       PrereqsComplete(plan[v].graph, plan[v].status, d)
  /\ Enter(v, MarkedAs(plan[v], d, s),
           RecordReported(book[v], d, report))
  /\ UNCHANGED <<moves, blurred>>

Accept(v) ==
  /\ Executable(v)
  /\ UNCHANGED moves
  /\ \E p \in Accepted(plan[v]) : AfterReaping(v, p) /\ Enter(v, p, Reaped(v, p))

ForceRelease(v) == Executable(v) /\ \E p \in Released(plan[v]) : End(v, p)

(* plan.baseline, over whatever baselines there are. *)
TakeBaseline(v) ==
  /\ Executable(v)
  /\ Move
  /\ Enter(v, [plan[v] EXCEPT !.baseline = TRUE],
           BuildBaseline(book[v], plan[v]))
  /\ UNCHANGED blurred

RevisePlan(v, new) ==
  /\ Move
  /\ Live(v)
  /\ ~ SameGraph(plan[v].graph, new)
  /\ \E p \in Revised(plan[v], new) :
       /\ AfterReaping(v, p)
       /\ Enter(v, p, ScopeChange(Reaped(v, p),
                                  Ended(plan[v], Stale(plan[v])), p))

(* The variant to select holds no lease (OnlyExecutableLeased).            *)
SelectVariant(v, force) ==
  LET old     == book[selected]
      left    == Ended(plan[selected], Claimed(plan[selected]))
      settled == Credited(old, Claimed(plan[selected]), ReapEnd(selected))
      carried == CarriedOver(left, plan[v])
  IN  /\ Move
      /\ Select(v, force)
      /\ plan[v].claim = [d \in Deliverable |-> "none"]
      /\ book' = [book EXCEPT
                    ![selected] = settled,
                    ![v] = FirstBaseline(CarryActuals(settled, @, carried), plan'[v])]
      /\ worked' = [worked EXCEPT
                      ![v] = [d \in Deliverable |->
                                IF d \in carried
                                THEN @[d] \cup worked[selected][d] ELSE @[d]]]
      /\ blurred' = [blurred EXCEPT
                       ![v] = @ \cup {d \in carried :
                                        \/ d \in blurred[selected]
                                        \/ worked[v][d] \cap worked[selected][d] # {}}]
      /\ UNCHANGED now

(* Archiving the line ends its leases.  It stays archived here: the rest   *)
(* of archiving (see Portfolio) touches no book.                           *)
Archive(force) ==
  /\ ArchiveLine(force)
  /\ book' = [book EXCEPT ![selected] =
                Credited(@, Claimed(plan[selected]), ReapEnd(selected))]
  /\ UNCHANGED <<now, moves, worked, blurred>>

(* A process opens the store: quarantine_expired credits what has lapsed.  *)
QuarantineExpired ==
  /\ Sweep
  /\ \A v \in Variants : Stale(plan'[v]) = {}
  /\ book' = [v \in Variant |-> IF v \in Variants
                                THEN Credited(book[v], Stale(plan[v]), ReapEnd(v))
                                ELSE book[v]]
  /\ UNCHANGED <<now, moves, worked, blurred>>

(* An hour passes. *)
Tick ==
  LET running(v) == {d \in LiveIn(plan[v]) : now < book[v].until[d]}
  IN  /\ now < MaxTime
      /\ now' = now + 1
      /\ plan' = [v \in Variant |->
                    IF v \in Variants
                    THEN [plan[v] EXCEPT !.claim =
                            [d \in Deliverable |->
                               IF d \in LiveIn(plan[v]) \ running(v)
                               THEN "stale" ELSE @[d]]]
                    ELSE NoPlan]
      /\ worked' = [v \in Variant |->
                      [d \in Deliverable |->
                         IF v \in Variants /\ d \in running(v)
                         THEN worked[v][d] \cup {now + 1} ELSE worked[v][d]]]
      /\ UNCHANGED <<selected, archived, lineArchived, moves, book, blurred>>

LedgerNext ==
  \/ \E v \in Variant :
       \/ \E g \in ValidGraphs : Submit(v, g) \/ RevisePlan(v, g)
       \/ \E ttl \in Ttls : \/ AcquireCohort(v, ttl)
                            \/ \E d \in Deliverable : Heartbeat(v, d, ttl)
       \/ MarkTerminal(v)
       \/ \E d \in Deliverable, s \in Marks, report \in Reports \cup {NoPercent} :
            MarkOpen(v, d, s, report)
       \/ Accept(v)
       \/ ForceRelease(v)
       \/ TakeBaseline(v)
       \/ \E force \in BOOLEAN : SelectVariant(v, force)
  \/ \E force \in BOOLEAN : Archive(force)
  \/ QuarantineExpired
  \/ Tick

LedgerSpec == LedgerInit /\ [][LedgerNext]_allVars

-----------------------------------------------------------------------------
(* Properties *)

(* The hours of a lease that is still held. *)
Open(v, d) ==
  IF d \in Claimed(plan[v]) THEN Lapse(v, d) - book[v].since[d] ELSE 0

(* Spend never disappears and is counted once: the hours booked on a       *)
(* deliverable, with those of its open lease, are the hours in which a     *)
(* lease of it ran, in this variant or in one its work was carried from,   *)
(* whichever call or restart ended the leases and however late.  They can  *)
(* be more only where a lease was marked or released after it had lapsed,  *)
(* or where the same work has been carried back (earned_value.rs names the *)
(* latter).                                                                *)
SpendIsExact ==
  \A v \in Variants, d \in Deliverable :
    LET spent == book[v].leased[d] + Open(v, d)
    IN  /\ Cardinality(worked[v][d]) <= spent
        /\ d \notin blurred[v] => spent = Cardinality(worked[v][d])

(* Removing scope never changes what it has earned: as long as the same    *)
(* baseline is the latest, the row of a deliverable that is not in the     *)
(* graph earns what it earned in the step before, be that in the graph or  *)
(* not (record_scope_change, carry_actuals).  Only a lease that lapsed     *)
(* before its deliverable is removed may cost it the credit for being in   *)
(* progress.                                                               *)
RemovedScopeKeepsEarned ==
  [][\A v \in Variants :
       book'[v].number = book[v].number =>
         \A d \in book[v].rows \ plan'[v].graph.ids :
           d \in Stale(plan[v]) \/
             RowEarns(plan'[v], book'[v], d) = RowEarns(plan[v], book[v], d)]_allVars

(* What is added back starts over: portfolio.rs:367 says that an id added  *)
(* back restarts its earned progress, whether it was baselined or not.     *)
ReaddedRestarts ==
  [][\A v \in Variants :
       \A d \in plan'[v].graph.ids \ plan[v].graph.ids :
         book'[v].pct[d] = NoPercent]_allVars

=============================================================================
