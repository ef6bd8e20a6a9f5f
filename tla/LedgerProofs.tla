----------------------------- MODULE LedgerProofs -----------------------------
(***************************************************************************)
(* What holds of a plan line and of its earned-value ledger for any number *)
(* of variants, for every set of deliverables, graphs, rules, reported     *)
(* percents and lease lengths, in either baseline mode, and however long   *)
(* the clock runs.                                                         *)
(***************************************************************************)
EXTENDS Ledger, FiniteSetTheorems, TLAPS

-----------------------------------------------------------------------------
(* Plans: what the operators of PlanState and PlanRevision return *)

LEMMA RederivedType ==
  ASSUME NEW g, NEW st \in [Deliverable -> Status \cup {Absent}], NEW lost
  PROVE  Rederived(g, st, lost) \in [Deliverable -> Status \cup {Absent}]
  BY DEF Rederived, Rederive, Status

LEMMA CompletedType ==
  ASSUME NEW g, NEW st \in [Deliverable -> Status \cup {Absent}],
         NEW d \in Deliverable
  PROVE  Completed(g, st, d) \in [Deliverable -> Status \cup {Absent}]
  BY DEF Completed, Status

LEMMA RevisedStatusType ==
  ASSUME NEW old, NEW new, NEW live,
         NEW st \in [Deliverable -> Status \cup {Absent}]
  PROVE  RevisedStatus(old, new, st, live)
           \in [Deliverable -> Status \cup {Absent}]
  BY DEF RevisedStatus, Status

LEMMA InitialStatusType ==
  ASSUME NEW g
  PROVE  InitialStatus(g) \in [Deliverable -> Status \cup {Absent}]
  BY DEF InitialStatus, Status

-----------------------------------------------------------------------------
(* The line: selection and leases *)

(* What every operation of Execution returns: a plan again, and no lease   *)
(* that only an acquire could have granted.                                *)

LEMMA NewPlanType ==
  ASSUME NEW g \in Graphs
  PROVE  NewPlan(g) \in Plan /\ Claimed(NewPlan(g)) = {}
  <1>1. InitialStatus(g) \in [Deliverable -> Status \cup {Absent}]
    BY InitialStatusType
  <1>2. QED
    BY <1>1 DEF NewPlan, Plan, Claim, Claimed

(* Ending leases. *)
LEMMA EndedPlan ==
  ASSUME NEW p \in Plan, NEW lost
  PROVE  /\ Ended(p, lost) \in Plan
         /\ Claimed(Ended(p, lost)) = Claimed(p) \ lost
  <1>1. p.status \in [Deliverable -> Status \cup {Absent}]
        /\ p.claim \in [Deliverable -> Claim]
    BY DEF Plan
  <1>2. Rederived(p.graph, p.status, lost) \in [Deliverable -> Status \cup {Absent}]
    BY <1>1, RederivedType
  <1>3. [d \in Deliverable |-> IF d \in lost THEN "none" ELSE p.claim[d]]
          \in [Deliverable -> Claim]
    BY <1>1 DEF Claim
  <1>4. Ended(p, lost).claim
          = [d \in Deliverable |-> IF d \in lost THEN "none" ELSE p.claim[d]]
    BY DEF Ended, Plan
  <1>5. Ended(p, lost) \in Plan
    BY <1>2, <1>3 DEF Ended, Plan
  <1>6. Claimed(Ended(p, lost)) = Claimed(p) \ lost
    BY <1>4 DEF Claimed
  <1>7. QED
    BY <1>5, <1>6

LEMMA ReapsPlan ==
  ASSUME NEW p \in Plan, NEW q \in Reaps(p)
  PROVE  q \in Plan /\ Claimed(q) \subseteq Claimed(p)
  BY EndedPlan DEF Reaps

(* Leases expire where they are. *)
LEMMA ExpiredPlan ==
  ASSUME NEW p \in Plan, NEW q \in Expired(p)
  PROVE  q \in Plan /\ Claimed(q) \subseteq Claimed(p)
  <1>1. PICK D \in SUBSET LiveIn(p) :
          q = [p EXCEPT !.claim = [d \in Deliverable |->
                                     IF d \in D THEN "stale" ELSE p.claim[d]]]
    BY DEF Expired
  <1>2. p.claim \in [Deliverable -> Claim]
    BY DEF Plan
  <1>3. [d \in Deliverable |-> IF d \in D THEN "stale" ELSE p.claim[d]]
          \in [Deliverable -> Claim]
    BY <1>2 DEF Claim
  <1>4. q \in Plan
    BY <1>1, <1>3 DEF Plan
  <1>5. q.claim = [d \in Deliverable |-> IF d \in D THEN "stale" ELSE p.claim[d]]
    BY <1>1 DEF Plan
  <1>6. Claimed(q) \subseteq Claimed(p)
    BY <1>5 DEF Claimed, LiveIn
  <1>7. QED
    BY <1>4, <1>6

(* A revision grants no lease. *)
LEMMA RevisedPlan ==
  ASSUME NEW p \in Plan, NEW new \in Graphs, NEW r \in Revised(p, new)
  PROVE  r \in Plan /\ Claimed(r) \subseteq Claimed(p)
  <1>0. PICK q \in Reaps(p) :
          r \in LET leased  == Claimed(q)
                    carried == (leased \cap new.ids)
                                 \ Superseded(q.graph, new, q.status, leased)
                    revised == RevisedStatus(q.graph, new, q.status, leased)
                    Keep(kept) ==
                      [q EXCEPT !.graph  = new,
                                !.status = Rederived(new, revised, carried \ kept),
                                !.claim  = [d \in Deliverable |->
                                              IF d \in kept THEN q.claim[d]
                                              ELSE "none"]]
                IN  {Keep({d \in carried : evictor[d] = NoBarrier}) :
                       evictor \in {e \in [carried -> carried \cup {NoBarrier}] :
                                      Evictions(q.graph, new, carried, e)}}
    BY DEF Revised
  <1> DEFINE carried == (Claimed(q) \cap new.ids)
                          \ Superseded(q.graph, new, q.status, Claimed(q))
             revised == RevisedStatus(q.graph, new, q.status, Claimed(q))
  <1>1. PICK kept \in SUBSET carried :
          r = [q EXCEPT !.graph  = new,
                        !.status = Rederived(new, revised, carried \ kept),
                        !.claim  = [d \in Deliverable |->
                                      IF d \in kept THEN q.claim[d] ELSE "none"]]
    BY <1>0
  <1>2. q \in Plan /\ Claimed(q) \subseteq Claimed(p)
    BY ReapsPlan
  <1>3. q.status \in [Deliverable -> Status \cup {Absent}]
        /\ q.claim \in [Deliverable -> Claim]
    BY <1>2 DEF Plan
  <1>4. Rederived(new, revised, carried \ kept)
          \in [Deliverable -> Status \cup {Absent}]
    BY <1>3, RevisedStatusType, RederivedType
  <1>5. [d \in Deliverable |-> IF d \in kept THEN q.claim[d] ELSE "none"]
          \in [Deliverable -> Claim]
    BY <1>3 DEF Claim
  <1> HIDE DEF carried, revised
  <1>6. r \in Plan
    BY <1>1, <1>2, <1>4, <1>5 DEF Plan
  <1>7. r.claim = [d \in Deliverable |-> IF d \in kept THEN q.claim[d] ELSE "none"]
    BY <1>1, <1>2 DEF Plan
  <1>8. Claimed(r) \subseteq kept
    BY <1>7 DEF Claimed
  <1>9. carried \subseteq Claimed(q)
    BY DEF carried
  <1>10. QED
    BY <1>1, <1>2, <1>6, <1>8, <1>9

-----------------------------------------------------------------------------
(* The operations of a plan that may be executed *)

LEMMA FinishedPlan ==
  ASSUME NEW p \in Plan, NEW d \in Deliverable
  PROVE  Finished(p, d) \in Plan
  <1>1. p.status \in [Deliverable -> Status \cup {Absent}]
        /\ p.claim \in [Deliverable -> Claim]
    BY DEF Plan
  <1>2. Completed(p.graph, p.status, d) \in [Deliverable -> Status \cup {Absent}]
    BY <1>1, CompletedType
  <1>3. [p.claim EXCEPT ![d] = "none"] \in [Deliverable -> Claim]
    BY <1>1 DEF Claim
  <1>4. QED
    BY <1>2, <1>3 DEF Finished, Plan

LEMMA IdsAreDeliverables ==
  ASSUME NEW p \in Plan
  PROVE  p.graph.ids \subseteq Deliverable
  BY ExecutionAssumption DEF Plan, Graph

LEMMA TripsPlan ==
  ASSUME NEW p \in Plan, NEW q \in Trips(p)
  PROVE  q \in Plan
  <1>1. PICK broken \in SUBSET Deliverable :
          q = [p EXCEPT !.status = [d \in Deliverable |->
                 IF d \in broken THEN "failed" ELSE p.status[d]]]
    BY IdsAreDeliverables DEF Trips
  <1>2. [d \in Deliverable |-> IF d \in broken THEN "failed" ELSE p.status[d]]
          \in [Deliverable -> Status \cup {Absent}]
    BY DEF Plan, Status
  <1>3. QED
    BY <1>1, <1>2 DEF Plan

LEMMA GrantPlan ==
  ASSUME NEW p \in Plan, NEW cohort, NEW claim \in Claim
  PROVE  Grant(p, cohort, claim) \in Plan
  <1>1. [d \in Deliverable |-> IF d \in cohort THEN "in_progress" ELSE p.status[d]]
          \in [Deliverable -> Status \cup {Absent}]
    BY DEF Plan, Status
  <1>2. [d \in Deliverable |-> IF d \in cohort THEN claim ELSE p.claim[d]]
          \in [Deliverable -> Claim]
    BY DEF Plan
  <1>3. QED
    BY <1>1, <1>2 DEF Grant, Plan

LEMMA AcquiredPlan ==
  ASSUME NEW p \in Plan, NEW q \in Acquired(p)
  PROVE  q \in Plan
  <1>1. PICK t \in UNION {Trips(r) : r \in Reaps(p)} :
          \E cohort \in Cohorts(t), claim \in {"live", "stale"} :
            q = Grant(t, cohort, claim)
    BY DEF Acquired
  <1>2. PICK r \in Reaps(p) : t \in Trips(r)
    OBVIOUS
  <1>3. t \in Plan
    BY <1>2, ReapsPlan, TripsPlan
  <1>4. QED
    BY <1>1, <1>3, GrantPlan DEF Claim

LEMMA MarkedPlan ==
  ASSUME NEW p \in Plan,
         NEW q \in MarkedComplete(p) \cup MarkedFailed(p) \cup MarkedOpen(p)
  PROVE  q \in Plan
  <1>1. Markable(p) \subseteq Deliverable
    BY IdsAreDeliverables DEF Markable
  <1>2. p.status \in [Deliverable -> Status \cup {Absent}]
        /\ p.claim \in [Deliverable -> Claim] /\ p.baseline \in BOOLEAN
    BY DEF Plan
  <1>3. CASE q \in MarkedComplete(p)
    <2>1. PICK d \in Deliverable : q = [Finished(p, d) EXCEPT !.baseline = TRUE]
      BY <1>1, <1>3 DEF MarkedComplete
    <2>2. QED
      BY <2>1, FinishedPlan DEF Plan
  <1>4. CASE q \in MarkedFailed(p)
    <2>1. PICK d \in Deliverable :
            q = [p EXCEPT !.status[d] = "failed", !.claim[d] = "none"]
      BY <1>1, <1>4 DEF MarkedFailed
    <2>2. [p.status EXCEPT ![d] = "failed"] \in [Deliverable -> Status \cup {Absent}]
          /\ [p.claim EXCEPT ![d] = "none"] \in [Deliverable -> Claim]
      BY <1>2 DEF Status, Claim
    <2>3. QED
      BY <2>1, <2>2 DEF Plan
  <1>5. CASE q \in MarkedOpen(p)
    <2>1. PICK s \in Marks, d \in Deliverable : q = MarkedAs(p, d, s)
      BY <1>1, <1>5 DEF MarkedOpen
    <2>2. [p.status EXCEPT ![d] = s] \in [Deliverable -> Status \cup {Absent}]
      BY <1>2, ExecutionAssumption
    <2>3. QED
      BY <1>2, <2>1, <2>2 DEF MarkedAs, Plan
  <1>6. QED
    BY <1>3, <1>4, <1>5

LEMMA RenewedPlan ==
  ASSUME NEW p \in Plan, NEW q \in Renewed(p)
  PROVE  q \in Plan
  <1>1. PICK d \in Deliverable, claim \in {"live", "stale"} :
          q = [p EXCEPT !.claim[d] = claim]
    BY DEF Renewed, Claimed
  <1>2. [p.claim EXCEPT ![d] = claim] \in [Deliverable -> Claim]
    BY DEF Plan, Claim
  <1>3. QED
    BY <1>1, <1>2 DEF Plan

LEMMA AcceptedPlan ==
  ASSUME NEW p \in Plan, NEW q \in Accepted(p)
  PROVE  q \in Plan
  <1>1. PICK r \in Reaps(p) : \/ q = r
                             \/ \E d \in r.graph.ids : q = Finished(r, d)
    BY DEF Accepted
  <1>2. QED
    BY <1>1, ReapsPlan, FinishedPlan, IdsAreDeliverables

LEMMA ReleasedPlan ==
  ASSUME NEW p \in Plan, NEW q \in Released(p)
  PROVE  q \in Plan
  <1>1. CASE \E d \in Claimed(p) :
               q = [p EXCEPT !.status[d] = "ready", !.claim[d] = "none"]
    <2>1. PICK d \in Deliverable :
            q = [p EXCEPT !.status[d] = "ready", !.claim[d] = "none"]
      BY <1>1 DEF Claimed
    <2>2. [p.status EXCEPT ![d] = "ready"] \in [Deliverable -> Status \cup {Absent}]
          /\ [p.claim EXCEPT ![d] = "none"] \in [Deliverable -> Claim]
      BY DEF Plan, Status, Claim
    <2>3. QED
      BY <2>1, <2>2 DEF Plan
  <1>2. CASE \E d \in p.graph.ids : q = Ended(p, {d})
    BY <1>2, EndedPlan
  <1>3. QED
    BY <1>1, <1>2 DEF Released

(* Whatever is executed on a plan leaves a plan. *)
LEMMA ExecutedPlan ==
  ASSUME NEW p \in Plan, NEW q \in Executed(p)
  PROVE  q \in Plan
  <1>1. CASE q \in Baselined(p)
    BY <1>1 DEF Baselined, Plan
  <1>2. QED
    BY <1>1, RenewedPlan, ReleasedPlan, MarkedPlan, AcceptedPlan, AcquiredPlan
       DEF Executed

-----------------------------------------------------------------------------

(* Who holds leases depends on who is selected, and who is selected on     *)
(* what may be archived: the three are inductive together.                 *)
PortfolioInv == Types /\ OnlyExecutableLeased /\ SelectedCanExecute

-----------------------------------------------------------------------------
(* Operators *)

LEMMA VariantsPlans ==
  ASSUME Types
  PROVE  /\ Variants \subseteq Variant
         /\ \A v \in Variants : plan[v] \in Plan
  BY DEF Types, Variants

(* A step that replaces the plan of one variant. *)
LEMMA ReplacedPlan ==
  ASSUME Types, NEW v \in Variants, NEW p \in Plan,
         plan' = [plan EXCEPT ![v] = p]
  PROVE  /\ plan' \in [Variant -> Plan \cup {NoPlan}]
         /\ Variants' = Variants
         /\ plan'[v] = p
         /\ \A w \in Variants \ {v} : plan'[w] = plan[w]
  BY PortfolioAssumption DEF Types, Variants

LEMMA VacatedPlan ==
  ASSUME NEW p \in Plan, NEW force, NEW q \in Vacated(p, force)
  PROVE  q \in Plan /\ Claimed(q) = {}
  <1>1. PICK r \in Reaps(p) : q = Ended(r, Claimed(r))
    BY DEF Vacated
  <1>2. QED
    BY <1>1, ReapsPlan, EndedPlan

LEMMA CarriedPlan ==
  ASSUME NEW old \in Plan, NEW new \in Plan
  PROVE  /\ CarryProgress(old, new) \in Plan
         /\ Claimed(CarryProgress(old, new)) = Claimed(new)
  <1> DEFINE done == [d \in Deliverable |->
                        IF d \in CarriedOver(old, new) THEN "complete"
                        ELSE new.status[d]]
             idle == {d \in Deliverable : /\ done[d] \in {"ready", "pending"}
                                          /\ new.claim[d] = "none"}
  <1>1. done \in [Deliverable -> Status \cup {Absent}]
    BY DEF Plan, Status
  <1>2. CarryProgress(old, new)
          = [new EXCEPT !.status = Rederived(new.graph, done, idle)]
    BY DEF CarryProgress
  <1> HIDE DEF done, idle
  <1>3. Rederived(new.graph, done, idle) \in [Deliverable -> Status \cup {Absent}]
    BY <1>1, RederivedType
  <1>4. QED
    BY <1>2, <1>3 DEF Plan, Claimed

(* A plan without leases has nothing to reap. *)
LEMMA NothingToReap ==
  ASSUME NEW p \in Plan, Claimed(p) = {}, NEW q \in Reaps(p)
  PROVE  q.graph = p.graph /\ q.status = p.status /\ Claimed(q) = {}
  <1>1. q = Ended(p, {})
    BY DEF Reaps, Claimed, Stale
  <1>2. p.status \in [Deliverable -> Status \cup {Absent}]
    BY DEF Plan
  <1>3. Rederived(p.graph, p.status, {}) = p.status
    BY <1>2 DEF Rederived
  <1>4. q.graph = p.graph /\ q.status = p.status
    BY <1>1, <1>3 DEF Ended, Plan
  <1>5. QED
    BY <1>1, <1>4, EndedPlan

(* What a selection leaves of the two plans. *)
LEMMA SelectedPlans ==
  ASSUME PortfolioInv, NEW v \in Variant, NEW force, Select(v, force)
  PROVE  \E old \in Plan, new \in Reaps(plan[v]), b \in BOOLEAN :
           /\ Claimed(old) = {} /\ new \in Plan /\ Claimed(new) = {}
           /\ new.graph = plan[v].graph /\ new.status = plan[v].status
           /\ plan' = [plan EXCEPT ![selected] = old,
                         ![v] = [CarryProgress(old, new) EXCEPT !.baseline = b]]
  <1>1. PICK old \in Vacated(plan[selected], force), new \in Reaps(plan[v]),
             history \in BOOLEAN :
          LET moved   == CarryProgress(old, new)
              started == Starts(new, moved, history)
          IN  plan' = [plan EXCEPT ![selected] = old,
                         ![v] = [moved EXCEPT !.baseline = @ \/ started]]
    BY DEF Select
  <1>2. v \in Variants /\ selected \in Variants /\ v # selected
    BY DEF PortfolioInv, SelectedCanExecute, Select, Live
  <1>3. plan[v] \in Plan /\ plan[selected] \in Plan /\ Claimed(plan[v]) = {}
    BY <1>2, VariantsPlans DEF PortfolioInv, OnlyExecutableLeased
  <1>4. old \in Plan /\ Claimed(old) = {}
    BY <1>3, VacatedPlan
  <1>5. /\ new \in Plan /\ Claimed(new) = {}
        /\ new.graph = plan[v].graph /\ new.status = plan[v].status
    BY <1>3, ReapsPlan, NothingToReap
  <1>6. QED
    BY <1>1, <1>4, <1>5

-----------------------------------------------------------------------------
(* The invariant *)

LEMMA InitInv == Init => PortfolioInv
  BY DEF Init, PortfolioInv, Types, OnlyExecutableLeased, SelectedCanExecute,
         Variants

LEMMA CreateInv ==
  ASSUME PortfolioInv, NEW v \in Variant, NEW g \in ValidGraphs, Create(v, g)
  PROVE  PortfolioInv'
  <1>1. NewPlan(g) \in Plan /\ Claimed(NewPlan(g)) = {}
    BY NewPlanType DEF ValidGraphs
  <1>2. /\ plan' \in [Variant -> Plan \cup {NoPlan}]
        /\ plan'[v] = NewPlan(g) /\ v \notin Variants
        /\ Variants' = Variants \cup {v}
        /\ \A w \in Variants : plan'[w] = plan[w]
    BY <1>1, PortfolioAssumption
       DEF Create, PortfolioInv, Types, Variants
  <1>3. Types'
    BY <1>2 DEF Create, PortfolioInv, Types
  <1>4. OnlyExecutableLeased'
    <2>1. SUFFICES ASSUME NEW w \in Variants', Claimed(plan'[w]) # {}
                   PROVE  w = selected' /\ w \notin archived' /\ ~ lineArchived'
      BY DEF OnlyExecutableLeased
    <2>2. w \in Variants /\ Claimed(plan[w]) # {}
      BY <1>1, <1>2, <2>1
    <2>3. w = selected /\ w \notin archived /\ ~ lineArchived
      BY <2>2 DEF PortfolioInv, OnlyExecutableLeased
    <2>4. selected # NoVariant
      BY <2>2, <2>3, PortfolioAssumption DEF Variants
    <2>5. QED
      BY <2>3, <2>4 DEF Create
  <1>5. SelectedCanExecute'
    BY <1>2 DEF Create, PortfolioInv, SelectedCanExecute, Types
  <1>6. QED
    BY <1>3, <1>4, <1>5 DEF PortfolioInv

(* A step on the plan of v that grants no lease, or that only an           *)
(* executable variant takes.                                               *)
LEMMA PlanStepInv ==
  ASSUME PortfolioInv, NEW v \in Variants, NEW p \in Plan,
         plan' = [plan EXCEPT ![v] = p],
         Claimed(p) \subseteq Claimed(plan[v]) \/ Executable(v),
         UNCHANGED <<selected, archived, lineArchived>>
  PROVE  PortfolioInv'
  <1>1. /\ plan' \in [Variant -> Plan \cup {NoPlan}] /\ Variants' = Variants
        /\ plan'[v] = p /\ \A w \in Variants \ {v} : plan'[w] = plan[w]
    BY ReplacedPlan DEF PortfolioInv
  <1>2. Types'
    BY <1>1 DEF PortfolioInv, Types
  <1>3. OnlyExecutableLeased'
    BY <1>1 DEF PortfolioInv, OnlyExecutableLeased, Executable, Live
  <1>4. SelectedCanExecute'
    BY <1>1 DEF PortfolioInv, SelectedCanExecute
  <1>5. QED
    BY <1>2, <1>3, <1>4 DEF PortfolioInv

LEMMA VariantInv ==
  ASSUME PortfolioInv, NEW v \in Variant,
         \/ \E g \in ValidGraphs : Revise(v, g)
         \/ Execute(v)
         \/ Expire(v)
  PROVE  PortfolioInv'
  <1>1. CASE \E g \in ValidGraphs : Revise(v, g)
    <2>1. PICK g \in Graphs : Revise(v, g)
      BY <1>1 DEF ValidGraphs
    <2>2. v \in Variants /\ plan[v] \in Plan
      BY <2>1, VariantsPlans DEF Revise, Live, PortfolioInv
    <2>3. PICK p \in Revised(plan[v], g) : plan' = [plan EXCEPT ![v] = p]
      BY <2>1 DEF Revise
    <2>4. p \in Plan /\ Claimed(p) \subseteq Claimed(plan[v])
      BY <2>2, RevisedPlan
    <2>5. QED
      BY <2>1, <2>2, <2>3, <2>4, PlanStepInv DEF Revise
  <1>2. CASE Execute(v)
    <2>1. v \in Variants /\ plan[v] \in Plan
      BY <1>2, VariantsPlans DEF Execute, Executable, Live, PortfolioInv
    <2>2. PICK p \in Executed(plan[v]) : plan' = [plan EXCEPT ![v] = p]
      BY <1>2 DEF Execute
    <2>3. p \in Plan
      BY <2>1, ExecutedPlan
    <2>4. QED
      BY <1>2, <2>1, <2>2, <2>3, PlanStepInv DEF Execute
  <1>3. CASE Expire(v)
    <2>1. v \in Variants /\ plan[v] \in Plan
      BY <1>3, VariantsPlans DEF Expire, PortfolioInv
    <2>2. PICK p \in Expired(plan[v]) : plan' = [plan EXCEPT ![v] = p]
      BY <1>3 DEF Expire
    <2>3. p \in Plan /\ Claimed(p) \subseteq Claimed(plan[v])
      BY <2>1, ExpiredPlan
    <2>4. QED
      BY <1>3, <2>1, <2>2, <2>3, PlanStepInv DEF Expire
  <1>4. QED
    BY <1>1, <1>2, <1>3

LEMMA SelectInv ==
  ASSUME PortfolioInv, NEW v \in Variant, NEW force, Select(v, force)
  PROVE  PortfolioInv'
  <1>1. PICK old \in Plan, new \in Reaps(plan[v]), b \in BOOLEAN :
           /\ Claimed(old) = {} /\ new \in Plan /\ Claimed(new) = {}
           /\ plan' = [plan EXCEPT ![selected] = old,
                         ![v] = [CarryProgress(old, new) EXCEPT !.baseline = b]]
    BY SelectedPlans
  <1> DEFINE p == [CarryProgress(old, new) EXCEPT !.baseline = b]
  <1>2. CarryProgress(old, new) \in Plan /\ Claimed(CarryProgress(old, new)) = {}
    BY <1>1, CarriedPlan
  <1>3. p \in Plan /\ Claimed(p) = {}
    BY <1>2 DEF Plan, Claimed
  <1>4. plan' = [plan EXCEPT ![selected] = old, ![v] = p]
    BY <1>1
  <1> HIDE DEF p
  <1>5. v \in Variants /\ selected \in Variants /\ v # selected
        /\ v \notin archived /\ ~ lineArchived
    BY DEF PortfolioInv, SelectedCanExecute, Select, Live
  <1>6. /\ plan' \in [Variant -> Plan \cup {NoPlan}] /\ Variants' = Variants
        /\ plan'[v] = p /\ plan'[selected] = old
        /\ \A w \in Variants \ {v, selected} : plan'[w] = plan[w]
    BY <1>1, <1>3, <1>4, <1>5, PortfolioAssumption DEF PortfolioInv, Types, Variants
  <1>7. \A w \in Variants' : Claimed(plan'[w]) = {}
    BY <1>1, <1>3, <1>6 DEF PortfolioInv, OnlyExecutableLeased
  <1>8. Types' /\ OnlyExecutableLeased' /\ SelectedCanExecute'
    BY <1>5, <1>6, <1>7
       DEF Select, PortfolioInv, Types, OnlyExecutableLeased, SelectedCanExecute
  <1>9. QED
    BY <1>8 DEF PortfolioInv

LEMMA ArchiveInv ==
  ASSUME PortfolioInv,
         \/ \E v \in Variant : ArchiveVariant(v) \/ UnarchiveVariant(v)
         \/ \E force \in BOOLEAN : ArchiveLine(force)
         \/ UnarchiveLine
  PROVE  PortfolioInv'
  <1>1. CASE \E v \in Variant : ArchiveVariant(v) \/ UnarchiveVariant(v)
    BY <1>1 DEF ArchiveVariant, UnarchiveVariant, PortfolioInv, Types,
                OnlyExecutableLeased, SelectedCanExecute, Variants
  <1>2. CASE \E force \in BOOLEAN : ArchiveLine(force)
    <2>1. PICK force \in BOOLEAN : ArchiveLine(force)
      BY <1>2
    <2>2. PICK old \in Vacated(plan[selected], force) :
            plan' = [plan EXCEPT ![selected] = old]
      BY <2>1 DEF ArchiveLine
    <2>3. selected \in Variants
      BY <2>1 DEF ArchiveLine, PortfolioInv, SelectedCanExecute
    <2>4. old \in Plan /\ Claimed(old) = {}
      BY <2>2, <2>3, VariantsPlans, VacatedPlan DEF PortfolioInv
    <2>5. /\ plan' \in [Variant -> Plan \cup {NoPlan}] /\ Variants' = Variants
          /\ plan'[selected] = old
          /\ \A w \in Variants \ {selected} : plan'[w] = plan[w]
      BY <2>2, <2>3, <2>4, ReplacedPlan DEF PortfolioInv
    <2>6. \A w \in Variants' : Claimed(plan'[w]) = {}
      BY <2>4, <2>5 DEF PortfolioInv, OnlyExecutableLeased
    <2>7. QED
      BY <2>1, <2>5, <2>6 DEF ArchiveLine, PortfolioInv, Types,
                              OnlyExecutableLeased, SelectedCanExecute
  <1>3. CASE UnarchiveLine
    BY <1>3 DEF UnarchiveLine, PortfolioInv, Types, OnlyExecutableLeased,
                SelectedCanExecute, Variants
  <1>4. QED
    BY <1>1, <1>2, <1>3

LEMMA SweepInv ==
  ASSUME PortfolioInv, Sweep
  PROVE  PortfolioInv'
  <1>1. PICK lost \in [Variants -> SUBSET Deliverable] :
          plan' = [v \in Variant |-> IF v \in Variants
                                     THEN Ended(plan[v], lost[v]) ELSE NoPlan]
    BY DEF Sweep
  <1>2. \A v \in Variants : /\ Ended(plan[v], lost[v]) \in Plan
                            /\ Claimed(Ended(plan[v], lost[v])) \subseteq Claimed(plan[v])
    BY VariantsPlans, EndedPlan DEF PortfolioInv
  <1>3. plan' \in [Variant -> Plan \cup {NoPlan}] /\ Variants' = Variants
        /\ \A v \in Variants : Claimed(plan'[v]) \subseteq Claimed(plan[v])
    BY <1>1, <1>2, PortfolioAssumption DEF Variants
  <1>4. QED
    BY <1>3 DEF Sweep, PortfolioInv, Types, OnlyExecutableLeased,
                SelectedCanExecute

LEMMA StepInv == PortfolioInv /\ [Next]_vars => PortfolioInv'
  <1> SUFFICES ASSUME PortfolioInv, [Next]_vars PROVE PortfolioInv'
    OBVIOUS
  <1>1. CASE \E v \in Variant : \/ \E g \in ValidGraphs : Create(v, g) \/ Revise(v, g)
                               \/ Execute(v) \/ Expire(v)
    BY <1>1, CreateInv, VariantInv
  <1>2. CASE \E v \in Variant, force \in BOOLEAN : Select(v, force)
    BY <1>2, SelectInv
  <1>3. CASE \/ \E v \in Variant : ArchiveVariant(v) \/ UnarchiveVariant(v)
             \/ \E force \in BOOLEAN : ArchiveLine(force)
             \/ UnarchiveLine
    BY <1>3, ArchiveInv
  <1>4. CASE Sweep
    BY <1>4, SweepInv
  <1>5. CASE UNCHANGED vars
    BY <1>5 DEF vars, PortfolioInv, Types, OnlyExecutableLeased,
                SelectedCanExecute, Variants
  <1>6. QED
    BY <1>1, <1>2, <1>3, <1>4, <1>5 DEF Next

LEMMA Invariant == Spec => []PortfolioInv
  BY InitInv, StepInv, PTL DEF Spec

-----------------------------------------------------------------------------
(* A lease is held only on the selected variant of a line, with neither of *)
(* them archived: whoever holds a lease can report on it (select, archive, *)
(* ensure_executable).                                                     *)
THEOREM LeasesCanReport == Spec => []OnlyExecutableLeased
  BY Invariant, PTL DEF PortfolioInv

(* A line with variants always has a selected one that is not archived     *)
(* itself (create, select, archive).                                       *)
THEOREM LineCanExecute == Spec => []SelectedCanExecute
  BY Invariant, PTL DEF PortfolioInv

-----------------------------------------------------------------------------
(* Selections *)

(* Carrying progress over keeps complete work on complete prerequisites.   *)
LEMMA CarryKeepsClosed ==
  ASSUME NEW old \in Plan, NEW new \in Plan, Closed(new)
  PROVE  Closed(CarryProgress(old, new))
  <1> DEFINE over == CarriedOver(old, new)
             done == [d \in Deliverable |->
                        IF d \in over THEN "complete" ELSE new.status[d]]
             idle == {d \in Deliverable : /\ done[d] \in {"ready", "pending"}
                                          /\ new.claim[d] = "none"}
             moved == CarryProgress(old, new)
  <1>1. moved = [new EXCEPT !.status = Rederived(new.graph, done, idle)]
    BY DEF CarryProgress
  <1>2. moved.graph = new.graph
        /\ moved.status = Rederived(new.graph, done, idle)
    BY <1>1 DEF Plan
  <1>3. \A d \in Deliverable : moved.status[d] = "complete" <=> done[d] = "complete"
    BY <1>2 DEF Rederived, Rederive
  <1>4. new.graph.ids \subseteq Deliverable
        /\ \A d \in Deliverable : new.graph.prereqs[d] \subseteq Deliverable
    BY ExecutionAssumption DEF Plan, Graph
  <1>5. ASSUME NEW d \in over, NEW p \in new.graph.prereqs[d], p \in Deliverable
        PROVE  done[p] = "complete"
    <2>1. PICK S \in SUBSET Candidates(old, new) :
            /\ d \in S
            /\ \A e \in S, q \in Deliverable :
                 q \in new.graph.prereqs[e] => q \in S \/ new.status[q] = "complete"
      BY DEF CarriedOver
    <2>2. S \subseteq over
      BY <2>1 DEF CarriedOver
    <2>3. QED
      BY <1>5, <2>1, <2>2
  <1>6. ASSUME NEW d \in new.graph.ids, done[d] = "complete",
               NEW p \in new.graph.prereqs[d]
        PROVE  done[p] = "complete"
    <2>1. d \in Deliverable /\ p \in Deliverable
      BY <1>4
    <2>2. CASE d \in over
      BY <1>5, <2>1, <2>2
    <2>3. CASE d \notin over
      <3>1. new.status[d] = "complete"
        BY <1>6, <2>1, <2>3
      <3>2. new.status[p] = "complete"
        BY <3>1 DEF Closed, PrereqsComplete
      <3>3. QED
        BY <2>1, <3>2
    <2>4. QED
      BY <2>2, <2>3
  <1> HIDE DEF moved, done
  <1>7. Closed(moved)
    BY <1>2, <1>3, <1>4, <1>6 DEF Closed, PrereqsComplete
  <1>8. QED
    BY <1>7 DEF moved

(* A selection that switches variants never leaves work complete on top of *)
(* an open prerequisite in the variant it selects, unless that variant had *)
(* some already (carry_progress).                                          *)
THEOREM SelectionOrder == Spec => SelectionKeepsOrder
  <1>1. ASSUME PortfolioInv, Next, Switches, Closed(plan[selected'])
        PROVE  Closed(plan'[selected'])
    <2>1. PICK v \in Variant, force \in BOOLEAN : Select(v, force)
      BY <1>1 DEF Switches, Next, Create, Revise, Execute, ArchiveVariant,
                  UnarchiveVariant, Expire, ArchiveLine, UnarchiveLine, Sweep
    <2>2. selected' = v /\ v # selected
      BY <2>1 DEF Select
    <2>3. PICK old \in Plan, new \in Reaps(plan[v]), b \in BOOLEAN :
             /\ new \in Plan
             /\ new.graph = plan[v].graph /\ new.status = plan[v].status
             /\ plan' = [plan EXCEPT ![selected] = old,
                           ![v] = [CarryProgress(old, new) EXCEPT !.baseline = b]]
      BY <1>1, <2>1, SelectedPlans
    <2>4. Closed(new)
      BY <1>1, <2>2, <2>3 DEF Closed
    <2>5. Closed(CarryProgress(old, new)) /\ CarryProgress(old, new) \in Plan
      BY <2>3, <2>4, CarryKeepsClosed, CarriedPlan
    <2>6. Closed([CarryProgress(old, new) EXCEPT !.baseline = b])
      BY <2>5 DEF Closed, Plan
    <2>7. plan'[v] = [CarryProgress(old, new) EXCEPT !.baseline = b]
      BY <1>1, <2>3 DEF PortfolioInv, Types
    <2>8. QED
      BY <2>2, <2>6, <2>7
  <1>2. PortfolioInv /\ [Next]_vars
          => [Switches /\ Closed(plan[selected']) => Closed(plan'[selected'])]_vars
    BY <1>1
  <1>3. QED
    BY <1>2, Invariant, PTL DEF Spec, SelectionKeepsOrder

-----------------------------------------------------------------------------
(* The graphs of a line *)

(* Every variant has a graph that validation accepted, no lease is held on  *)
(* what is complete, and the deliverables of the graph are the ones that    *)
(* have a status and may have a lease.                                      *)
Unleased(p) == \A d \in Deliverable : p.status[d] = "complete" => p.claim[d] = "none"

Whole(p) ==
  \A d \in Deliverable : /\ p.status[d] = Absent <=> d \notin p.graph.ids
                         /\ p.claim[d] # "none" => d \in p.graph.ids

GraphsValid == \A v \in Variants : ValidateGraph(plan[v].graph)

PlansInv ==
  GraphsValid /\ \A v \in Variants : Unleased(plan[v]) /\ Whole(plan[v])

(* The operations on a plan but a revision keep its graph. *)
LEMMA EndedKeeps ==
  ASSUME NEW p \in Plan, NEW lost
  PROVE  /\ Ended(p, lost).graph = p.graph
         /\ Unleased(p) => Unleased(Ended(p, lost))
         /\ lost \cap Deliverable \subseteq p.graph.ids /\ Whole(p)
              => Whole(Ended(p, lost))
         /\ \A d \in Deliverable \ lost : Ended(p, lost).status[d] = p.status[d]
  <1>1. /\ Ended(p, lost).graph = p.graph
        /\ Ended(p, lost).status = Rederived(p.graph, p.status, lost)
        /\ Ended(p, lost).claim = [d \in Deliverable |-> IF d \in lost THEN "none" ELSE p.claim[d]]
    BY DEF Ended, Plan
  <1>2. QED
    BY <1>1 DEF Unleased, Whole, Absent, Rederived, Rederive

LEMMA ReapsKeeps ==
  ASSUME NEW p \in Plan, NEW q \in Reaps(p)
  PROVE  /\ q.graph = p.graph
         /\ (Unleased(p) => Unleased(q)) /\ (Whole(p) => Whole(q))
  <1>1. PICK lost \in SUBSET Stale(p) : q = Ended(p, lost)
    BY DEF Reaps
  <1>2. Whole(p) => lost \subseteq p.graph.ids
    BY DEF Whole, Stale
  <1>3. QED
    BY <1>1, <1>2, EndedKeeps

LEMMA FinishedKeeps ==
  ASSUME NEW p \in Plan, NEW d \in Deliverable
  PROVE  /\ Finished(p, d).graph = p.graph
         /\ Unleased(p) => Unleased(Finished(p, d))
         /\ d \in p.graph.ids /\ Whole(p) => Whole(Finished(p, d))
  <1>1. /\ Finished(p, d).graph = p.graph
        /\ Finished(p, d).status = Completed(p.graph, p.status, d)
        /\ Finished(p, d).claim = [p.claim EXCEPT ![d] = "none"]
    BY DEF Finished, Plan
  <1>2. p.status \in [Deliverable -> Status \cup {Absent}] /\ p.claim \in [Deliverable -> Claim]
    BY DEF Plan
  <1>3. ASSUME Unleased(p), NEW e \in Deliverable, Finished(p, d).status[e] = "complete"
        PROVE  Finished(p, d).claim[e] = "none"
    <2>1. CASE e = d
      BY <1>1, <1>2, <2>1
    <2>2. CASE e # d
      <3>1. p.status[e] = "complete"
        BY <1>1, <1>2, <1>3, <2>2 DEF Completed
      <3>2. QED
        BY <1>1, <1>2, <1>3, <2>2, <3>1 DEF Unleased
    <2>3. QED
      BY <2>1, <2>2
  <1>4. ASSUME d \in p.graph.ids, Whole(p), NEW e \in Deliverable
        PROVE  /\ Finished(p, d).status[e] = Absent <=> e \notin p.graph.ids
               /\ Finished(p, d).claim[e] # "none" => e \in p.graph.ids
    BY <1>1, <1>2, <1>4 DEF Whole, Absent, Completed
  <1>5. QED
    BY <1>1, <1>3, <1>4 DEF Unleased, Whole

LEMMA GrantKeeps ==
  ASSUME NEW p \in Plan, NEW cohort, NEW claim
  PROVE  Grant(p, cohort, claim).graph = p.graph
         /\ (Unleased(p) => Unleased(Grant(p, cohort, claim)))
         /\ (cohort \subseteq p.graph.ids /\ Whole(p) => Whole(Grant(p, cohort, claim)))
  <1>1. CASE cohort = {}
    BY <1>1 DEF Grant
  <1>2. CASE cohort # {}
    <2>1. LET g == Grant(p, cohort, claim)
          IN  /\ g.graph = p.graph
              /\ g.status = [d \in Deliverable |->
                               IF d \in cohort THEN "in_progress" ELSE p.status[d]]
              /\ g.claim = [d \in Deliverable |->
                               IF d \in cohort THEN claim ELSE p.claim[d]]
      BY <1>2 DEF Grant, Plan
    <2>2. QED
      BY <2>1 DEF Unleased, Whole, Absent
  <1>3. QED
    BY <1>1, <1>2

LEMMA TripsKeeps ==
  ASSUME NEW p \in Plan, NEW q \in Trips(p)
  PROVE  /\ q.graph = p.graph
         /\ (Unleased(p) => Unleased(q)) /\ (Whole(p) => Whole(q))
  <1>1. PICK broken \in SUBSET p.graph.ids :
          q = [p EXCEPT !.status = [d \in Deliverable |->
                 IF d \in broken THEN "failed" ELSE p.status[d]]]
    BY DEF Trips
  <1>2. /\ q.graph = p.graph /\ q.claim = p.claim
        /\ q.status = [d \in Deliverable |-> IF d \in broken THEN "failed" ELSE p.status[d]]
    BY <1>1 DEF Plan
  <1>3. QED
    BY <1>2 DEF Unleased, Whole, Absent

LEMMA MarkedKeeps ==
  ASSUME NEW p \in Plan,
         NEW q \in MarkedComplete(p) \cup MarkedFailed(p) \cup MarkedOpen(p)
  PROVE  /\ q.graph = p.graph
         /\ (Unleased(p) => Unleased(q)) /\ (Whole(p) => Whole(q))
  <1>1. Markable(p) \subseteq p.graph.ids /\ p.graph.ids \subseteq Deliverable
    BY IdsAreDeliverables DEF Markable
  <1>2. p.status \in [Deliverable -> Status \cup {Absent}] /\ p.claim \in [Deliverable -> Claim]
    BY DEF Plan
  <1>3. CASE q \in MarkedComplete(p)
    <2>1. PICK d \in p.graph.ids : q = [Finished(p, d) EXCEPT !.baseline = TRUE]
      BY <1>1, <1>3 DEF MarkedComplete
    <2>2. Finished(p, d) \in Plan
      BY <1>1, FinishedPlan
    <2>3. /\ q.graph = Finished(p, d).graph /\ q.status = Finished(p, d).status
          /\ q.claim = Finished(p, d).claim
      BY <2>1, <2>2 DEF Plan
    <2>4. QED
      BY <1>1, <2>3, FinishedKeeps DEF Unleased, Whole
  <1>4. CASE q \in MarkedFailed(p)
    <2>1. PICK d \in p.graph.ids :
            q = [p EXCEPT !.status[d] = "failed", !.claim[d] = "none"]
      BY <1>1, <1>4 DEF MarkedFailed
    <2>2. /\ q.graph = p.graph /\ q.status = [p.status EXCEPT ![d] = "failed"]
          /\ q.claim = [p.claim EXCEPT ![d] = "none"]
      BY <2>1 DEF Plan
    <2>3. QED
      BY <1>1, <1>2, <2>2 DEF Unleased, Whole, Absent
  <1>5. CASE q \in MarkedOpen(p)
    <2>1. PICK s \in Marks \ {"complete", "failed"}, d \in p.graph.ids : q = MarkedAs(p, d, s)
      BY <1>1, <1>5 DEF MarkedOpen
    <2>2. /\ q.graph = p.graph /\ q.status = [p.status EXCEPT ![d] = s] /\ q.claim = p.claim
      BY <2>1 DEF MarkedAs, Plan
    <2>3. s # Absent
      BY ExecutionAssumption DEF Status, Absent
    <2>4. QED
      BY <1>1, <1>2, <2>1, <2>2, <2>3 DEF Unleased, Whole
  <1>6. QED
    BY <1>3, <1>4, <1>5

LEMMA ReleasedKeeps ==
  ASSUME NEW p \in Plan, NEW q \in Released(p)
  PROVE  /\ q.graph = p.graph
         /\ (Unleased(p) => Unleased(q)) /\ (Whole(p) => Whole(q))
  <1>1. CASE \E d \in Claimed(p) :
               q = [p EXCEPT !.status[d] = "ready", !.claim[d] = "none"]
    <2>1. PICK d \in Claimed(p) :
            q = [p EXCEPT !.status[d] = "ready", !.claim[d] = "none"]
      BY <1>1
    <2>2. /\ q.graph = p.graph /\ q.status = [p.status EXCEPT ![d] = "ready"]
          /\ q.claim = [p.claim EXCEPT ![d] = "none"]
          /\ p.status \in [Deliverable -> Status \cup {Absent}]
          /\ p.claim \in [Deliverable -> Claim]
      BY <2>1 DEF Plan
    <2>3. QED
      BY <2>2 DEF Unleased, Whole, Absent, Claimed
  <1>2. CASE \E d \in p.graph.ids : q = Ended(p, {d})
    BY <1>2, EndedKeeps
  <1>3. QED
    BY <1>1, <1>2 DEF Released

LEMMA RenewedKeeps ==
  ASSUME NEW p \in Plan, NEW q \in Renewed(p)
  PROVE  /\ q.graph = p.graph
         /\ (Unleased(p) => Unleased(q)) /\ (Whole(p) => Whole(q))
  <1>1. PICK d \in Claimed(p), claim \in {"live", "stale"} : q = [p EXCEPT !.claim[d] = claim]
    BY DEF Renewed
  <1>2. /\ q.graph = p.graph /\ q.status = p.status
        /\ q.claim = [p.claim EXCEPT ![d] = claim] /\ p.claim \in [Deliverable -> Claim]
    BY <1>1 DEF Plan
  <1>3. QED
    BY <1>2 DEF Unleased, Whole, Claimed

LEMMA ExecutedKeeps ==
  ASSUME NEW p \in Plan, NEW q \in Executed(p)
  PROVE  /\ q.graph = p.graph
         /\ (Unleased(p) => Unleased(q)) /\ (Whole(p) => Whole(q))
  <1>1. CASE q \in Baselined(p)
    <2>1. q.graph = p.graph /\ q.status = p.status /\ q.claim = p.claim
      BY <1>1 DEF Baselined, Plan
    <2>2. QED
      BY <2>1 DEF Unleased, Whole
  <1>2. CASE q \in Accepted(p)
    <2>1. PICK r \in Reaps(p) : q = r \/ \E d \in r.graph.ids : q = Finished(r, d)
      BY <1>2 DEF Accepted
    <2>2. r \in Plan
      BY ReapsPlan
    <2>3. r.graph.ids \subseteq Deliverable
      BY <2>2, IdsAreDeliverables
    <2>4. QED
      BY <2>1, <2>2, <2>3, ReapsKeeps, FinishedKeeps
  <1>3. CASE q \in Acquired(p)
    <2>0. PICK r \in Reaps(p) :
            \E t \in Trips(r) : \E cohort \in Cohorts(t), claim \in {"live", "stale"} :
              q = Grant(t, cohort, claim)
      BY <1>3 DEF Acquired
    <2>1. PICK t \in Trips(r) :
            \E cohort \in Cohorts(t), claim \in {"live", "stale"} :
              q = Grant(t, cohort, claim)
      BY <2>0
    <2>2. r \in Plan /\ t \in Plan
      BY ReapsPlan, TripsPlan
    <2>3. /\ t.graph = p.graph
          /\ (Unleased(p) => Unleased(t)) /\ (Whole(p) => Whole(t))
      BY <2>2, ReapsKeeps, TripsKeeps
    <2>4. PICK cohort \in Cohorts(t), claim \in {"live", "stale"} :
            q = Grant(t, cohort, claim)
      BY <2>1
    <2>5. cohort \subseteq t.graph.ids
      BY DEF Cohorts
    <2>6. QED
      BY <2>2, <2>3, <2>4, <2>5, GrantKeeps
  <1>4. QED
    BY <1>1, <1>2, <1>3, RenewedKeeps, ReleasedKeeps, MarkedKeeps DEF Executed

LEMMA ExpiredKeeps ==
  ASSUME NEW p \in Plan, NEW q \in Expired(p)
  PROVE  /\ q.graph = p.graph
         /\ (Unleased(p) => Unleased(q)) /\ (Whole(p) => Whole(q))
  <1>1. PICK D \in SUBSET LiveIn(p) :
          q = [p EXCEPT !.claim = [d \in Deliverable |->
                                     IF d \in D THEN "stale" ELSE p.claim[d]]]
    BY DEF Expired
  <1>2. /\ q.graph = p.graph /\ q.status = p.status
        /\ q.claim = [d \in Deliverable |-> IF d \in D THEN "stale" ELSE p.claim[d]]
    BY <1>1 DEF Plan
  <1>3. QED
    BY <1>2 DEF Unleased, Whole, LiveIn

LEMMA RevisedKeeps ==
  ASSUME NEW p \in Plan, NEW new \in Graphs, NEW r \in Revised(p, new)
  PROVE  /\ r.graph = new
         /\ (Unleased(p) => Unleased(r)) /\ (Whole(p) => Whole(r))
  <1>1. PICK q \in Reaps(p) :
          r \in LET leased  == Claimed(q)
                    carried == (leased \cap new.ids)
                                 \ Superseded(q.graph, new, q.status, leased)
                    revised == RevisedStatus(q.graph, new, q.status, leased)
                    Keep(kept) ==
                      [q EXCEPT !.graph  = new,
                                !.status = Rederived(new, revised, carried \ kept),
                                !.claim  = [d \in Deliverable |->
                                              IF d \in kept THEN q.claim[d]
                                              ELSE "none"]]
                IN  {Keep({d \in carried : evictor[d] = NoBarrier}) :
                       evictor \in {e \in [carried -> carried \cup {NoBarrier}] :
                                      Evictions(q.graph, new, carried, e)}}
    BY DEF Revised
  <1> DEFINE revised == RevisedStatus(q.graph, new, q.status, Claimed(q))
             carried == (Claimed(q) \cap new.ids)
                          \ Superseded(q.graph, new, q.status, Claimed(q))
  <1>2. PICK kept \in SUBSET carried, lost \in SUBSET carried :
          r = [q EXCEPT !.graph  = new,
                        !.status = Rederived(new, revised, lost),
                        !.claim  = [d \in Deliverable |->
                                      IF d \in kept THEN q.claim[d] ELSE "none"]]
    BY <1>1
  <1>3. q \in Plan /\ (Unleased(p) => Unleased(q)) /\ (Whole(p) => Whole(q))
    BY ReapsPlan, ReapsKeeps
  <1>4. carried \subseteq new.ids
    BY DEF carried
  <1> HIDE DEF revised, carried
  <1>5. /\ r.graph = new /\ r.status = Rederived(new, revised, lost)
        /\ r.claim = [d \in Deliverable |-> IF d \in kept THEN q.claim[d] ELSE "none"]
    BY <1>2, <1>3 DEF Plan
  <1>6. \A d \in Deliverable : revised[d] = "complete" => q.status[d] = "complete"
    BY DEF revised, RevisedStatus, Absent
  <1>7. \A d \in Deliverable : r.status[d] = "complete" => q.status[d] = "complete"
    BY <1>5, <1>6 DEF Rederived, Rederive
  <1>8. ASSUME Whole(q), NEW d \in Deliverable
        PROVE  revised[d] = Absent <=> d \notin new.ids
    BY <1>8 DEF revised, RevisedStatus, Absent, Whole, Survivors, Superseded, Recontracted
  <1>9. Whole(q) => Whole(r)
    BY <1>2, <1>5, <1>8, <1>4 DEF Whole, Rederived, Rederive, Absent
  <1>10. QED
    BY <1>3, <1>5, <1>7, <1>9 DEF Unleased

LEMMA CarriedKeeps ==
  ASSUME NEW old \in Plan, NEW new \in Plan
  PROVE  CarryProgress(old, new).graph = new.graph
         /\ (Unleased(new) => Unleased(CarryProgress(old, new)))
         /\ (Whole(new) => Whole(CarryProgress(old, new)))
  <1> DEFINE over == CarriedOver(old, new)
             done == [d \in Deliverable |->
                        IF d \in over THEN "complete" ELSE new.status[d]]
             idle == {d \in Deliverable : /\ done[d] \in {"ready", "pending"}
                                          /\ new.claim[d] = "none"}
             moved == CarryProgress(old, new)
  <1>1. moved = [new EXCEPT !.status = Rederived(new.graph, done, idle)]
    BY DEF CarryProgress
  <1>2. over \subseteq Candidates(old, new)
    BY DEF CarriedOver
  <1> HIDE DEF over
  <1>3. moved.graph = new.graph /\ moved.claim = new.claim
        /\ moved.status = Rederived(new.graph, done, idle)
    BY <1>1 DEF Plan
  <1>4. \A d \in Deliverable : moved.status[d] = "complete" =>
          new.status[d] = "complete" \/ new.claim[d] = "none"
    BY <1>2, <1>3 DEF Rederived, Rederive, Candidates
  <1>5. over \subseteq new.graph.ids
    BY <1>2 DEF Candidates, Survivors
  <1>6. ASSUME Whole(new), NEW d \in Deliverable
        PROVE  moved.status[d] = Absent <=> d \notin new.graph.ids
    BY <1>3, <1>5, <1>6 DEF Whole, Rederived, Rederive, Absent
  <1> HIDE DEF moved
  <1>7. QED
    BY <1>3, <1>4, <1>6 DEF Unleased, Whole, moved

LEMMA VacatedKeeps ==
  ASSUME NEW p \in Plan, NEW force, NEW q \in Vacated(p, force)
  PROVE  /\ q.graph = p.graph
         /\ (Unleased(p) => Unleased(q)) /\ (Whole(p) => Whole(q))
         /\ Unleased(p) => \A d \in Deliverable :
              p.status[d] = "complete" => q.status[d] = "complete"
  <1>1. PICK lost \in SUBSET Stale(p) : q = Ended(Ended(p, lost), Claimed(Ended(p, lost)))
    BY DEF Vacated, Reaps
  <1>2. Ended(p, lost) \in Plan /\ Claimed(Ended(p, lost)) \subseteq Claimed(p)
    BY EndedPlan
  <1>3. ASSUME Unleased(p), NEW d \in Deliverable, p.status[d] = "complete"
        PROVE  d \notin lost /\ d \notin Claimed(Ended(p, lost))
    BY <1>2, <1>3 DEF Unleased, Claimed, Stale
  <1>4. Whole(p) => lost \subseteq p.graph.ids /\ Claimed(Ended(p, lost)) \subseteq p.graph.ids
    BY <1>2 DEF Whole, Claimed, Stale
  <1>5. QED
    BY <1>1, <1>2, <1>3, <1>4, EndedKeeps

LEMMA PlansStep == PortfolioInv /\ PlansInv /\ [Next]_vars => PlansInv'
  <1> SUFFICES ASSUME PortfolioInv, PlansInv, [Next]_vars PROVE PlansInv'
    OBVIOUS
  <1> DEFINE Fits(p) == p \in Plan /\ ValidateGraph(p.graph) /\ Unleased(p) /\ Whole(p)
  <1>1. \A v \in Variants : v \in Variant /\ Fits(plan[v])
    BY VariantsPlans DEF PortfolioInv, PlansInv, GraphsValid
  <1>2. ASSUME NEW v \in Variant, NEW p, plan' = [plan EXCEPT ![v] = p], Fits(p)
        PROVE  PlansInv'
    BY <1>2, PortfolioAssumption DEF PlansInv, GraphsValid, Variants, PortfolioInv, Types
  <1> HIDE DEF Fits
  <1>3. ASSUME NEW v \in Variant, NEW g \in ValidGraphs, Create(v, g)
        PROVE  PlansInv'
    <2>1. /\ NewPlan(g) \in Plan /\ NewPlan(g).graph = g
          /\ Unleased(NewPlan(g)) /\ Whole(NewPlan(g))
      BY NewPlanType DEF ValidGraphs, NewPlan, InitialStatus, Unleased, Whole, Absent
    <2>2. Fits(NewPlan(g))
      BY <2>1 DEF Fits, ValidGraphs
    <2>3. QED
      BY <1>2, <1>3, <2>2 DEF Create
  <1>4. ASSUME NEW v \in Variant, NEW g \in ValidGraphs, Revise(v, g)
        PROVE  PlansInv'
    <2>1. Fits(plan[v]) /\ g \in Graphs
      BY <1>1, <1>4 DEF Revise, Live, ValidGraphs
    <2>2. PICK p \in Revised(plan[v], g) : plan' = [plan EXCEPT ![v] = p]
      BY <1>4 DEF Revise
    <2>3. Fits(p)
      BY <2>1, <2>2, RevisedPlan, RevisedKeeps DEF Fits, ValidGraphs
    <2>4. QED
      BY <1>2, <2>2, <2>3
  <1>5. ASSUME NEW v \in Variant, Execute(v)
        PROVE  PlansInv'
    <2>1. Fits(plan[v])
      BY <1>1, <1>5 DEF Execute, Executable, Live
    <2>2. PICK p \in Executed(plan[v]) : plan' = [plan EXCEPT ![v] = p]
      BY <1>5 DEF Execute
    <2>3. Fits(p)
      BY <2>1, ExecutedPlan, ExecutedKeeps DEF Fits
    <2>4. QED
      BY <1>2, <2>2, <2>3
  <1>6. ASSUME NEW v \in Variant, Expire(v)
        PROVE  PlansInv'
    <2>1. Fits(plan[v])
      BY <1>1, <1>6 DEF Expire
    <2>2. PICK p \in Expired(plan[v]) : plan' = [plan EXCEPT ![v] = p]
      BY <1>6 DEF Expire
    <2>3. Fits(p)
      BY <2>1, ExpiredPlan, ExpiredKeeps DEF Fits
    <2>4. QED
      BY <1>2, <2>2, <2>3
  <1>7. ASSUME NEW v \in Variant, NEW force \in BOOLEAN, Select(v, force)
        PROVE  PlansInv'
    <2>1. v \in Variants /\ selected \in Variants /\ v # selected
      BY <1>7 DEF PortfolioInv, SelectedCanExecute, Select, Live
    <2>2. PICK old \in Vacated(plan[selected], force), new \in Reaps(plan[v]), b \in BOOLEAN :
            plan' = [plan EXCEPT ![selected] = old,
                       ![v] = [CarryProgress(old, new) EXCEPT !.baseline = @ \/ b]]
      BY <1>7 DEF Select, Starts, HasProgress
    <2>3. Fits(old) /\ Fits(new)
      BY <1>1, <2>1, VacatedPlan, VacatedKeeps, ReapsPlan, ReapsKeeps DEF Fits
    <2>4. Fits(CarryProgress(old, new))
      BY <2>3, CarriedPlan, CarriedKeeps DEF Fits
    <2> DEFINE c == CarryProgress(old, new)
               p == [c EXCEPT !.baseline = @ \/ b]
    <2>5. plan' = [plan EXCEPT ![selected] = old, ![v] = p]
      BY <2>2
    <2>6. Fits(c)
      BY <2>4
    <2> HIDE DEF c
    <2>7. p \in Plan /\ p.graph = c.graph /\ p.status = c.status /\ p.claim = c.claim
      BY <2>6 DEF Fits, Plan
    <2> HIDE DEF p
    <2>8. Fits(p)
      BY <2>6, <2>7 DEF Fits, Unleased, Whole
    <2>9. /\ plan'[selected] = old /\ plan'[v] = p
          /\ \A w \in Variant \ {v, selected} : plan'[w] = plan[w]
      BY <2>1, <2>5 DEF PortfolioInv, Types, Variants
    <2>10. \A w \in Variants' : Fits(plan'[w])
      BY <1>1, <2>3, <2>8, <2>9 DEF Variants
    <2>11. QED
      BY <2>10 DEF PlansInv, GraphsValid, Fits
  <1>8. ASSUME NEW force \in BOOLEAN, ArchiveLine(force)
        PROVE  PlansInv'
    <2>1. selected \in Variants
      BY <1>8 DEF PortfolioInv, SelectedCanExecute, ArchiveLine
    <2>2. PICK old \in Vacated(plan[selected], force) : plan' = [plan EXCEPT ![selected] = old]
      BY <1>8 DEF ArchiveLine
    <2>3. Fits(old)
      BY <1>1, <2>1, VacatedPlan, VacatedKeeps DEF Fits
    <2>4. QED
      BY <1>1, <1>2, <2>1, <2>2, <2>3
  <1>9. CASE Sweep
    <2>1. PICK lost \in [Variants -> SUBSET Deliverable] :
            /\ \A v \in Variants : lost[v] \subseteq Stale(plan[v])
            /\ plan' = [v \in Variant |-> IF v \in Variants
                                          THEN Ended(plan[v], lost[v]) ELSE NoPlan]
      BY <1>9 DEF Sweep
    <2>2. ASSUME NEW v \in Variants PROVE Fits(Ended(plan[v], lost[v]))
      <3>1. Fits(plan[v]) /\ lost[v] \subseteq Stale(plan[v])
        BY <1>1, <2>1
      <3>2. lost[v] \subseteq plan[v].graph.ids
        BY <3>1 DEF Fits, Whole, Stale
      <3>3. QED
        BY <3>1, <3>2, EndedPlan, EndedKeeps DEF Fits
    <2>3. \A v \in Variants' : Fits(plan'[v])
      BY <2>1, <2>2 DEF Variants
    <2>4. QED
      BY <2>3 DEF PlansInv, GraphsValid, Fits
  <1>10. CASE UNCHANGED plan
    BY <1>10 DEF PlansInv, GraphsValid, Variants, Unleased, Whole
  <1>11. QED
    BY <1>3, <1>4, <1>5, <1>6, <1>7, <1>8, <1>9, <1>10
       DEF Next, ArchiveVariant, UnarchiveVariant, UnarchiveLine, vars

LEMMA PlansInvariant == Spec => []PlansInv
  <1>1. Init => PlansInv
    BY DEF Init, PlansInv, GraphsValid, Variants
  <1>2. QED
    BY <1>1, PlansStep, InitInv, StepInv, PTL DEF Spec

(* A line always has the state it is meant to have; in particular a plan    *)
(* has statuses for exactly the deliverables of its own graph, whatever a   *)
(* revision dropped and a selection copied (revise, carry_progress).        *)
THEOREM LineTypes == Spec => []TypeOK
  <1>1. PortfolioInv /\ PlansInv => TypeOK
    BY DEF PortfolioInv, PlansInv, Whole, TypeOK
  <1>2. QED
    BY <1>1, Invariant, PlansInvariant, PTL

-----------------------------------------------------------------------------
(* What a selection finds *)

(* A selection switches from the plan old to the plan new, both without     *)
(* leases, and what has moved over is in the plan p then selected.          *)
LEMMA SwitchStep ==
  ASSUME PortfolioInv, PlansInv, Next, Switches
  PROVE  /\ selected' \in Variants /\ selected \in Variants
         /\ \E old \in Plan, new \in Plan, p \in Plan :
              /\ Claimed(old) = {} /\ Claimed(new) = {}
              /\ old.graph = plan[selected].graph
              /\ \A d \in Deliverable : plan[selected].status[d] = "complete"
                                          => old.status[d] = "complete"
              /\ new.graph = plan[selected'].graph
              /\ new.status = plan[selected'].status
              /\ p = plan'[selected'] /\ p.graph = new.graph
              /\ p.status = CarryProgress(old, new).status
              /\ HasProgress(p) => p.baseline
  <1>1. PICK v \in Variant, force \in BOOLEAN : Select(v, force)
    BY DEF Switches, Next, Create, Revise, Execute, ArchiveVariant,
           UnarchiveVariant, Expire, ArchiveLine, UnarchiveLine, Sweep
  <1>2. v \in Variants /\ selected \in Variants /\ v # selected /\ selected' = v
    BY <1>1 DEF PortfolioInv, SelectedCanExecute, Select, Live
  <1>3. plan[v] \in Plan /\ plan[selected] \in Plan /\ Claimed(plan[v]) = {}
    BY <1>2, VariantsPlans DEF PortfolioInv, OnlyExecutableLeased
  <1>4. PICK old \in Vacated(plan[selected], force), new \in Reaps(plan[v]),
             history \in BOOLEAN :
          plan' = [plan EXCEPT ![selected] = old,
                     ![v] = [CarryProgress(old, new) EXCEPT
                               !.baseline = @ \/ Starts(new, CarryProgress(old, new), history)]]
    BY <1>1 DEF Select
  <1>5. /\ old \in Plan /\ Claimed(old) = {} /\ old.graph = plan[selected].graph
        /\ new \in Plan /\ Claimed(new) = {} /\ new.graph = plan[v].graph
        /\ new.status = plan[v].status
    BY <1>3, VacatedPlan, VacatedKeeps, ReapsPlan, NothingToReap
  <1>6. ASSUME NEW d \in Deliverable, plan[selected].status[d] = "complete"
        PROVE  old.status[d] = "complete"
    BY <1>2, <1>3, <1>6, VacatedKeeps DEF PlansInv
  <1> DEFINE c == CarryProgress(old, new)
             s == Starts(new, c, history)
             p == [c EXCEPT !.baseline = @ \/ s]
  <1>7. c \in Plan /\ c.graph = new.graph
    BY <1>5, CarriedPlan, CarriedKeeps
  <1>8. plan' = [plan EXCEPT ![selected] = old, ![v] = p]
    BY <1>4
  <1>9. HasProgress(c) => s
    BY DEF Starts
  <1>10. s \in BOOLEAN
    BY DEF Starts, HasProgress
  <1> HIDE DEF c, s
  <1>11. /\ p \in Plan /\ p.graph = c.graph /\ p.status = c.status /\ p.claim = c.claim
         /\ s => p.baseline
    BY <1>7, <1>10 DEF Plan
  <1> HIDE DEF p
  <1>12. HasProgress(p) => HasProgress(c)
    BY <1>11 DEF HasProgress, Claimed
  <1>13. plan'[v] = p
    BY <1>2, <1>8 DEF PortfolioInv, Types
  <1>14. p.status = CarryProgress(old, new).status
    BY <1>11 DEF c
  <1>15. QED
    BY <1>2, <1>5, <1>6, <1>7, <1>9, <1>11, <1>12, <1>13, <1>14

(* The statuses that a selection leaves: carried work is complete, work that *)
(* waits for nothing but a lease is re-derived, and the rest is as it was.   *)
LEMMA CarriedStatus ==
  ASSUME NEW old \in Plan, NEW new \in Plan, Claimed(new) = {}
  PROVE  LET st == CarryProgress(old, new).status
         IN  \A d \in Deliverable :
               /\ st[d] = "complete" <=> d \in CarriedOver(old, new) \/ new.status[d] = "complete"
               /\ st[d] \in {"ready", "pending"} => st[d] = Rederive(new.graph, st, d)
  <1> DEFINE over == CarriedOver(old, new)
             done == [d \in Deliverable |->
                        IF d \in over THEN "complete" ELSE new.status[d]]
             idle == {d \in Deliverable : /\ done[d] \in {"ready", "pending"}
                                          /\ new.claim[d] = "none"}
             st == CarryProgress(old, new).status
  <1>1. CarryProgress(old, new) = [new EXCEPT !.status = Rederived(new.graph, done, idle)]
    BY DEF CarryProgress
  <1> HIDE DEF over
  <1>2. st = Rederived(new.graph, done, idle)
    BY <1>1 DEF Plan
  <1> HIDE DEF st
  <1>3. \A d \in Deliverable : st[d] = "complete" <=> done[d] = "complete"
    BY <1>2 DEF Rederived, Rederive
  <1>4. \A d \in Deliverable : new.claim[d] = "none"
    BY DEF Claimed
  <1>5. new.graph \in Graph
    BY ExecutionAssumption DEF Plan
  <1>6. \A d \in Deliverable : new.graph.prereqs[d] \subseteq Deliverable
    BY <1>5 DEF Graph
  <1>7. \A d \in Deliverable : Rederive(new.graph, st, d) = Rederive(new.graph, done, d)
    BY <1>3, <1>6 DEF Rederive, PrereqsComplete
  <1>8. ASSUME NEW d \in Deliverable, st[d] \in {"ready", "pending"}
        PROVE  st[d] = Rederive(new.graph, st, d)
    <2>1. d \in idle
      BY <1>2, <1>4, <1>8 DEF Rederived
    <2>2. QED
      BY <1>2, <1>7, <2>1 DEF Rederived
  <1>9. QED
    BY <1>3, <1>8 DEF st, over

(* What a deliverable stands on contains what its prerequisites stand on.    *)
LEMMA FoundationClosed ==
  ASSUME NEW g \in Graph, ValidateGraph(g), NEW d \in g.ids, NEW p \in g.prereqs[d]
  PROVE  p \in g.ids /\ Foundation(g, p) \subseteq Foundation(g, d)
  <1>1. g.prereqs[d] \subseteq g.ids
    BY DEF ValidateGraph
  <1>2. p \in Ancestors(g, d)
    BY <1>1 DEF Ancestors
  <1>3. Ancestors(g, p) \subseteq Ancestors(g, d)
    BY <1>1 DEF Ancestors
  <1>4. QED
    BY <1>1, <1>2, <1>3 DEF Foundation

(* Finished work that is defined the same in old and new, with all it stands *)
(* on, is carried over or was complete already.                              *)
LEMMA FinishedIsCarried ==
  ASSUME NEW old \in Plan, NEW new \in Plan, Claimed(new) = {}, ValidateGraph(new.graph),
         NEW d \in Survivors(old.graph, new.graph),
         \A e \in Foundation(new.graph, d) :
           /\ e \in old.graph.ids \ Changed(old.graph, new.graph)
           /\ old.status[e] = "complete"
  PROVE  d \in CarriedOver(old, new) \/ new.status[d] = "complete"
  <1> DEFINE Same(e) == /\ e \in old.graph.ids \ Changed(old.graph, new.graph)
                        /\ old.status[e] = "complete"
             S == {e \in Candidates(old, new) : \A x \in Foundation(new.graph, e) : Same(x)}
  <1>1. new.graph \in Graph /\ new.graph.ids \subseteq Deliverable
    BY ExecutionAssumption DEF Plan, Graph
  <1>2. ASSUME NEW e \in new.graph.ids, \A x \in Foundation(new.graph, e) : Same(x),
               new.status[e] # "complete"
        PROVE  e \in S
    <2>1. Same(e)
      BY <1>2 DEF Foundation
    <2>2. new.claim[e] = "none"
      BY <1>1 DEF Claimed
    <2>3. QED
      BY <1>2, <2>1, <2>2 DEF Candidates, Survivors
  <1>3. S \in SUBSET Candidates(old, new)
    OBVIOUS
  <1>4. ASSUME NEW e \in S, NEW p \in Deliverable, p \in new.graph.prereqs[e]
        PROVE  p \in S \/ new.status[p] = "complete"
    <2>1. e \in new.graph.ids
      BY DEF Candidates, Survivors
    <2>2. p \in new.graph.ids /\ Foundation(new.graph, p) \subseteq Foundation(new.graph, e)
      BY <1>1, <1>4, <2>1, FoundationClosed
    <2>3. \A x \in Foundation(new.graph, p) : Same(x)
      BY <1>4, <2>2
    <2>4. QED
      BY <1>2, <2>2, <2>3
  <1>5. S \subseteq CarriedOver(old, new)
    BY <1>3, <1>4 DEF CarriedOver
  <1>6. QED
    BY <1>2, <1>5 DEF Survivors

(* Selecting a variant repeats no finished work that the variant left behind *)
(* and the selected one define the same, down to all it stands on            *)
(* (carry_progress): its greatest-set form of the code's retain loop misses  *)
(* none.                                                                     *)
THEOREM SelectionCarries == Spec => SelectionKeepsProgress
  <1> DEFINE Carries ==
        LET old == plan[selected]
            new == plan[selected']
        IN  \A d \in Survivors(old.graph, new.graph) :
              (\A e \in Foundation(new.graph, d) :
                 /\ e \in old.graph.ids \ Changed(old.graph, new.graph)
                 /\ old.status[e] = "complete")
                => plan'[selected'].status[d] = "complete"
  <1>1. ASSUME PortfolioInv, PlansInv, Next, Switches
        PROVE  Carries
    <2>1. PICK old \in Plan, new \in Plan, p \in Plan :
            /\ Claimed(new) = {}
            /\ old.graph = plan[selected].graph
            /\ \A d \in Deliverable : plan[selected].status[d] = "complete"
                                        => old.status[d] = "complete"
            /\ new.graph = plan[selected'].graph
            /\ p = plan'[selected']
            /\ p.status = CarryProgress(old, new).status
      BY <1>1, SwitchStep
    <2>2. ValidateGraph(new.graph)
      BY <1>1, <2>1, SwitchStep DEF PlansInv, GraphsValid
    <2>3. old.graph.ids \subseteq Deliverable
      BY IdsAreDeliverables
    <2>4. ASSUME NEW d \in Survivors(old.graph, new.graph),
                 \A e \in Foundation(new.graph, d) :
                   /\ e \in old.graph.ids \ Changed(old.graph, new.graph)
                   /\ plan[selected].status[e] = "complete"
          PROVE  p.status[d] = "complete"
      <3>1. \A e \in Foundation(new.graph, d) : old.status[e] = "complete"
        BY <2>1, <2>3, <2>4
      <3>2. d \in CarriedOver(old, new) \/ new.status[d] = "complete"
        BY <2>1, <2>2, <2>4, <3>1, FinishedIsCarried
      <3>3. d \in Deliverable
        BY <2>3, <2>4 DEF Survivors
      <3>4. QED
        BY <2>1, <3>2, <3>3, CarriedStatus
    <2>5. QED
      BY <2>1, <2>4
  <1> HIDE DEF Carries
  <1>2. PortfolioInv /\ PlansInv /\ [Next]_vars => [Switches => Carries]_vars
    BY <1>1
  <1>3. QED
    BY <1>2, Invariant, PlansInvariant, PTL DEF Spec, SelectionKeepsProgress, Carries

(* After a selection no unleased work of the selected variant waits for      *)
(* nothing, or is ready before its prerequisites are complete                *)
(* (carry_progress).                                                         *)
THEOREM SelectionLeavesNothingWaiting == Spec => SelectionSettles
  <1> DEFINE Settled ==
        LET p == plan'[selected']
        IN  \A d \in p.graph.ids :
              p.status[d] \in {"ready", "pending"} =>
                p.status[d] = Rederive(p.graph, p.status, d)
  <1>1. ASSUME PortfolioInv, PlansInv, Next, Switches
        PROVE  Settled
    <2>1. PICK old \in Plan, new \in Plan, p \in Plan :
            /\ Claimed(new) = {} /\ p = plan'[selected'] /\ p.graph = new.graph
            /\ p.status = CarryProgress(old, new).status
      BY <1>1, SwitchStep
    <2>2. p.graph.ids \subseteq Deliverable
      BY IdsAreDeliverables
    <2>3. QED
      BY <2>1, <2>2, CarriedStatus
  <1> HIDE DEF Settled
  <1>2. PortfolioInv /\ PlansInv /\ [Next]_vars => [Switches => Settled]_vars
    BY <1>1
  <1>3. QED
    BY <1>2, Invariant, PlansInvariant, PTL DEF Spec, SelectionSettles, Settled

(* Finished or running work that a selection brings to execution finds a     *)
(* baseline to be measured against (select_variant,                          *)
(* ensure_execution_baseline).                                               *)
THEOREM SelectionTakesBaseline == Spec => SelectedWorkHasBaseline
  <1> DEFINE Measured ==
        LET p == plan'[selected']
        IN  \A d \in Deliverable : p.status[d] \in {"in_progress", "complete"} => p.baseline
  <1>1. ASSUME PortfolioInv, PlansInv, Next, Switches
        PROVE  Measured
    BY <1>1, SwitchStep DEF HasProgress
  <1> HIDE DEF Measured
  <1>2. PortfolioInv /\ PlansInv /\ [Next]_vars => [Switches => Measured]_vars
    BY <1>1
  <1>3. QED
    BY <1>2, Invariant, PlansInvariant, PTL DEF Spec, SelectedWorkHasBaseline, Measured

-----------------------------------------------------------------------------
(* Archived plans *)

(* Nothing to reap, nothing to expire.                                       *)
LEMMA UnclaimedRests ==
  ASSUME NEW p \in Plan, Claimed(p) = {}
  PROVE  (\A lost \in SUBSET Stale(p) : Ended(p, lost) = p) /\ Expired(p) \subseteq {p}
  <1>1. Stale(p) = {} /\ LiveIn(p) = {}
    BY DEF Claimed, Stale, LiveIn
  <1>2. p.status \in [Deliverable -> Status \cup {Absent}] /\ p.claim \in [Deliverable -> Claim]
    BY DEF Plan
  <1>3. Rederived(p.graph, p.status, {}) = p.status
    BY <1>2 DEF Rederived
  <1>4. [d \in Deliverable |-> IF d \in {} THEN "none" ELSE p.claim[d]] = p.claim
        /\ [d \in Deliverable |-> IF d \in {} THEN "stale" ELSE p.claim[d]] = p.claim
    BY <1>2
  <1>5. [p EXCEPT !.status = p.status, !.claim = p.claim] = p /\ [p EXCEPT !.claim = p.claim] = p
    BY DEF Plan
  <1>6. Ended(p, {}) = p
    BY <1>3, <1>4, <1>5 DEF Ended
  <1>7. QED
    BY <1>1, <1>4, <1>5, <1>6 DEF Expired

(* What is effectively archived is frozen: until it is unarchived no         *)
(* operation, restart or clock touches its graph, its progress or its leases *)
(* (ensure_revisable, ensure_executable, select, quarantine_expired).        *)
THEOREM ArchivedStays == Spec => ArchivedIsFrozen
  <1>1. ASSUME PortfolioInv, Next, NEW v \in Variants, lineArchived \/ v \in archived
        PROVE  plan'[v] = plan[v]
    <2>1. plan[v] \in Plan /\ Claimed(plan[v]) = {} /\ v \in Variant
      BY <1>1, VariantsPlans DEF PortfolioInv, OnlyExecutableLeased
    <2>2. plan \in [Variant -> Plan \cup {NoPlan}]
      BY <1>1 DEF PortfolioInv, Types
    <2>3. ASSUME NEW w \in Variant \ {v}, NEW p, plan' = [plan EXCEPT ![w] = p]
          PROVE  plan'[v] = plan[v]
      BY <2>1, <2>2, <2>3
    <2>4. ASSUME NEW w \in Variant,
                 (\E g \in ValidGraphs : Create(w, g) \/ Revise(w, g)) \/ Execute(w)
          PROVE  plan'[v] = plan[v]
      <3>1. w # v
        BY <1>1, <2>4 DEF Create, Revise, Execute, Executable, Live, Variants
      <3>2. QED
        BY <2>3, <2>4, <3>1 DEF Create, Revise, Execute
    <2>5. ASSUME NEW w \in Variant, Expire(w)
          PROVE  plan'[v] = plan[v]
      <3>1. CASE w = v
        BY <2>1, <2>2, <2>5, <3>1, UnclaimedRests DEF Expire
      <3>2. CASE w # v
        BY <2>3, <2>5, <3>2 DEF Expire
      <3>3. QED
        BY <3>1, <3>2
    <2>6. ASSUME NEW w \in Variant, NEW force \in BOOLEAN, Select(w, force)
          PROVE  plan'[v] = plan[v]
      <3>1. w # v /\ selected # v
        BY <1>1, <2>6 DEF Select, Live, PortfolioInv, SelectedCanExecute
      <3>2. PICK old, new : plan' = [plan EXCEPT ![selected] = old, ![w] = new]
        BY <2>6 DEF Select
      <3>3. QED
        BY <2>1, <2>2, <3>1, <3>2
    <2>7. ASSUME NEW force \in BOOLEAN, ArchiveLine(force)
          PROVE  plan'[v] = plan[v]
      <3>1. selected # v
        BY <1>1, <2>7 DEF ArchiveLine, PortfolioInv, SelectedCanExecute
      <3>2. QED
        BY <2>2, <2>7, <3>1 DEF ArchiveLine
    <2>8. CASE Sweep
      <3>1. PICK lost \in [Variants -> SUBSET Deliverable] :
              /\ \A w \in Variants : lost[w] \subseteq Stale(plan[w])
              /\ plan' = [w \in Variant |-> IF w \in Variants
                                            THEN Ended(plan[w], lost[w]) ELSE NoPlan]
        BY <2>8 DEF Sweep
      <3>2. QED
        BY <2>1, <3>1, UnclaimedRests
    <2>9. QED
      BY <1>1, <2>4, <2>5, <2>6, <2>7, <2>8
         DEF Next, ArchiveVariant, UnarchiveVariant, UnarchiveLine
  <1>2. PortfolioInv /\ [Next]_vars =>
          [\A v \in Variants : lineArchived \/ v \in archived => plan'[v] = plan[v]]_vars
    BY <1>1
  <1>3. QED
    BY <1>2, Invariant, PTL DEF Spec, ArchivedIsFrozen

-----------------------------------------------------------------------------
(* The line underneath *)

(* Nothing breaks and nobody is granted an expired lease.                  *)
LEMMA NothingTrips ==
  ASSUME NEW p \in Plan
  PROVE  p \in Trips(p)
  <1>1. p.status \in [Deliverable -> Status \cup {Absent}]
    BY DEF Plan
  <1>2. [d \in Deliverable |-> IF d \in {} THEN "failed" ELSE p.status[d]] = p.status
    BY <1>1
  <1>3. [p EXCEPT !.status = p.status] = p
    BY DEF Plan
  <1>4. p = [p EXCEPT !.status = [d \in Deliverable |->
                                     IF d \in {} THEN "failed" ELSE p.status[d]]]
    BY <1>2, <1>3
  <1>5. \E broken \in SUBSET {d \in p.graph.ids : p.status[d] = "ready"} :
          p = [p EXCEPT !.status = [d \in Deliverable |->
                                      IF d \in broken THEN "failed" ELSE p.status[d]]]
    <2>1. {} \in SUBSET {d \in p.graph.ids : p.status[d] = "ready"}
      OBVIOUS
    <2>2. QED
      BY <1>4, <2>1, Zenon
  <1>6. QED
    BY <1>5 DEF Trips

LEMMA AcquireIsExecution ==
  ASSUME PortfolioInv, NEW v \in Variant, NEW ttl \in Ttls, AcquireCohort(v, ttl)
  PROVE  Execute(v)
  <1>1. Executable(v) /\ v \in Variants
    BY DEF AcquireCohort, Executable, Live
  <1>2. plan[v] \in Plan
    BY <1>1, VariantsPlans DEF PortfolioInv
  <1> DEFINE reaped == Ended(plan[v], Stale(plan[v]))
  <1>3. PICK cohort \in Cohorts(reaped) :
          /\ cohort # {} => MayExecute(reaped)
          /\ plan' = [plan EXCEPT ![v] = Grant(reaped, cohort, "live")]
          /\ UNCHANGED <<selected, archived, lineArchived>>
    BY DEF AcquireCohort, Enter
  <1>4. reaped \in Plan /\ reaped \in Reaps(plan[v])
    BY <1>2, EndedPlan DEF Reaps
  <1>5. reaped.baseline = plan[v].baseline
    BY <1>2 DEF Ended, Plan
  <1>6. MayExecute(reaped) => MayExecute(plan[v])
    BY <1>5 DEF MayExecute
  <1>7. reaped \in UNION {Trips(r) : r \in Reaps(plan[v])}
    BY <1>4, NothingTrips
  <1> HIDE DEF reaped
  <1>8. cohort \in {c \in Cohorts(reaped) : c = {} \/ MayExecute(plan[v])}
    BY <1>3, <1>6
  <1>9. Grant(reaped, cohort, "live") \in Acquired(plan[v])
    BY <1>7, <1>8 DEF Acquired
  <1>10. Grant(reaped, cohort, "live") \in Executed(plan[v])
    BY <1>9 DEF Executed
  <1>11. QED
    BY <1>1, <1>3, <1>10 DEF Execute

LEMMA MarkIsExecution ==
  ASSUME PortfolioInv, NEW v \in Variant, NEW d \in Deliverable, NEW s \in Marks,
         NEW report, MarkOpen(v, d, s, report)
  PROVE  Execute(v)
  <1>1. MarkedAs(plan[v], d, s) \in MarkedOpen(plan[v])
    BY DEF MarkOpen, MarkedOpen
  <1>2. MarkedAs(plan[v], d, s) \in Executed(plan[v])
    BY <1>1 DEF Executed
  <1>3. QED
    BY <1>2 DEF MarkOpen, Enter, Execute

(* The clock only matters to the selected variant, where the leases are.   *)
LEMMA TickIsExpiry ==
  ASSUME PortfolioInv, Tick
  PROVE  (\E v \in Variant : Expire(v)) \/ UNCHANGED vars
  <1> DEFINE expired(v) == {d \in LiveIn(plan[v]) : ~ now < book[v].until[d]}
             After(v) == [plan[v] EXCEPT !.claim =
                            [d \in Deliverable |->
                               IF d \in expired(v) THEN "stale" ELSE @[d]]]
  <1>1. /\ plan' = [v \in Variant |-> IF v \in Variants THEN After(v) ELSE NoPlan]
        /\ UNCHANGED <<selected, archived, lineArchived>>
    BY DEF Tick
  <1>2. plan \in [Variant -> Plan \cup {NoPlan}] /\ selected \notin Variant => Variants = {}
    BY DEF PortfolioInv, Types, SelectedCanExecute, Variants
  <1>3. ASSUME NEW v \in Variants, v # selected
        PROVE  After(v) = plan[v]
    <2>1. plan[v] \in Plan /\ Claimed(plan[v]) = {}
      BY <1>3, VariantsPlans DEF PortfolioInv, OnlyExecutableLeased
    <2>2. After(v) \in Expired(plan[v])
      BY DEF Expired
    <2>3. QED
      BY <2>1, <2>2, UnclaimedRests
  <1>4. CASE selected \in Variants
    <2>1. After(selected) \in Expired(plan[selected])
      BY DEF Expired
    <2>2. plan' = [plan EXCEPT ![selected] = After(selected)]
      BY <1>1, <1>2, <1>3, <1>4 DEF Variants, PortfolioInv, Types
    <2>3. QED
      BY <1>1, <1>4, <2>1, <2>2 DEF Expire, Variants
  <1>5. CASE selected \notin Variants
    <2>1. \A v \in Variant : plan'[v] = plan[v]
      BY <1>1, <1>3, <1>5 DEF Variants
    <2>2. plan' = plan
      BY <1>1, <2>1 DEF PortfolioInv, Types
    <2>3. QED
      BY <1>1, <2>2 DEF vars
  <1>6. QED
    BY <1>4, <1>5

(* Every step of the ledger is a step of the line, or leaves the line as   *)
(* it is.                                                                  *)
LEMMA LineStep ==
  ASSUME PortfolioInv, LedgerNext
  PROVE  Next \/ UNCHANGED vars
  <1>1. ASSUME NEW v \in Variant, NEW g \in ValidGraphs, Submit(v, g) \/ RevisePlan(v, g)
        PROVE  Next
    <2>1. Create(v, g) \/ Revise(v, g)
      BY <1>1 DEF Submit, RevisePlan, Revise, Enter
    <2>2. QED
      BY <2>1 DEF Next
  <1>2. ASSUME NEW v \in Variant, NEW ttl \in Ttls, AcquireCohort(v, ttl)
        PROVE  Next
    BY <1>2, AcquireIsExecution DEF Next
  <1>3. ASSUME NEW v \in Variant, NEW d, NEW ttl, Heartbeat(v, d, ttl)
        PROVE  UNCHANGED vars
    <2>1. plan' = [plan EXCEPT ![v] = plan[v]] /\ UNCHANGED <<selected, archived, lineArchived>>
      BY <1>3 DEF Heartbeat, Enter
    <2>2. plan' = plan
      BY <2>1 DEF PortfolioInv, Types
    <2>3. QED
      BY <2>1, <2>2 DEF vars
  <1>4. ASSUME NEW v \in Variant,
               MarkTerminal(v) \/ Accept(v) \/ ForceRelease(v) \/ TakeBaseline(v)
        PROVE  Next
    <2>1. Execute(v)
      BY <1>4 DEF MarkTerminal, Accept, ForceRelease, TakeBaseline, End, Enter,
                  Execute, Executed, Baselined
    <2>2. QED
      BY <2>1 DEF Next
  <1>5. ASSUME NEW v \in Variant, NEW d \in Deliverable, NEW s \in Marks, NEW report,
               MarkOpen(v, d, s, report)
        PROVE  Next
    BY <1>5, MarkIsExecution DEF Next
  <1>6. ASSUME NEW v \in Variant, NEW force \in BOOLEAN, SelectVariant(v, force)
        PROVE  Next
    BY <1>6 DEF SelectVariant, Next
  <1>7. ASSUME NEW force \in BOOLEAN, Archive(force)
        PROVE  Next
    BY <1>7 DEF Archive, Next
  <1>8. CASE QuarantineExpired
    BY <1>8 DEF QuarantineExpired, Next
  <1>9. CASE Tick
    <2>1. CASE \E v \in Variant : Expire(v)
      BY <2>1 DEF Next
    <2>2. QED
      BY <1>9, <2>1, TickIsExpiry
  <1>10. QED
    BY <1>1, <1>2, <1>3, <1>4, <1>5, <1>6, <1>7, <1>8, <1>9 DEF LedgerNext

(* The ledger changes nothing about the line: whatever the portfolio       *)
(* promises holds with the clock, the bookings and their order as well.    *)
THEOREM LedgerKeepsTheLine == LedgerSpec => Spec
  <1>1. LedgerInit => Init
    BY DEF LedgerInit
  <1>2. PortfolioInv /\ [LedgerNext]_allVars => [Next]_vars
    BY LineStep DEF allVars, vars
  <1>3. QED
    BY <1>1, <1>2, InitInv, StepInv, PTL DEF LedgerSpec, Spec

-----------------------------------------------------------------------------
(* What the entries write *)

CreditedAt(new, bk, ended, end) ==
  /\ new \in Book
  /\ \A d \in ended : new.leased[d] = bk.leased[d] + (end[d] - bk.since[d])
  /\ \A d \in Deliverable \ ended : /\ new.leased[d] = bk.leased[d]
                                    /\ new.since[d] = bk.since[d]
                                    /\ new.until[d] = bk.until[d]
  /\ new.pct = bk.pct /\ new.frozen = bk.frozen
  /\ new.number = bk.number /\ new.rows = bk.rows

LEMMA CreditedBook ==
  ASSUME NEW bk \in Book, NEW ended \in SUBSET Deliverable, NEW end,
         \A d \in ended : end[d] \in Nat /\ bk.since[d] <= end[d]
  PROVE  CreditedAt(Credited(bk, ended, end), bk, ended, end)
  <1> DEFINE l == [d \in Deliverable |-> IF d \in ended THEN bk.leased[d] + (end[d] - bk.since[d])
                                         ELSE bk.leased[d]]
             s == Without(bk.since, ended)
             u == Without(bk.until, ended)
  <1>1. /\ bk.since \in [Deliverable -> 0..MaxTime] /\ bk.until \in [Deliverable -> Nat]
        /\ bk.leased \in [Deliverable -> Nat]
    BY DEF Book
  <1>2. l \in [Deliverable -> Nat]
    <2>1. ASSUME NEW d \in ended
          PROVE  bk.leased[d] + (end[d] - bk.since[d]) \in Nat
      <3>1. bk.leased[d] \in Nat /\ bk.since[d] \in Nat /\ end[d] \in Nat /\ bk.since[d] <= end[d]
        BY <1>1
      <3>2. QED
        BY <3>1
    <2>2. QED
      BY <1>1, <2>1
  <1>3. s \in [Deliverable -> 0..MaxTime] /\ u \in [Deliverable -> Nat]
    BY <1>1, LedgerAssumption DEF Without
  <1>4. Credited(bk, ended, end) = [bk EXCEPT !.leased = l, !.since = s, !.until = u]
    BY DEF Credited, Book
  <1>5. /\ \A d \in ended : l[d] = bk.leased[d] + (end[d] - bk.since[d])
        /\ \A d \in Deliverable \ ended :
             l[d] = bk.leased[d] /\ s[d] = bk.since[d] /\ u[d] = bk.until[d]
    BY DEF Without
  <1> HIDE DEF l, s, u
  <1>6. [bk EXCEPT !.leased = l, !.since = s, !.until = u] \in Book
    BY <1>2, <1>3 DEF Book
  <1>7. LET new == [bk EXCEPT !.leased = l, !.since = s, !.until = u]
        IN  /\ new.leased = l /\ new.since = s /\ new.until = u
            /\ new.pct = bk.pct /\ new.frozen = bk.frozen
            /\ new.number = bk.number /\ new.rows = bk.rows
    BY DEF Book
  <1>8. QED
    BY <1>4, <1>5, <1>6, <1>7 DEF CreditedAt

SameTimes(old, new) ==
  new.leased = old.leased /\ new.since = old.since /\ new.until = old.until

(* The values that the report reads are the same. *)
SameValues(old, new) ==
  /\ new.pct = old.pct /\ new.frozen = old.frozen
  /\ new.number = old.number /\ new.rows = old.rows

LEMMA FirstBook ==
  ASSUME NEW bk \in Book, NEW p \in Plan
  PROVE  LET new == FirstBaseline(bk, p)
         IN  /\ new \in Book /\ SameTimes(bk, new)
             /\ new.pct = bk.pct /\ new.frozen = bk.frozen
             /\ new.number = bk.number => new.rows = bk.rows
             /\ (p.baseline \/ bk.number = 0) => (p.baseline <=> new.number # 0)
  <1>1. bk.number \in Nat /\ p.graph.ids \in SUBSET Deliverable
    BY IdsAreDeliverables DEF Book
  <1>2. CASE p.baseline /\ bk.number = 0
    <2>1. FirstBaseline(bk, p) = [bk EXCEPT !.number = 1, !.rows = p.graph.ids]
      BY <1>2 DEF FirstBaseline, BuildBaseline, Book
    <2> DEFINE new == [bk EXCEPT !.number = 1, !.rows = p.graph.ids]
    <2>2. new \in Book
      BY <1>1 DEF Book
    <2>3. SameTimes(bk, new) /\ new.pct = bk.pct /\ new.frozen = bk.frozen /\ new.number = 1
      BY DEF Book, SameTimes
    <2> HIDE DEF new
    <2>4. QED
      BY <1>2, <2>1, <2>2, <2>3 DEF new
  <1>3. CASE ~ (p.baseline /\ bk.number = 0)
    BY <1>1, <1>3 DEF FirstBaseline, SameTimes
  <1>4. QED
    BY <1>2, <1>3

LEMMA ReportedBook ==
  ASSUME NEW bk \in Book, NEW d \in Deliverable, NEW report \in Reports \cup {NoPercent}
  PROVE  LET new == RecordReported(bk, d, report)
         IN  /\ new \in Book /\ SameTimes(bk, new)
             /\ new.frozen = bk.frozen /\ new.number = bk.number /\ new.rows = bk.rows
  <1>1. report \in Percent
    BY LedgerAssumption DEF Percent
  <1>2. QED
    BY <1>1 DEF RecordReported, SameTimes, Book

(* What a deliverable has earned is a percent.                             *)
LEMMA EarnedIsPercent ==
  ASSUME NEW d \in Deliverable, NEW status, NEW reported \in Percent
  PROVE  EarnedPct(d, status, reported) \in 0..100
  <1>1. Rule[d] \in {"zero_hundred", "fifty_fifty", "weighted"}
    BY LedgerAssumption
  <1>2. 0 \in 0..100 /\ 50 \in 0..100 /\ 100 \in 0..100
    OBVIOUS
  <1>3. reported # NoPercent => reported \in 0..100
    BY DEF Percent
  <1>4. QED
    BY <1>1, <1>2, <1>3 DEF EarnedPct

LEMMA ScopeBook ==
  ASSUME NEW bk \in Book, NEW old \in Plan, NEW new \in Plan
  PROVE  LET after == ScopeChange(bk, old, new)
         IN  /\ after \in Book /\ SameTimes(bk, after)
             /\ after.number = bk.number /\ after.rows = bk.rows
             /\ \A d \in Deliverable \ new.graph.ids :
                  /\ d \in old.graph.ids /\ d \in bk.rows =>
                       after.frozen[d] = EarnedPct(d, old.status[d], bk.pct[d])
                  /\ d \notin old.graph.ids => after.frozen[d] = bk.frozen[d]
  <1> DEFINE added == new.graph.ids \ old.graph.ids
             removed == (old.graph.ids \ new.graph.ids) \cap bk.rows
             percent == [d \in Deliverable |-> EarnedPct(d, old.status[d], bk.pct[d])]
             readded == {d \in added : bk.frozen[d] # NoPercent}
             f1 == [d \in Deliverable |-> IF d \in readded THEN NoPercent ELSE bk.frozen[d]]
             p1 == [d \in Deliverable |-> IF d \in readded THEN NoPercent ELSE bk.pct[d]]
             f2 == [d \in Deliverable |-> IF d \in removed THEN percent[d] ELSE f1[d]]
  <1>1. bk.pct \in [Deliverable -> Percent] /\ bk.frozen \in [Deliverable -> Percent]
    BY DEF Book
  <1>2. f1 \in [Deliverable -> Percent] /\ p1 \in [Deliverable -> Percent]
    BY <1>1 DEF Percent
  <1>3. percent \in [Deliverable -> Percent]
    BY <1>1, EarnedIsPercent DEF Percent
  <1>4. f2 \in [Deliverable -> Percent]
    BY <1>2, <1>3
  <1>5. ReopenReadded(bk, added) = [bk EXCEPT !.frozen = f1, !.pct = p1]
    BY DEF ReopenReadded, Book
  <1>6. ScopeChange(bk, old, new) = FreezeRemoved([bk EXCEPT !.frozen = f1, !.pct = p1], removed, percent)
    BY <1>5 DEF ScopeChange
  <1>7. ASSUME NEW d \in Deliverable \ new.graph.ids
        PROVE  /\ d \in removed => f2[d] = EarnedPct(d, old.status[d], bk.pct[d])
               /\ d \notin old.graph.ids => f2[d] = bk.frozen[d]
               /\ d \in old.graph.ids /\ d \in bk.rows => d \in removed
    BY <1>7
  <1> DEFINE bk1 == [bk EXCEPT !.frozen = f1, !.pct = p1]
             bk2 == [bk EXCEPT !.frozen = f2, !.pct = p1]
  <1>8. FreezeRemoved(bk1, removed, percent)
          = [bk1 EXCEPT !.frozen = [d \in Deliverable |-> IF d \in removed THEN percent[d] ELSE bk1.frozen[d]]]
    BY DEF FreezeRemoved
  <1> HIDE DEF removed, percent, f1, p1
  <1>9. bk1.frozen = f1
    BY DEF Book
  <1>10. FreezeRemoved(bk1, removed, percent) = [bk1 EXCEPT !.frozen = f2]
    BY <1>8, <1>9
  <1> HIDE DEF f2
  <1>11. [bk1 EXCEPT !.frozen = f2] = bk2
    BY DEF Book
  <1>12. bk2 \in Book /\ SameTimes(bk, bk2) /\ bk2.number = bk.number /\ bk2.rows = bk.rows
         /\ bk2.frozen = f2
    BY <1>2, <1>4 DEF Book, SameTimes
  <1>13. ScopeChange(bk, old, new) = bk2
    BY <1>6, <1>10, <1>11
  <1> HIDE DEF bk2
  <1>14. QED
    BY <1>7, <1>12, <1>13

LEMMA CarriedBook ==
  ASSUME NEW from \in Book, NEW to \in Book, NEW carried
  PROVE  LET new == CarryActuals(from, to, carried)
         IN  /\ new \in Book /\ new.since = to.since /\ new.until = to.until
             /\ new.number = to.number /\ new.rows = to.rows
             /\ \A d \in Deliverable :
                  new.leased[d] = IF d \in carried THEN to.leased[d] + from.leased[d] ELSE to.leased[d]
             /\ \A d \in Deliverable \ carried : new.frozen[d] = to.frozen[d]
  <1> DEFINE l == [d \in Deliverable |-> IF d \in carried THEN to.leased[d] + from.leased[d]
                                         ELSE to.leased[d]]
             p == [d \in Deliverable |-> IF d \in carried /\ from.pct[d] # NoPercent THEN from.pct[d]
                                         ELSE to.pct[d]]
             f == [d \in Deliverable |-> IF d \in carried THEN NoPercent ELSE to.frozen[d]]
  <1>1. /\ from.leased \in [Deliverable -> Nat] /\ to.leased \in [Deliverable -> Nat]
        /\ from.pct \in [Deliverable -> Percent] /\ to.pct \in [Deliverable -> Percent]
        /\ to.frozen \in [Deliverable -> Percent]
    BY DEF Book
  <1>2. l \in [Deliverable -> Nat]
    BY <1>1
  <1>3. p \in [Deliverable -> Percent] /\ f \in [Deliverable -> Percent]
    BY <1>1 DEF Percent
  <1>4. CarryActuals(from, to, carried) = [to EXCEPT !.leased = l, !.pct = p, !.frozen = f]
    BY DEF CarryActuals, Book
  <1>5. /\ \A d \in Deliverable :
             l[d] = IF d \in carried THEN to.leased[d] + from.leased[d] ELSE to.leased[d]
        /\ \A d \in Deliverable \ carried : f[d] = to.frozen[d]
    OBVIOUS
  <1> HIDE DEF l, p, f
  <1>6. LET new == [to EXCEPT !.leased = l, !.pct = p, !.frozen = f]
        IN  /\ new \in Book /\ new.since = to.since /\ new.until = to.until
            /\ new.number = to.number /\ new.rows = to.rows
            /\ new.leased = l /\ new.frozen = f
    BY <1>2, <1>3 DEF Book
  <1>7. QED
    BY <1>4, <1>5, <1>6

-----------------------------------------------------------------------------
(* Operations that grant no lease *)

(* From p to q leases end, those that remain are as they were, and a       *)
(* baseline stays.                                                         *)
OnlyEnds(p, q) ==
  /\ q \in Plan
  /\ p.baseline => q.baseline
  /\ \A d \in Deliverable : q.claim[d] \in {p.claim[d], "none"}

LEMMA EndedEnds ==
  ASSUME NEW p \in Plan, NEW lost
  PROVE  /\ OnlyEnds(p, Ended(p, lost))
         /\ Ended(p, lost).baseline = p.baseline
         /\ \A d \in Deliverable : Ended(p, lost).claim[d] = IF d \in lost THEN "none" ELSE p.claim[d]
  <1>1. /\ Ended(p, lost).baseline = p.baseline
        /\ Ended(p, lost).claim = [d \in Deliverable |-> IF d \in lost THEN "none" ELSE p.claim[d]]
    BY DEF Ended, Plan
  <1>2. QED
    BY <1>1, EndedPlan DEF OnlyEnds

LEMMA ReapsEnds ==
  ASSUME NEW p \in Plan, NEW q \in Reaps(p)
  PROVE  OnlyEnds(p, q) /\ q.baseline = p.baseline
  BY EndedEnds DEF Reaps

LEMMA EndsCompose ==
  ASSUME NEW p, NEW q, NEW r, OnlyEnds(p, q), OnlyEnds(q, r)
  PROVE  OnlyEnds(p, r)
  BY DEF OnlyEnds

LEMMA FinishedEnds ==
  ASSUME NEW p \in Plan, NEW d \in Deliverable
  PROVE  OnlyEnds(p, Finished(p, d))
  <1>1. Finished(p, d).baseline = p.baseline /\ Finished(p, d).claim = [p.claim EXCEPT ![d] = "none"]
    BY DEF Finished, Plan
  <1>2. p.claim \in [Deliverable -> Claim]
    BY DEF Plan
  <1>3. QED
    BY <1>1, <1>2, FinishedPlan DEF OnlyEnds

LEMMA AcceptedEnds ==
  ASSUME NEW p \in Plan, NEW q \in Accepted(p)
  PROVE  OnlyEnds(p, q)
  <1>1. PICK r \in Reaps(p) : q = r \/ \E d \in r.graph.ids : q = Finished(r, d)
    BY DEF Accepted
  <1>2. r \in Plan /\ OnlyEnds(p, r)
    BY ReapsPlan, ReapsEnds
  <1>3. r.graph.ids \subseteq Deliverable
    BY <1>2, IdsAreDeliverables
  <1>4. QED
    BY <1>1, <1>2, <1>3, FinishedEnds, EndsCompose

LEMMA TerminalEnds ==
  ASSUME NEW p \in Plan, NEW q \in MarkedComplete(p) \cup MarkedFailed(p)
  PROVE  OnlyEnds(p, q)
  <1>1. Markable(p) \subseteq Deliverable
    BY IdsAreDeliverables DEF Markable
  <1>2. q \in Plan
    BY MarkedPlan
  <1>3. CASE q \in MarkedComplete(p)
    <2>1. PICK d \in Deliverable : q = [Finished(p, d) EXCEPT !.baseline = TRUE]
      BY <1>1, <1>3 DEF MarkedComplete
    <2>2. Finished(p, d) \in Plan /\ OnlyEnds(p, Finished(p, d))
      BY FinishedPlan, FinishedEnds
    <2>3. q.baseline = TRUE /\ q.claim = Finished(p, d).claim
      BY <2>1, <2>2 DEF Plan
    <2>4. QED
      BY <1>2, <2>2, <2>3 DEF OnlyEnds
  <1>4. CASE q \in MarkedFailed(p)
    <2>1. PICK d \in Deliverable : q = [p EXCEPT !.status[d] = "failed", !.claim[d] = "none"]
      BY <1>1, <1>4 DEF MarkedFailed
    <2>2. q.baseline = p.baseline /\ q.claim = [p.claim EXCEPT ![d] = "none"]
      BY <2>1 DEF Plan
    <2>3. p.claim \in [Deliverable -> Claim]
      BY DEF Plan
    <2>4. QED
      BY <1>2, <2>2, <2>3 DEF OnlyEnds
  <1>5. QED
    BY <1>3, <1>4

LEMMA ReleasedEnds ==
  ASSUME NEW p \in Plan, NEW q \in Released(p)
  PROVE  OnlyEnds(p, q)
  <1>1. CASE \E d \in Claimed(p) : q = [p EXCEPT !.status[d] = "ready", !.claim[d] = "none"]
    <2>1. PICK d \in Claimed(p) : q = [p EXCEPT !.status[d] = "ready", !.claim[d] = "none"]
      BY <1>1
    <2>2. q.baseline = p.baseline /\ q.claim = [p.claim EXCEPT ![d] = "none"]
      BY <2>1 DEF Plan
    <2>3. p.claim \in [Deliverable -> Claim]
      BY DEF Plan
    <2>4. QED
      BY <2>2, <2>3, ReleasedPlan DEF OnlyEnds
  <1>2. CASE \E d : q = Ended(p, {d})
    BY <1>2, EndedEnds
  <1>3. QED
    BY <1>1, <1>2 DEF Released

LEMMA RevisedEnds ==
  ASSUME NEW p \in Plan, NEW new \in Graphs, NEW r \in Revised(p, new)
  PROVE  OnlyEnds(p, r) /\ r.graph = new
  <1>1. PICK q \in Reaps(p) :
          r \in LET leased  == Claimed(q)
                    carried == (leased \cap new.ids)
                                 \ Superseded(q.graph, new, q.status, leased)
                    revised == RevisedStatus(q.graph, new, q.status, leased)
                    Keep(kept) ==
                      [q EXCEPT !.graph  = new,
                                !.status = Rederived(new, revised, carried \ kept),
                                !.claim  = [d \in Deliverable |->
                                              IF d \in kept THEN q.claim[d]
                                              ELSE "none"]]
                IN  {Keep({d \in carried : evictor[d] = NoBarrier}) :
                       evictor \in {e \in [carried -> carried \cup {NoBarrier}] :
                                      Evictions(q.graph, new, carried, e)}}
    BY DEF Revised
  <1>2. q \in Plan /\ OnlyEnds(p, q)
    BY ReapsPlan, ReapsEnds
  <1>3. PICK kept, status : r = [q EXCEPT !.graph = new, !.status = status,
                                   !.claim = [d \in Deliverable |->
                                                IF d \in kept THEN q.claim[d] ELSE "none"]]
    BY <1>1
  <1>4. /\ r.graph = new /\ r.baseline = q.baseline
        /\ r.claim = [d \in Deliverable |-> IF d \in kept THEN q.claim[d] ELSE "none"]
    BY <1>2, <1>3 DEF Plan
  <1>5. r \in Plan
    BY RevisedPlan
  <1>6. OnlyEnds(q, r)
    BY <1>4, <1>5 DEF OnlyEnds
  <1>7. QED
    BY <1>2, <1>4, <1>6, EndsCompose

LEMMA VacatedEnds ==
  ASSUME NEW p \in Plan, NEW force, NEW q \in Vacated(p, force)
  PROVE  /\ OnlyEnds(p, q) /\ q.baseline = p.baseline
         /\ \A d \in Deliverable : q.claim[d] = "none"
  <1>1. PICK r \in Reaps(p) : q = Ended(r, Claimed(r))
    BY DEF Vacated
  <1>2. r \in Plan /\ OnlyEnds(p, r) /\ r.baseline = p.baseline
    BY ReapsPlan, ReapsEnds
  <1>3. OnlyEnds(p, q) /\ q.baseline = p.baseline
    BY <1>1, <1>2, EndedEnds, EndsCompose
  <1>4. Claimed(q) = {}
    BY VacatedPlan
  <1>5. QED
    BY <1>3, <1>4 DEF Claimed

-----------------------------------------------------------------------------
(* The hours of one deliverable *)

(* When a lease is over that is looked at at the time t, and how long it   *)
(* has been held then.                                                     *)
Over(claim, until, t) == IF claim = "stale" THEN until ELSE t

Held(claim, since, until, t) ==
  IF claim = "none" THEN 0 ELSE Over(claim, until, t) - since

(* The entries of d in the book bk agree with the hours in which leases of *)
(* d have run, at the time t, under the claim on d.                        *)
Fit(claim, bk, hours, B, t, d) ==
  /\ hours \subseteq 1..t
  /\ claim # "none" => bk.since[d] <= Over(claim, bk.until[d], t)
  /\ claim = "live" => t <= bk.until[d]
  /\ claim = "stale" => bk.until[d] < t
  /\ Cardinality(hours) <= bk.leased[d] + Held(claim, bk.since[d], bk.until[d], t)
  /\ d \notin B =>
       bk.leased[d] + Held(claim, bk.since[d], bk.until[d], t) = Cardinality(hours)

Fits(claim, bk, hours, B, t) ==
  \A d \in Deliverable : Fit(claim[d], bk, hours[d], B, t, d)

Claims == [Deliverable -> Claim]
Hours  == [Deliverable -> SUBSET (1..MaxTime)]

LEMMA FiniteHours ==
  ASSUME NEW hours \in SUBSET (1..MaxTime)
  PROVE  IsFiniteSet(hours) /\ Cardinality(hours) \in Nat
  <1>1. IsFiniteSet(1..MaxTime)
    BY FS_Interval, LedgerAssumption
  <1>2. IsFiniteSet(hours)
    BY <1>1, FS_Subset
  <1>3. QED
    BY <1>2, FS_CardinalityType

(* Ending leases, each at its time: later than that only where B2 says so. *)
LEMMA CreditFits ==
  ASSUME NEW c \in Claims, NEW c2 \in Claims,
         \A d \in Deliverable : c2[d] \in {c[d], "none"},
         NEW bk \in Book, NEW hours \in Hours, NEW B, NEW B2, B \subseteq B2,
         NEW t \in Nat, Fits(c, bk, hours, B, t),
         NEW ended \in SUBSET Deliverable,
         \A d \in Deliverable : d \in ended <=> c[d] # "none" /\ c2[d] = "none",
         NEW end,
         \A d \in ended : /\ end[d] \in Nat
                          /\ Over(c[d], bk.until[d], t) <= end[d]
                          /\ d \in B2 \/ end[d] = Over(c[d], bk.until[d], t)
  PROVE  Credited(bk, ended, end) \in Book /\ Fits(c2, Credited(bk, ended, end), hours, B2, t)
  <1> DEFINE after == Credited(bk, ended, end)
  <1>1. bk.since \in [Deliverable -> 0..MaxTime] /\ bk.until \in [Deliverable -> Nat]
        /\ bk.leased \in [Deliverable -> Nat]
    BY DEF Book
  <1>2. ASSUME NEW d \in Deliverable
        PROVE  /\ bk.since[d] \in Nat /\ bk.until[d] \in Nat /\ bk.leased[d] \in Nat
               /\ Cardinality(hours[d]) \in Nat
    BY <1>1, FiniteHours, LedgerAssumption DEF Hours
  <1>3. ASSUME NEW d \in ended
        PROVE  end[d] \in Nat /\ bk.since[d] <= end[d]
    <2>1. bk.since[d] <= Over(c[d], bk.until[d], t) /\ Over(c[d], bk.until[d], t) <= end[d]
      BY DEF Fits, Fit
    <2>2. Over(c[d], bk.until[d], t) \in Nat /\ bk.since[d] \in Nat /\ end[d] \in Nat
      BY <1>2 DEF Over
    <2>3. QED
      BY <2>1, <2>2
  <1>9. \A d \in ended : end[d] \in Nat /\ bk.since[d] <= end[d]
    BY <1>3
  <1>4. CreditedAt(after, bk, ended, end)
    BY <1>9, CreditedBook
  <1> HIDE DEF after
  <1>5. ASSUME NEW d \in Deliverable
        PROVE  Fit(c2[d], after, hours[d], B2, t, d)
    <2>1. Fit(c[d], bk, hours[d], B, t, d)
      BY DEF Fits
    <2> USE DEF CreditedAt
    <2>2. CASE d \in ended
      <3>1. c2[d] = "none" /\ c[d] # "none"
        BY <2>2
      <3>2. after.leased[d] = bk.leased[d] + (end[d] - bk.since[d])
        BY <1>4, <2>2
      <3>3. end[d] \in Nat /\ Over(c[d], bk.until[d], t) \in Nat
        BY <1>2, <1>3, <2>2 DEF Over
      <3>4. Held(c[d], bk.since[d], bk.until[d], t) = Over(c[d], bk.until[d], t) - bk.since[d]
            /\ Held(c2[d], after.since[d], after.until[d], t) = 0
        BY <3>1 DEF Held
      <3>5. Cardinality(hours[d]) <= after.leased[d] + 0
        BY <1>2, <2>1, <2>2, <3>2, <3>3, <3>4 DEF Fit
      <3>6. d \notin B2 => after.leased[d] + 0 = Cardinality(hours[d])
        BY <1>2, <2>1, <2>2, <3>2, <3>3, <3>4 DEF Fit
      <3>7. QED
        BY <2>1, <3>1, <3>4, <3>5, <3>6 DEF Fit
    <2>3. CASE d \notin ended
      <3>1. c2[d] = c[d]
        BY <2>3
      <3>2. after.leased[d] = bk.leased[d]
        BY <1>4, <2>3
      <3>3. CASE c[d] = "none"
        BY <2>1, <3>1, <3>2, <3>3 DEF Fit, Held
      <3>4. CASE c[d] # "none"
        <4>1. after.since[d] = bk.since[d] /\ after.until[d] = bk.until[d]
          BY <1>4, <2>3
        <4>2. QED
          BY <2>1, <3>1, <3>2, <4>1 DEF Fit
      <3>5. QED
        BY <3>3, <3>4
    <2>4. QED
      BY <2>2, <2>3
  <1>6. QED
    BY <1>4, <1>5 DEF Fits, after, CreditedAt

(* Leases that start now. *)
WithGrants(bk, cohort, t, ttl) ==
  [bk EXCEPT !.since = [d \in Deliverable |-> IF d \in cohort THEN t ELSE @[d]],
             !.until = [d \in Deliverable |-> IF d \in cohort THEN t + ttl ELSE @[d]]]

LEMMA GrantFits ==
  ASSUME NEW c \in Claims, NEW bk \in Book, NEW hours \in Hours, NEW B,
         NEW t \in 0..MaxTime, NEW ttl \in Nat, Fits(c, bk, hours, B, t),
         NEW cohort, \A d \in cohort : c[d] = "none",
         NEW c2, \A d \in Deliverable : c2[d] = IF d \in cohort THEN "live" ELSE c[d]
  PROVE  /\ WithGrants(bk, cohort, t, ttl) \in Book
         /\ Fits(c2, WithGrants(bk, cohort, t, ttl), hours, B, t)
         /\ SameValues(bk, WithGrants(bk, cohort, t, ttl))
  <1> DEFINE new == WithGrants(bk, cohort, t, ttl)
             s == [d \in Deliverable |-> IF d \in cohort THEN t ELSE bk.since[d]]
             u == [d \in Deliverable |-> IF d \in cohort THEN t + ttl ELSE bk.until[d]]
  <1>1. bk.since \in [Deliverable -> 0..MaxTime] /\ bk.until \in [Deliverable -> Nat]
        /\ bk.leased \in [Deliverable -> Nat]
    BY DEF Book
  <1>2. t \in Nat /\ t + ttl \in Nat
    BY LedgerAssumption
  <1>3. s \in [Deliverable -> 0..MaxTime] /\ u \in [Deliverable -> Nat]
    BY <1>1, <1>2
  <1>4. new = [bk EXCEPT !.since = s, !.until = u]
    BY DEF WithGrants, Book
  <1>5. \A d \in Deliverable : /\ s[d] = IF d \in cohort THEN t ELSE bk.since[d]
                               /\ u[d] = IF d \in cohort THEN t + ttl ELSE bk.until[d]
    OBVIOUS
  <1> HIDE DEF new, s, u
  <1>6. new \in Book /\ new.since = s /\ new.until = u /\ new.leased = bk.leased
        /\ SameValues(bk, new)
    BY <1>3, <1>4 DEF Book, SameValues
  <1>7. ASSUME NEW d \in Deliverable
        PROVE  Fit(c2[d], new, hours[d], B, t, d)
    <2>1. Fit(c[d], bk, hours[d], B, t, d)
      BY DEF Fits
    <2>2. CASE d \in cohort
      <3>1. c2[d] = "live" /\ c[d] = "none" /\ s[d] = t /\ u[d] = t + ttl
        BY <1>5, <2>2
      <3>2. Held("live", t, t + ttl, t) = 0 /\ Held("none", bk.since[d], bk.until[d], t) = 0
            /\ Over("live", t + ttl, t) = t
        BY <1>2 DEF Held, Over
      <3>3. t <= t + ttl /\ t <= t
        BY <1>2
      <3>4. QED
        BY <1>6, <2>1, <3>1, <3>2, <3>3 DEF Fit
    <2>3. CASE d \notin cohort
      BY <1>5, <1>6, <2>1, <2>3 DEF Fit
    <2>4. QED
      BY <2>2, <2>3
  <1>8. QED
    BY <1>6, <1>7 DEF Fits, new

(* A live lease that is renewed now. *)
LEMMA RenewFits ==
  ASSUME NEW c \in Claims, NEW bk \in Book, NEW hours \in Hours, NEW B,
         NEW t \in 0..MaxTime, NEW ttl \in Nat, Fits(c, bk, hours, B, t),
         NEW e \in Deliverable, c[e] = "live",
         NEW new, new = [bk EXCEPT !.until[e] = t + ttl]
  PROVE  new \in Book /\ Fits(c, new, hours, B, t) /\ new.number = bk.number
         /\ new.frozen = bk.frozen /\ new.rows = bk.rows
  <1> DEFINE u == [bk.until EXCEPT ![e] = t + ttl]
  <1>1. bk.since \in [Deliverable -> 0..MaxTime] /\ bk.until \in [Deliverable -> Nat]
        /\ bk.leased \in [Deliverable -> Nat]
    BY DEF Book
  <1>2. t \in Nat /\ t + ttl \in Nat
    BY LedgerAssumption
  <1>3. u \in [Deliverable -> Nat] /\ u[e] = t + ttl /\ \A d \in Deliverable \ {e} : u[d] = bk.until[d]
    BY <1>1, <1>2
  <1>4. new = [bk EXCEPT !.until = u]
    BY DEF Book
  <1> HIDE DEF u
  <1>5. new \in Book /\ new.since = bk.since /\ new.until = u /\ new.leased = bk.leased
        /\ new.number = bk.number /\ new.frozen = bk.frozen /\ new.rows = bk.rows
    BY <1>3, <1>4 DEF Book
  <1>6. ASSUME NEW d \in Deliverable
        PROVE  Fit(c[d], new, hours[d], B, t, d)
    <2>1. Fit(c[d], bk, hours[d], B, t, d)
      BY DEF Fits
    <2>2. CASE d = e
      <3>1. t <= t + ttl
        BY <1>2
      <3>2. QED
        BY <1>3, <1>5, <2>1, <2>2, <3>1 DEF Fit, Held, Over
    <2>3. CASE d # e
      BY <1>3, <1>5, <2>1, <2>3 DEF Fit
    <2>4. QED
      BY <2>2, <2>3
  <1>7. QED
    BY <1>5, <1>6 DEF Fits

LEMMA SameFits ==
  ASSUME NEW c, NEW bk, NEW new, SameTimes(bk, new),
         NEW hours, NEW B, NEW t, Fits(c, bk, hours, B, t)
  PROVE  Fits(c, new, hours, B, t)
  BY DEF Fits, Fit, SameTimes

(* Work that is carried along brings its hours.                            *)
LEMMA CarryFit ==
  ASSUME NEW d, NEW t \in Nat,
         NEW h \in SUBSET (1..MaxTime), NEW h0 \in SUBSET (1..MaxTime),
         NEW to, NEW from, NEW new, NEW B, NEW B0, NEW B2,
         to.leased[d] \in Nat, from.leased[d] \in Nat,
         Fit("none", to, h, B, t, d), Fit("none", from, h0, B0, t, d),
         new.leased[d] = to.leased[d] + from.leased[d],
         d \notin B2 => d \notin B /\ d \notin B0 /\ h \cap h0 = {}
  PROVE  Fit("none", new, h \cup h0, B2, t, d)
  <1>1. /\ h \subseteq 1..t /\ Cardinality(h) <= to.leased[d] + 0
        /\ d \notin B => to.leased[d] + 0 = Cardinality(h)
        /\ h0 \subseteq 1..t /\ Cardinality(h0) <= from.leased[d] + 0
        /\ d \notin B0 => from.leased[d] + 0 = Cardinality(h0)
    BY DEF Fit, Held
  <1>2. /\ IsFiniteSet(h) /\ IsFiniteSet(h0)
        /\ Cardinality(h) \in Nat /\ Cardinality(h0) \in Nat /\ Cardinality(h \cap h0) \in Nat
    <2>1. h \cap h0 \in SUBSET (1..MaxTime)
      OBVIOUS
    <2>2. QED
      BY <2>1, FiniteHours
  <1>3. Cardinality(h \cup h0) = Cardinality(h) + Cardinality(h0) - Cardinality(h \cap h0)
    BY <1>2, FS_Union
  <1>4. h \cap h0 = {} => Cardinality(h \cap h0) = 0
    BY FS_EmptySet
  <1>5. Cardinality(h \cup h0) <= new.leased[d] + 0
    BY <1>1, <1>2, <1>3
  <1>6. d \notin B2 => new.leased[d] + 0 = Cardinality(h \cup h0)
    BY <1>1, <1>2, <1>3, <1>4
  <1>7. h \cup h0 \subseteq 1..t
    BY <1>1
  <1>8. QED
    BY <1>5, <1>6, <1>7 DEF Fit, Held

LEMMA HourLater ==
  ASSUME NEW s \in Nat, NEW u \in Nat, NEW l \in Nat, NEW n \in Nat, NEW t \in Nat,
         s <= t, t < u, n <= l + (t - s)
  PROVE  /\ s <= t + 1 /\ t + 1 <= u /\ n + 1 <= l + ((t + 1) - s)
         /\ l + (t - s) = n => l + ((t + 1) - s) = n + 1
  OBVIOUS

(* An hour passes: it is worked on what is leased for it, and other live   *)
(* leases expire.                                                          *)
LEMMA TickFits ==
  ASSUME NEW c \in Claims, NEW bk \in Book, NEW h \in Hours, NEW B,
         NEW t \in Nat, t < MaxTime, Fits(c, bk, h, B, t),
         NEW c2, NEW h2,
         \A d \in Deliverable :
           /\ c2[d] = IF c[d] = "live" /\ ~ t < bk.until[d] THEN "stale" ELSE c[d]
           /\ h2[d] = IF c[d] = "live" /\ t < bk.until[d] THEN h[d] \cup {t + 1} ELSE h[d]
  PROVE  Fits(c2, bk, h2, B, t + 1)
  <1>1. ASSUME NEW d \in Deliverable
        PROVE  Fit(c2[d], bk, h2[d], B, t + 1, d)
    <2>1. Fit(c[d], bk, h[d], B, t, d) /\ c[d] \in {"none", "live", "stale"}
      BY DEF Fits, Claims, Claim
    <2>2. /\ h[d] \in SUBSET (1..MaxTime) /\ bk.leased[d] \in Nat
          /\ bk.since[d] \in Nat /\ bk.until[d] \in Nat
      BY LedgerAssumption DEF Hours, Book
    <2>3. IsFiniteSet(h[d]) /\ Cardinality(h[d]) \in Nat
      BY <2>2, FiniteHours
    <2>4. h[d] \subseteq 1..t /\ h[d] \subseteq 1..(t + 1) /\ t + 1 \notin h[d]
          /\ h[d] \cup {t + 1} \subseteq 1..(t + 1)
      <3>1. h[d] \subseteq 1..t
        BY <2>1 DEF Fit
      <3>2. 1..t \subseteq 1..(t + 1) /\ t + 1 \notin 1..t /\ t + 1 \in 1..(t + 1)
        OBVIOUS
      <3>3. QED
        BY <3>1, <3>2
    <2>5. CASE c[d] = "none"
      BY <2>1, <2>4, <2>5 DEF Fit, Held
    <2>6. CASE c[d] = "stale"
      <3>1. c2[d] = "stale" /\ h2[d] = h[d]
        BY <2>6
      <3>2. bk.until[d] < t /\ bk.until[d] < t + 1
        BY <2>1, <2>2, <2>6 DEF Fit
      <3>3. QED
        BY <2>1, <2>4, <2>6, <3>1, <3>2 DEF Fit, Held, Over
    <2>7. CASE c[d] = "live" /\ t < bk.until[d]
      <3>1. c2[d] = "live" /\ h2[d] = h[d] \cup {t + 1}
        BY <2>7
      <3>2. Cardinality(h2[d]) = Cardinality(h[d]) + 1
        BY <2>3, <2>4, <3>1, FS_AddElement
      <3>3. /\ bk.since[d] <= t
            /\ Cardinality(h[d]) <= bk.leased[d] + (t - bk.since[d])
            /\ d \notin B => bk.leased[d] + (t - bk.since[d]) = Cardinality(h[d])
        BY <2>1, <2>7 DEF Fit, Held, Over
      <3>4. /\ bk.since[d] <= t + 1 /\ t + 1 <= bk.until[d]
            /\ Cardinality(h2[d]) <= bk.leased[d] + ((t + 1) - bk.since[d])
            /\ d \notin B => bk.leased[d] + ((t + 1) - bk.since[d]) = Cardinality(h2[d])
        BY <2>2, <2>3, <2>7, <3>2, <3>3, HourLater
      <3>5. h2[d] \subseteq 1..(t + 1)
        BY <2>4, <3>1
      <3>6. QED
        BY <3>1, <3>4, <3>5 DEF Fit, Held, Over
    <2>8. CASE c[d] = "live" /\ ~ t < bk.until[d]
      <3>1. c2[d] = "stale" /\ h2[d] = h[d]
        BY <2>8
      <3>2. t <= bk.until[d]
        BY <2>1, <2>8 DEF Fit
      <3>3. ~ t < bk.until[d]
        BY <2>8
      <3>4. t = bk.until[d] /\ bk.until[d] < t + 1
        BY <2>2, <3>2, <3>3
      <3>5. /\ bk.since[d] <= t
            /\ Cardinality(h[d]) <= bk.leased[d] + (t - bk.since[d])
            /\ d \notin B => bk.leased[d] + (t - bk.since[d]) = Cardinality(h[d])
        BY <2>1, <2>8 DEF Fit, Held, Over
      <3>6. QED
        BY <2>4, <3>1, <3>4, <3>5 DEF Fit, Held, Over
    <2>9. QED
      BY <2>1, <2>5, <2>6, <2>7, <2>8
  <1>2. QED
    BY <1>1 DEF Fits

-----------------------------------------------------------------------------
(* The invariant *)

BookTypes ==
  /\ now \in 0..MaxTime
  /\ book \in [Variant -> Book]
  /\ worked \in [Variant -> Hours]
  /\ blurred \in [Variant -> SUBSET Deliverable]

ClaimsOn(v) ==
  IF v \in Variants THEN plan[v].claim ELSE [d \in Deliverable |-> "none"]

(* A plan has a baseline when its book says so.                            *)
Measured(v) ==
  IF v \in Variants THEN plan[v].baseline <=> book[v].number # 0
  ELSE book[v].number = 0

Booked(v) ==
  Measured(v) /\ Fits(ClaimsOn(v), book[v], worked[v], blurred[v], now)

AllBooked == BookTypes /\ \A v \in Variant : Booked(v)

LedgerInv == PortfolioInv /\ AllBooked

(* What the step leaves of a variant's removed scope earns what it did.    *)
KeepsEarned(w) ==
  book'[w].number = book[w].number =>
    \A d \in book[w].rows \ plan'[w].graph.ids :
      d \in Stale(plan[w]) \/
        RowEarns(plan'[w], book'[w], d) = RowEarns(plan[w], book[w], d)

EarnedKept == \A w \in Variants : KeepsEarned(w)

LEMMA BookedPlan ==
  ASSUME LedgerInv, NEW v \in Variants
  PROVE  /\ v \in Variant /\ plan[v] \in Plan /\ plan[v].claim \in Claims
         /\ book[v] \in Book /\ worked[v] \in Hours /\ blurred[v] \in SUBSET Deliverable
         /\ Fits(plan[v].claim, book[v], worked[v], blurred[v], now)
         /\ now \in Nat
         /\ \A d \in Deliverable : /\ book[v].until[d] \in Nat
                                   /\ Over(plan[v].claim[d], book[v].until[d], now) <= now
  <1>1. v \in Variant /\ plan[v] \in Plan
    BY VariantsPlans DEF LedgerInv, PortfolioInv
  <1>2. plan[v].claim \in Claims
    BY <1>1 DEF Plan, Claims
  <1>3. /\ book[v] \in Book /\ worked[v] \in Hours /\ blurred[v] \in SUBSET Deliverable
        /\ now \in Nat
    BY <1>1, LedgerAssumption DEF LedgerInv, AllBooked, BookTypes
  <1>4. Fits(plan[v].claim, book[v], worked[v], blurred[v], now)
    BY <1>1 DEF LedgerInv, AllBooked, Booked, ClaimsOn
  <1>5. ASSUME NEW d \in Deliverable
        PROVE  /\ book[v].until[d] \in Nat
               /\ Over(plan[v].claim[d], book[v].until[d], now) <= now
    <2>1. book[v].until[d] \in Nat
      BY <1>3 DEF Book
    <2>2. QED
      BY <1>3, <1>4, <2>1 DEF Fits, Fit, Over
  <1>6. QED
    BY <1>1, <1>2, <1>3, <1>4, <1>5

(* A step that changes no graph only has to leave what is frozen.          *)
LEMMA SameGraphKeeps ==
  ASSUME LedgerInv, NEW w \in Variants, plan'[w].graph = plan[w].graph,
         \A d \in Deliverable \ plan[w].graph.ids : book'[w].frozen[d] = book[w].frozen[d]
  PROVE  KeepsEarned(w)
  <1>1. book[w].rows \subseteq Deliverable
    BY BookedPlan DEF Book
  <1>2. QED
    BY <1>1 DEF KeepsEarned, RowEarns

(* A call that enters a plan and a book for one variant.                   *)
LEMMA EnterBooked ==
  ASSUME LedgerInv, NEW v \in Variants, NEW p \in Plan, NEW bk \in Book,
         NEW B \in SUBSET Deliverable,
         plan[v].baseline => p.baseline, bk.number = book[v].number \/ p.baseline,
         Enter(v, p, bk), blurred' = [blurred EXCEPT ![v] = B],
         Fits(p.claim, bk, worked[v], B, now)
  PROVE  /\ AllBooked'
         /\ p.graph = plan[v].graph /\ bk.frozen = book[v].frozen => EarnedKept
  <1>1. /\ v \in Variant /\ Variants' = Variants /\ plan'[v] = p
        /\ \A w \in Variants \ {v} : plan'[w] = plan[w]
    BY BookedPlan, ReplacedPlan DEF LedgerInv, PortfolioInv, Enter
  <1> DEFINE fb == FirstBaseline(bk, p)
  <1>2. p.baseline \/ bk.number = 0
    BY <1>1 DEF LedgerInv, AllBooked, Booked, Measured
  <1>3. fb \in Book /\ SameTimes(bk, fb) /\ (p.baseline <=> fb.number # 0)
        /\ fb.frozen = bk.frozen
    BY <1>2, FirstBook
  <1>4. book' = [book EXCEPT ![v] = fb] /\ worked' = worked /\ now' = now
    BY DEF Enter
  <1> HIDE DEF fb
  <1>5. BookTypes'
    BY <1>1, <1>3, <1>4 DEF LedgerInv, AllBooked, BookTypes
  <1>6. /\ book'[v] = fb /\ blurred'[v] = B
        /\ \A w \in Variant \ {v} : book'[w] = book[w] /\ blurred'[w] = blurred[w]
    BY <1>1, <1>4 DEF LedgerInv, AllBooked, BookTypes
  <1>7. Booked(v)'
    <2>1. Measured(v)'
      BY <1>1, <1>3, <1>6 DEF Measured
    <2>2. ClaimsOn(v)' = p.claim
      BY <1>1 DEF ClaimsOn
    <2>3. Fits(p.claim, fb, worked[v], B, now)
      BY <1>3, SameFits
    <2>4. QED
      BY <1>4, <1>6, <2>1, <2>2, <2>3 DEF Booked
  <1>8. ASSUME NEW w \in Variant \ {v}
        PROVE  Booked(w)'
    <2>1. ClaimsOn(w)' = ClaimsOn(w)
      BY <1>1 DEF ClaimsOn
    <2>2. Booked(w)
      BY DEF LedgerInv, AllBooked
    <2>3. Measured(w)'
      BY <1>1, <1>6, <2>2 DEF Booked, Measured
    <2>4. QED
      BY <1>4, <1>6, <2>1, <2>2, <2>3 DEF Booked
  <1>9. ASSUME p.graph = plan[v].graph, bk.frozen = book[v].frozen
        PROVE  EarnedKept
    <2>1. ASSUME NEW w \in Variants
          PROVE  plan'[w].graph = plan[w].graph /\ book'[w].frozen = book[w].frozen
      BY <1>1, <1>3, <1>6, <1>9 DEF Variants
    <2>2. QED
      BY <2>1, SameGraphKeeps DEF EarnedKept
  <1>10. QED
    BY <1>5, <1>7, <1>8, <1>9 DEF AllBooked

(* Leases end at the time they were over for a call that reaps, ...        *)
LEMMA ReapedFits ==
  ASSUME LedgerInv, NEW v \in Variants, NEW p, OnlyEnds(plan[v], p),
         NEW ended \in SUBSET Deliverable,
         ended = EndedBetween(plan[v], p)
  PROVE  LET bk == Credited(book[v], ended, ReapEnd(v))
         IN  /\ CreditedAt(bk, book[v], ended, ReapEnd(v))
             /\ Fits(p.claim, bk, worked[v], blurred[v], now)
  <1>1. /\ plan[v].claim \in Claims /\ book[v] \in Book /\ worked[v] \in Hours /\ now \in Nat
        /\ Fits(plan[v].claim, book[v], worked[v], blurred[v], now)
        /\ \A d \in Deliverable : book[v].until[d] \in Nat
    BY BookedPlan
  <1>2. p.claim \in Claims /\ \A d \in Deliverable : p.claim[d] \in {plan[v].claim[d], "none"}
    BY DEF OnlyEnds, Plan, Claims
  <1>3. \A d \in Deliverable : d \in ended <=> plan[v].claim[d] # "none" /\ p.claim[d] = "none"
    BY DEF EndedBetween, Claimed
  <1>4. \A d \in Deliverable : ReapEnd(v)[d] = Over(plan[v].claim[d], book[v].until[d], now)
    BY DEF ReapEnd, Lapse, Over, Stale
  <1>5. \A d \in ended : /\ ReapEnd(v)[d] \in Nat
                         /\ Over(plan[v].claim[d], book[v].until[d], now) <= ReapEnd(v)[d]
                         /\ ReapEnd(v)[d] = Over(plan[v].claim[d], book[v].until[d], now)
    BY <1>1, <1>4 DEF Over
  <1>6. blurred[v] \subseteq blurred[v]
    OBVIOUS
  <1> DEFINE end == ReapEnd(v)
  <1>7. \A d \in ended : end[d] \in Nat /\ book[v].since[d] <= end[d]
    BY <1>1, <1>3, <1>5 DEF Fits, Fit
  <1> HIDE DEF end
  <1>8. Fits(p.claim, Credited(book[v], ended, end), worked[v], blurred[v], now)
    BY <1>1, <1>2, <1>3, <1>5, <1>6, CreditFits DEF end
  <1>9. CreditedAt(Credited(book[v], ended, end), book[v], ended, end)
    BY <1>1, <1>7, CreditedBook
  <1>10. QED
    BY <1>8, <1>9 DEF end

(* ... and now for one that does not: too late if they had lapsed.         *)
LEMMA EndFits ==
  ASSUME LedgerInv, NEW v \in Variants, NEW p, OnlyEnds(plan[v], p), End(v, p)
  PROVE  AllBooked' /\ (p.graph = plan[v].graph => EarnedKept)
  <1> DEFINE ended == EndedBetween(plan[v], p)
             end == [d \in Deliverable |-> now]
             B2 == blurred[v] \cup (ended \cap Stale(plan[v]))
             bk == Credited(book[v], ended, end)
  <1>1. /\ plan[v].claim \in Claims /\ book[v] \in Book /\ worked[v] \in Hours /\ now \in Nat
        /\ Fits(plan[v].claim, book[v], worked[v], blurred[v], now)
        /\ blurred[v] \in SUBSET Deliverable
        /\ \A d \in Deliverable : Over(plan[v].claim[d], book[v].until[d], now) <= now
    BY BookedPlan
  <1>2. p \in Plan /\ p.claim \in Claims
        /\ \A d \in Deliverable : p.claim[d] \in {plan[v].claim[d], "none"}
    BY DEF OnlyEnds, Plan, Claims
  <1>3. ended \in SUBSET Deliverable /\ B2 \in SUBSET Deliverable /\ blurred[v] \subseteq B2
    BY <1>1 DEF EndedBetween, Claimed
  <1>4. \A d \in Deliverable : d \in ended <=> plan[v].claim[d] # "none" /\ p.claim[d] = "none"
    BY DEF EndedBetween, Claimed
  <1>5. \A d \in ended : /\ end[d] \in Nat
                         /\ Over(plan[v].claim[d], book[v].until[d], now) <= end[d]
                         /\ d \in B2 \/ end[d] = Over(plan[v].claim[d], book[v].until[d], now)
    BY <1>1, <1>3 DEF Over, Stale
  <1>6. Enter(v, p, bk) /\ blurred' = [blurred EXCEPT ![v] = B2]
    <2>1. blurred' = [blurred EXCEPT ![v] = @ \cup (ended \cap Stale(plan[v]))]
      BY DEF End
    <2>2. QED
      BY <2>1 DEF End
  <1> HIDE DEF ended, end, B2, bk
  <1>7. bk \in Book /\ Fits(p.claim, bk, worked[v], B2, now)
    BY <1>1, <1>2, <1>3, <1>4, <1>5, CreditFits DEF bk
  <1>8. \A d \in ended : end[d] \in Nat /\ book[v].since[d] <= end[d]
    <2>1. \A d \in Deliverable : book[v].since[d] \in Nat /\ book[v].until[d] \in Nat
      BY <1>1, LedgerAssumption DEF Book
    <2>2. \A d \in ended : book[v].since[d] <= Over(plan[v].claim[d], book[v].until[d], now)
      BY <1>1, <1>3, <1>4 DEF Fits, Fit
    <2>3. QED
      BY <1>1, <1>3, <1>5, <2>1, <2>2 DEF Over
  <1>9. bk.number = book[v].number /\ bk.frozen = book[v].frozen
    <2>1. CreditedAt(Credited(book[v], ended, end), book[v], ended, end)
      BY <1>1, <1>3, <1>8, CreditedBook
    <2>2. QED
      BY <2>1 DEF bk, CreditedAt
  <1>10. plan[v].baseline => p.baseline
    BY DEF OnlyEnds
  <1>11. QED
    BY <1>2, <1>3, <1>6, <1>7, <1>9, <1>10, EnterBooked

-----------------------------------------------------------------------------
(* The operations *)

LEMMA SubmitBooked ==
  ASSUME LedgerInv, NEW v \in Variant, NEW g \in ValidGraphs, Submit(v, g)
  PROVE  AllBooked' /\ EarnedKept
  <1>1. v \notin Variants /\ plan' = [plan EXCEPT ![v] = NewPlan(g)]
        /\ plan \in [Variant -> Plan \cup {NoPlan}]
    BY DEF Submit, Create, Variants, LedgerInv, PortfolioInv, Types
  <1>2. NewPlan(g) \in Plan /\ NewPlan(g).baseline = FALSE
        /\ NewPlan(g).claim = [d \in Deliverable |-> "none"]
    BY NewPlanType DEF NewPlan, ValidGraphs
  <1>3. plan'[v] = NewPlan(g) /\ Variants' = Variants \cup {v}
        /\ \A w \in Variants : plan'[w] = plan[w]
    BY <1>1, <1>2, PortfolioAssumption DEF Variants
  <1>4. UNCHANGED <<now, book, worked, blurred>>
    BY DEF Submit, ledgerVars
  <1>5. ASSUME NEW w \in Variant
        PROVE  Booked(w)'
    <2>1. Booked(w)
      BY DEF LedgerInv, AllBooked
    <2>2. ClaimsOn(w)' = ClaimsOn(w)
      BY <1>1, <1>2, <1>3 DEF ClaimsOn
    <2>3. Measured(w)'
      BY <1>1, <1>2, <1>3, <1>4, <2>1 DEF Booked, Measured
    <2>4. QED
      BY <1>4, <2>1, <2>2, <2>3 DEF Booked
  <1>6. BookTypes'
    BY <1>4 DEF LedgerInv, AllBooked, BookTypes
  <1>7. EarnedKept
    BY <1>3, <1>4, SameGraphKeeps DEF EarnedKept
  <1>8. QED
    BY <1>5, <1>6, <1>7 DEF AllBooked

(* A call that reaps what had lapsed and keeps the ledger otherwise.       *)
LEMMA ReapedBooked ==
  ASSUME LedgerInv, NEW v \in Variants, NEW p, OnlyEnds(plan[v], p),
         NEW bk \in Book, SameTimes(Reaped(v, p), bk), bk.number = Reaped(v, p).number,
         Enter(v, p, bk), UNCHANGED blurred
  PROVE  /\ AllBooked'
         /\ p.graph = plan[v].graph /\ bk.frozen = Reaped(v, p).frozen => EarnedKept
  <1> DEFINE ended == EndedBetween(plan[v], p)
  <1>1. ended \in SUBSET Deliverable
    BY DEF EndedBetween, Claimed
  <1>2. CreditedAt(Reaped(v, p), book[v], ended, ReapEnd(v))
        /\ Fits(p.claim, Reaped(v, p), worked[v], blurred[v], now)
    BY <1>1, ReapedFits DEF Reaped
  <1>3. bk.number = book[v].number /\ Reaped(v, p).frozen = book[v].frozen
    BY <1>2 DEF CreditedAt
  <1>4. Fits(p.claim, bk, worked[v], blurred[v], now)
    BY <1>2, SameFits
  <1>5. p \in Plan /\ (plan[v].baseline => p.baseline)
    BY DEF OnlyEnds
  <1>6. blurred' = [blurred EXCEPT ![v] = blurred[v]] /\ blurred[v] \in SUBSET Deliverable
    BY BookedPlan DEF LedgerInv, AllBooked, BookTypes
  <1>7. QED
    BY <1>3, <1>4, <1>5, <1>6, EnterBooked

LEMMA AcquireBooked ==
  ASSUME LedgerInv, NEW v \in Variant, NEW ttl \in Ttls, AcquireCohort(v, ttl)
  PROVE  AllBooked' /\ EarnedKept
  <1>1. v \in Variants
    BY DEF AcquireCohort, Executable, Live
  <1>2. plan[v] \in Plan /\ worked[v] \in Hours /\ blurred[v] \in SUBSET Deliverable
    BY <1>1, BookedPlan
  <1> DEFINE reaped == Ended(plan[v], Stale(plan[v]))
             ended == EndedBetween(plan[v], reaped)
             rbk == Reaped(v, reaped)
  <1>3. PICK cohort \in Cohorts(reaped) :
          Enter(v, Grant(reaped, cohort, "live"), WithGrants(rbk, cohort, now, ttl))
    BY DEF AcquireCohort, WithGrants
  <1>4. reaped \in Plan /\ OnlyEnds(plan[v], reaped) /\ reaped.graph = plan[v].graph
    BY <1>2, EndedPlan, EndedEnds, EndedKeeps
  <1>5. ended \in SUBSET Deliverable
    BY DEF EndedBetween, Claimed
  <1>6. CreditedAt(rbk, book[v], ended, ReapEnd(v))
        /\ Fits(reaped.claim, rbk, worked[v], blurred[v], now)
    BY <1>1, <1>4, <1>5, ReapedFits DEF Reaped
  <1> DEFINE p == Grant(reaped, cohort, "live")
             bk == WithGrants(rbk, cohort, now, ttl)
  <1> HIDE DEF reaped, rbk, ended
  <1>7. p \in Plan /\ p.graph = plan[v].graph
    BY <1>4, GrantPlan, GrantKeeps DEF Claim
  <1>8. reaped.claim \in Claims
    BY <1>4 DEF Plan, Claims
  <1>9. \A d \in cohort : d \in Deliverable /\ reaped.claim[d] = "none"
    <2>1. \A d \in cohort : d \in reaped.graph.ids \ Claimed(reaped)
      BY DEF Cohorts
    <2>2. QED
      BY <1>4, <2>1, IdsAreDeliverables DEF Claimed
  <1>10. /\ reaped.baseline => p.baseline
         /\ \A d \in Deliverable : p.claim[d] = IF d \in cohort THEN "live" ELSE reaped.claim[d]
    <2>1. CASE cohort = {}
      BY <2>1 DEF Grant
    <2>2. CASE cohort # {}
      BY <1>4, <2>2 DEF Grant, Plan
    <2>3. QED
      BY <2>1, <2>2
  <1>11. now \in 0..MaxTime /\ ttl \in Nat /\ rbk \in Book
    BY <1>6, LedgerAssumption DEF LedgerInv, AllBooked, BookTypes, CreditedAt
  <1> HIDE DEF p
  <1>12. bk \in Book /\ Fits(p.claim, bk, worked[v], blurred[v], now) /\ SameValues(rbk, bk)
    BY <1>2, <1>6, <1>8, <1>9, <1>10, <1>11, GrantFits
  <1>13. Enter(v, p, bk)
    BY <1>3 DEF p
  <1> HIDE DEF bk
  <1>14. bk.number = book[v].number /\ bk.frozen = book[v].frozen /\ (plan[v].baseline => p.baseline)
    BY <1>4, <1>6, <1>10, <1>12 DEF CreditedAt, OnlyEnds, SameValues
  <1>15. blurred' = [blurred EXCEPT ![v] = blurred[v]]
    BY DEF AcquireCohort, LedgerInv, AllBooked, BookTypes
  <1>16. QED
    BY <1>1, <1>2, <1>7, <1>12, <1>13, <1>14, <1>15, EnterBooked

LEMMA HeartbeatBooked ==
  ASSUME LedgerInv, NEW v \in Variant, NEW e \in Deliverable, NEW ttl \in Ttls,
         Heartbeat(v, e, ttl)
  PROVE  AllBooked' /\ EarnedKept
  <1>1. v \in Variants
    BY DEF Heartbeat, Executable, Live
  <1>2. /\ plan[v] \in Plan /\ plan[v].claim \in Claims /\ book[v] \in Book
        /\ worked[v] \in Hours /\ blurred[v] \in SUBSET Deliverable
        /\ Fits(plan[v].claim, book[v], worked[v], blurred[v], now)
    BY <1>1, BookedPlan
  <1> DEFINE bk == [book[v] EXCEPT !.until[e] = now + ttl]
  <1>3. now \in 0..MaxTime /\ ttl \in Nat /\ plan[v].claim[e] = "live"
    BY LedgerAssumption DEF LedgerInv, AllBooked, BookTypes, Heartbeat, LiveIn
  <1>4. bk \in Book /\ Fits(plan[v].claim, bk, worked[v], blurred[v], now)
        /\ bk.number = book[v].number /\ bk.frozen = book[v].frozen
    BY <1>2, <1>3, RenewFits
  <1>5. Enter(v, plan[v], bk)
    BY DEF Heartbeat
  <1> HIDE DEF bk
  <1>6. blurred' = [blurred EXCEPT ![v] = blurred[v]]
    BY DEF Heartbeat, LedgerInv, AllBooked, BookTypes
  <1>7. QED
    BY <1>1, <1>2, <1>4, <1>5, <1>6, EnterBooked

LEMMA MarkTerminalBooked ==
  ASSUME LedgerInv, NEW v \in Variant, MarkTerminal(v) \/ ForceRelease(v)
  PROVE  AllBooked' /\ EarnedKept
  <1>1. v \in Variants
    BY DEF MarkTerminal, ForceRelease, Executable, Live
  <1>2. plan[v] \in Plan
    BY <1>1, BookedPlan
  <1>3. PICK p \in MarkedComplete(plan[v]) \cup MarkedFailed(plan[v]) \cup Released(plan[v]) :
          End(v, p)
    BY DEF MarkTerminal, ForceRelease
  <1>4. OnlyEnds(plan[v], p) /\ p.graph = plan[v].graph
    BY <1>2, TerminalEnds, ReleasedEnds, MarkedKeeps, ReleasedKeeps
  <1>5. QED
    BY <1>1, <1>3, <1>4, EndFits

LEMMA MarkOpenBooked ==
  ASSUME LedgerInv, NEW v \in Variant, NEW e \in Deliverable, NEW s \in Marks,
         NEW report \in Reports \cup {NoPercent}, MarkOpen(v, e, s, report)
  PROVE  AllBooked' /\ EarnedKept
  <1>1. v \in Variants
    BY DEF MarkOpen, Executable, Live
  <1>2. /\ plan[v] \in Plan /\ book[v] \in Book /\ blurred[v] \in SUBSET Deliverable
        /\ Fits(plan[v].claim, book[v], worked[v], blurred[v], now)
    BY <1>1, BookedPlan
  <1> DEFINE p == MarkedAs(plan[v], e, s)
             bk == RecordReported(book[v], e, report)
  <1>3. /\ p \in Plan /\ p.claim = plan[v].claim /\ (plan[v].baseline => p.baseline)
        /\ p.graph = plan[v].graph
    <2>1. p \in MarkedOpen(plan[v])
      BY DEF MarkOpen, MarkedOpen
    <2>2. p \in Plan /\ p.graph = plan[v].graph
      BY <1>2, <2>1, MarkedPlan, MarkedKeeps
    <2>3. p.claim = plan[v].claim /\ p.baseline = IF s = "in_progress" THEN TRUE ELSE plan[v].baseline
      BY <1>2 DEF MarkedAs, Plan
    <2>4. QED
      BY <2>2, <2>3
  <1>4. bk \in Book /\ SameTimes(book[v], bk) /\ bk.number = book[v].number
        /\ bk.frozen = book[v].frozen
    BY <1>2, ReportedBook
  <1>5. Enter(v, p, bk)
    BY DEF MarkOpen
  <1> HIDE DEF p, bk
  <1>6. Fits(p.claim, bk, worked[v], blurred[v], now)
    BY <1>2, <1>3, <1>4, SameFits
  <1>7. blurred' = [blurred EXCEPT ![v] = blurred[v]]
    BY DEF MarkOpen, LedgerInv, AllBooked, BookTypes
  <1>8. QED
    BY <1>1, <1>2, <1>3, <1>4, <1>5, <1>6, <1>7, EnterBooked

LEMMA AcceptBooked ==
  ASSUME LedgerInv, NEW v \in Variant, Accept(v)
  PROVE  AllBooked' /\ EarnedKept
  <1>1. v \in Variants
    BY DEF Accept, Executable, Live
  <1>2. plan[v] \in Plan
    BY <1>1, BookedPlan
  <1>3. PICK p \in Accepted(plan[v]) : AfterReaping(v, p) /\ Enter(v, p, Reaped(v, p))
    BY DEF Accept
  <1>4. OnlyEnds(plan[v], p) /\ p.graph = plan[v].graph
    <2>1. p \in Executed(plan[v])
      BY <1>3 DEF Executed
    <2>2. QED
      BY <1>2, <2>1, AcceptedEnds, ExecutedKeeps
  <1> DEFINE ended == EndedBetween(plan[v], p)
  <1>5. ended \in SUBSET Deliverable
    BY DEF EndedBetween, Claimed
  <1>6. CreditedAt(Reaped(v, p), book[v], ended, ReapEnd(v))
    BY <1>1, <1>4, <1>5, ReapedFits DEF Reaped
  <1>7. Reaped(v, p) \in Book /\ SameTimes(Reaped(v, p), Reaped(v, p))
    BY <1>6 DEF CreditedAt, SameTimes
  <1>8. UNCHANGED blurred
    BY <1>3 DEF AfterReaping
  <1>9. QED
    BY <1>1, <1>3, <1>4, <1>7, <1>8, ReapedBooked

LEMMA BaselineBook ==
  ASSUME NEW bk \in Book, NEW p \in Plan
  PROVE  BuildBaseline(bk, p) \in Book /\ SameTimes(bk, BuildBaseline(bk, p))
         /\ BuildBaseline(bk, p).frozen = bk.frozen
         /\ BuildBaseline(bk, p).number = bk.number + 1
  <1> DEFINE n == bk.number + 1
             ids == p.graph.ids
             new == [bk EXCEPT !.number = n, !.rows = ids]
  <1>1. n \in Nat /\ ids \in SUBSET Deliverable
    BY IdsAreDeliverables DEF Book
  <1>2. BuildBaseline(bk, p) = new
    BY DEF BuildBaseline
  <1> HIDE DEF n, ids
  <1>3. new \in Book /\ SameTimes(bk, new) /\ new.frozen = bk.frozen /\ new.number = n
    BY <1>1 DEF Book, SameTimes
  <1> HIDE DEF new
  <1>4. QED
    BY <1>2, <1>3 DEF n

LEMMA TakeBaselineBooked ==
  ASSUME LedgerInv, NEW v \in Variant, TakeBaseline(v)
  PROVE  AllBooked' /\ EarnedKept
  <1>1. v \in Variants
    BY DEF TakeBaseline, Executable, Live
  <1>2. /\ plan[v] \in Plan /\ book[v] \in Book /\ blurred[v] \in SUBSET Deliverable
        /\ Fits(plan[v].claim, book[v], worked[v], blurred[v], now)
    BY <1>1, BookedPlan
  <1> DEFINE p == [plan[v] EXCEPT !.baseline = TRUE]
             bk == BuildBaseline(book[v], plan[v])
  <1>3. p \in Plan /\ p.graph = plan[v].graph /\ p.claim = plan[v].claim /\ p.baseline
    BY <1>2 DEF Plan
  <1>4. bk \in Book /\ SameTimes(book[v], bk) /\ bk.frozen = book[v].frozen
    BY <1>2, BaselineBook
  <1>5. Enter(v, p, bk)
    BY DEF TakeBaseline
  <1> HIDE DEF p, bk
  <1>6. Fits(p.claim, bk, worked[v], blurred[v], now)
    BY <1>2, <1>3, <1>4, SameFits
  <1>7. blurred' = [blurred EXCEPT ![v] = blurred[v]]
    BY DEF TakeBaseline, LedgerInv, AllBooked, BookTypes
  <1>8. QED
    BY <1>1, <1>2, <1>3, <1>4, <1>5, <1>6, <1>7, EnterBooked

LEMMA RevisePlanBooked ==
  ASSUME LedgerInv, NEW v \in Variant, NEW g \in ValidGraphs, RevisePlan(v, g)
  PROVE  AllBooked' /\ EarnedKept
  <1>1. v \in Variants
    BY DEF RevisePlan, Live
  <1>2. plan[v] \in Plan /\ g \in Graphs
    BY <1>1, BookedPlan DEF ValidGraphs
  <1> DEFINE old == Ended(plan[v], Stale(plan[v]))
  <1>3. PICK p \in Revised(plan[v], g) :
          AfterReaping(v, p) /\ Enter(v, p, ScopeChange(Reaped(v, p), old, p))
    BY DEF RevisePlan
  <1>4. OnlyEnds(plan[v], p) /\ p \in Plan /\ old \in Plan
    BY <1>2, RevisedEnds, EndedPlan DEF OnlyEnds
  <1> DEFINE ended == EndedBetween(plan[v], p)
  <1>5. ended \in SUBSET Deliverable
    BY DEF EndedBetween, Claimed
  <1>6. CreditedAt(Reaped(v, p), book[v], ended, ReapEnd(v))
    BY <1>1, <1>4, <1>5, ReapedFits DEF Reaped
  <1>7. Reaped(v, p) \in Book /\ SameValues(book[v], Reaped(v, p))
    BY <1>6 DEF CreditedAt, SameValues
  <1>8. old.graph = plan[v].graph
        /\ \A d \in Deliverable \ Stale(plan[v]) : old.status[d] = plan[v].status[d]
    BY <1>2, EndedKeeps
  <1> HIDE DEF old
  <1> DEFINE bk == ScopeChange(Reaped(v, p), old, p)
  <1>9. /\ bk \in Book /\ SameTimes(Reaped(v, p), bk) /\ bk.number = Reaped(v, p).number
        /\ \A d \in Deliverable \ p.graph.ids :
             /\ d \in old.graph.ids /\ d \in Reaped(v, p).rows =>
                  bk.frozen[d] = EarnedPct(d, old.status[d], Reaped(v, p).pct[d])
             /\ d \notin old.graph.ids => bk.frozen[d] = Reaped(v, p).frozen[d]
    BY <1>4, <1>7, ScopeBook
  <1>10. UNCHANGED blurred /\ Enter(v, p, bk)
    BY <1>3 DEF AfterReaping
  <1> HIDE DEF bk
  <1>11. AllBooked'
    BY <1>1, <1>4, <1>9, <1>10, ReapedBooked
  <1>12. /\ plan'[v] = p /\ \A w \in Variants \ {v} : plan'[w] = plan[w]
         /\ book' = [book EXCEPT ![v] = FirstBaseline(bk, p)]
    BY <1>1, <1>4, <1>10, ReplacedPlan DEF Enter, LedgerInv, PortfolioInv
  <1> DEFINE fb == FirstBaseline(bk, p)
  <1>13. book'[v] = fb /\ \A w \in Variants \ {v} : book'[w] = book[w]
    BY <1>1, <1>12 DEF LedgerInv, AllBooked, BookTypes, Variants
  <1>14. fb.frozen = bk.frozen
    BY <1>4, <1>9, FirstBook
  <1> HIDE DEF fb
  <1>15. KeepsEarned(v)
    <2>1. ASSUME NEW d \in book[v].rows \ p.graph.ids, d \notin Stale(plan[v])
          PROVE  RowEarns(p, fb, d) = RowEarns(plan[v], book[v], d)
      <3>1. d \in Deliverable /\ book[v].pct[d] \in Percent
        BY <1>1, <2>1, BookedPlan DEF Book
      <3>2. CASE d \in plan[v].graph.ids
        <4>1. fb.frozen[d] = EarnedPct(d, plan[v].status[d], book[v].pct[d])
          BY <1>7, <1>8, <1>9, <1>14, <2>1, <3>1, <3>2 DEF SameValues
        <4>2. EarnedPct(d, plan[v].status[d], book[v].pct[d]) # NoPercent
          BY <3>1, EarnedIsPercent, LedgerAssumption
        <4>3. QED
          BY <2>1, <3>2, <4>1, <4>2 DEF RowEarns
      <3>3. CASE d \notin plan[v].graph.ids
        <4>1. fb.frozen[d] = book[v].frozen[d]
          BY <1>7, <1>8, <1>9, <1>14, <2>1, <3>1, <3>3 DEF SameValues
        <4>2. QED
          BY <2>1, <3>3, <4>1 DEF RowEarns
      <3>4. QED
        BY <3>2, <3>3
    <2>2. QED
      BY <1>12, <1>13, <2>1 DEF KeepsEarned
  <1>16. EarnedKept
    BY <1>12, <1>13, <1>15, SameGraphKeeps DEF EarnedKept
  <1>17. QED
    BY <1>11, <1>16

(* Leases of v end in a call that reaps.                                   *)
LEMMA SettledBooked ==
  ASSUME LedgerInv, NEW v \in Variants, v \in Variants',
         OnlyEnds(plan[v], plan'[v]), plan'[v].baseline = plan[v].baseline,
         NEW ended \in SUBSET Deliverable, ended = EndedBetween(plan[v], plan'[v]),
         book'[v] = Credited(book[v], ended, ReapEnd(v)),
         now' = now, worked'[v] = worked[v], blurred'[v] = blurred[v]
  PROVE  Booked(v)' /\ book'[v] \in Book /\ SameValues(book[v], book'[v])
  <1> DEFINE bk == Credited(book[v], ended, ReapEnd(v))
             p == plan'[v]
  <1>1. /\ CreditedAt(bk, book[v], ended, ReapEnd(v))
        /\ Fits(p.claim, bk, worked[v], blurred[v], now)
    BY ReapedFits
  <1> HIDE DEF bk
  <1>2. bk \in Book /\ SameValues(book[v], bk)
    BY <1>1 DEF CreditedAt, SameValues
  <1>3. book'[v] = bk
    BY DEF bk
  <1>4. plan[v].baseline <=> book[v].number # 0
    BY BookedPlan DEF LedgerInv, AllBooked, Booked, Measured
  <1>5. Measured(v)'
    BY <1>2, <1>3, <1>4 DEF Measured, SameValues
  <1>6. ClaimsOn(v)' = p.claim
    BY DEF ClaimsOn
  <1> HIDE DEF p
  <1>7. QED
    BY <1>1, <1>2, <1>3, <1>5, <1>6 DEF Booked

LEMMA UntouchedBooked ==
  ASSUME LedgerInv, NEW w \in Variant, w \in Variants <=> w \in Variants',
         plan'[w] = plan[w], book'[w] = book[w],
         now' = now, worked'[w] = worked[w], blurred'[w] = blurred[w]
  PROVE  Booked(w)'
  <1>1. Booked(w)
    BY DEF LedgerInv, AllBooked
  <1>2. ClaimsOn(w)' = ClaimsOn(w)
    BY DEF ClaimsOn
  <1>3. Measured(w)'
    BY <1>1 DEF Booked, Measured
  <1>4. QED
    BY <1>1, <1>2, <1>3 DEF Booked

LEMMA ArchiveBooked ==
  ASSUME LedgerInv, NEW force \in BOOLEAN, Archive(force)
  PROVE  AllBooked' /\ EarnedKept
  <1>0. PICK s : s = selected
    OBVIOUS
  <1>1. s \in Variants
    BY <1>0 DEF Archive, ArchiveLine, LedgerInv, PortfolioInv, SelectedCanExecute
  <1>2. plan[s] \in Plan
    BY <1>1, BookedPlan
  <1>3. PICK old \in Vacated(plan[s], force) : plan' = [plan EXCEPT ![s] = old]
    BY <1>0 DEF Archive, ArchiveLine
  <1>4. /\ OnlyEnds(plan[s], old) /\ old.baseline = plan[s].baseline
        /\ old \in Plan /\ Claimed(old) = {} /\ old.graph = plan[s].graph
    BY <1>2, VacatedEnds, VacatedPlan, VacatedKeeps
  <1>5. /\ Variants' = Variants /\ plan'[s] = old
        /\ \A w \in Variants \ {s} : plan'[w] = plan[w]
        /\ plan' \in [Variant -> Plan \cup {NoPlan}]
    BY <1>1, <1>3, <1>4, ReplacedPlan DEF LedgerInv, PortfolioInv
  <1> DEFINE ended == Claimed(plan[s])
             bk == Credited(book[s], ended, ReapEnd(s))
  <1>6. ended \in SUBSET Deliverable /\ ended = EndedBetween(plan[s], plan'[s])
    BY <1>4, <1>5 DEF EndedBetween, Claimed
  <1>7. book' = [book EXCEPT ![s] = bk] /\ UNCHANGED <<now, worked, blurred>>
    BY <1>0 DEF Archive
  <1> HIDE DEF ended, bk
  <1>8. book'[s] = bk /\ s \in Variant
    BY <1>1, <1>7 DEF Variants, LedgerInv, AllBooked, BookTypes
  <1>9. Booked(s)' /\ book'[s] \in Book /\ SameValues(book[s], book'[s])
    BY <1>1, <1>4, <1>5, <1>6, <1>7, <1>8, SettledBooked DEF bk
  <1>10. ASSUME NEW w \in Variant \ {s}
         PROVE  Booked(w)' /\ plan'[w] = plan[w] /\ book'[w] = book[w]
    <2>1. plan'[w] = plan[w] /\ book'[w] = book[w]
      BY <1>3, <1>7 DEF LedgerInv, PortfolioInv, Types, AllBooked, BookTypes
    <2>2. QED
      BY <1>5, <1>7, <2>1, UntouchedBooked
  <1>11. BookTypes'
    BY <1>7, <1>8, <1>9 DEF LedgerInv, AllBooked, BookTypes
  <1>12. EarnedKept
    <2>1. ASSUME NEW w \in Variants
          PROVE  plan'[w].graph = plan[w].graph /\ book'[w].frozen = book[w].frozen
      BY <1>4, <1>5, <1>9, <1>10 DEF SameValues, Variants
    <2>2. QED
      BY <2>1, SameGraphKeeps DEF EarnedKept
  <1>13. QED
    BY <1>9, <1>10, <1>11, <1>12 DEF AllBooked

LEMMA QuarantineBooked ==
  ASSUME LedgerInv, QuarantineExpired
  PROVE  AllBooked' /\ EarnedKept
  <1>1. PICK lost \in [Variants -> SUBSET Deliverable] :
          /\ \A v \in Variants : lost[v] \subseteq Stale(plan[v])
          /\ plan' = [v \in Variant |-> IF v \in Variants
                                        THEN Ended(plan[v], lost[v]) ELSE NoPlan]
    BY DEF QuarantineExpired, Sweep
  <1>2. ASSUME NEW v \in Variants
        PROVE  /\ v \in Variant /\ v \in Variants' /\ plan'[v].graph = plan[v].graph
               /\ OnlyEnds(plan[v], plan'[v]) /\ plan'[v].baseline = plan[v].baseline
               /\ Stale(plan[v]) = EndedBetween(plan[v], plan'[v])
    <2>1. v \in Variant /\ plan[v] \in Plan
      BY BookedPlan
    <2>2. plan'[v] = Ended(plan[v], lost[v])
      BY <1>1, <2>1
    <2>3. OnlyEnds(plan[v], plan'[v]) /\ plan'[v].baseline = plan[v].baseline
          /\ \A d \in Deliverable : plan'[v].claim[d] = IF d \in lost[v] THEN "none" ELSE plan[v].claim[d]
      BY <2>1, <2>2, EndedEnds
    <2>4. v \in Variants'
      BY <2>1, <2>3, PortfolioAssumption DEF Variants, OnlyEnds
    <2>5. Stale(plan'[v]) = {} /\ lost[v] \subseteq Stale(plan[v])
      BY <1>1, <2>4 DEF QuarantineExpired
    <2>6. Stale(plan[v]) = EndedBetween(plan[v], plan'[v])
      BY <2>3, <2>5 DEF EndedBetween, Claimed, Stale
    <2>7. QED
      BY <2>1, <2>2, <2>3, <2>4, <2>6, EndedKeeps
  <1>3. book' = [v \in Variant |-> IF v \in Variants
                                   THEN Credited(book[v], Stale(plan[v]), ReapEnd(v))
                                   ELSE book[v]]
        /\ UNCHANGED <<now, worked, blurred>>
    BY DEF QuarantineExpired
  <1>4. ASSUME NEW v \in Variants
        PROVE  Booked(v)' /\ book'[v] \in Book /\ SameValues(book[v], book'[v])
    <2>1. Stale(plan[v]) \in SUBSET Deliverable
      BY DEF Stale
    <2>2. book'[v] = Credited(book[v], Stale(plan[v]), ReapEnd(v))
      BY <1>2, <1>3
    <2>3. QED
      BY <1>2, <1>3, <2>1, <2>2, SettledBooked
  <1>5. ASSUME NEW v \in Variant \ Variants
        PROVE  Booked(v)' /\ book'[v] \in Book
    <2>1. plan'[v] = NoPlan /\ plan[v] = NoPlan /\ v \notin Variants'
      BY <1>1 DEF Variants
    <2>2. book'[v] = book[v] /\ book[v] \in Book
      BY <1>3 DEF LedgerInv, AllBooked, BookTypes
    <2>3. QED
      BY <1>3, <2>1, <2>2, UntouchedBooked
  <1>6. \A v \in Variant : Booked(v)' /\ book'[v] \in Book
    BY <1>4, <1>5
  <1>7. BookTypes'
    BY <1>3, <1>6 DEF LedgerInv, AllBooked, BookTypes
  <1>8. EarnedKept
    BY <1>2, <1>4, SameGraphKeeps DEF EarnedKept, SameValues
  <1>9. QED
    BY <1>6, <1>7, <1>8 DEF AllBooked

LEMMA TickBooked ==
  ASSUME LedgerInv, Tick
  PROVE  AllBooked' /\ EarnedKept
  <1> DEFINE running(v) == {d \in LiveIn(plan[v]) : now < book[v].until[d]}
             claims(v) == [d \in Deliverable |->
                             IF d \in LiveIn(plan[v]) \ running(v) THEN "stale"
                             ELSE plan[v].claim[d]]
             After(v) == [plan[v] EXCEPT !.claim = claims(v)]
             hours(v) == [d \in Deliverable |->
                            IF v \in Variants /\ d \in running(v)
                            THEN worked[v][d] \cup {now + 1} ELSE worked[v][d]]
  <1>1. /\ now < MaxTime /\ now' = now + 1
        /\ plan' = [v \in Variant |-> IF v \in Variants THEN After(v) ELSE NoPlan]
        /\ worked' = [v \in Variant |-> hours(v)]
        /\ UNCHANGED <<book, blurred>>
    BY DEF Tick
  <1>2. now \in Nat /\ now + 1 \in 1..MaxTime /\ now + 1 \in 0..MaxTime
    BY <1>1, LedgerAssumption DEF LedgerInv, AllBooked, BookTypes
  <1>3. ASSUME NEW v \in Variants
        PROVE  /\ v \in Variants' /\ ClaimsOn(v)' = claims(v)
               /\ plan'[v].baseline = plan[v].baseline /\ plan'[v].graph = plan[v].graph
    <2>1. v \in Variant /\ plan[v] \in Plan
      BY BookedPlan
    <2>2. claims(v) \in Claims
      BY <2>1 DEF Plan, Claims, Claim
    <2>3. plan'[v] = After(v)
      BY <1>1, <2>1
    <2> HIDE DEF claims
    <2>4. After(v) \in Plan /\ After(v).claim = claims(v) /\ After(v).baseline = plan[v].baseline
          /\ After(v).graph = plan[v].graph
      BY <2>1, <2>2 DEF Plan, Claims
    <2>5. v \in Variants'
      BY <2>1, <2>3, <2>4, PortfolioAssumption DEF Variants
    <2>6. QED
      BY <2>3, <2>4, <2>5 DEF ClaimsOn
  <1>4. ASSUME NEW v \in Variant \ Variants
        PROVE  v \notin Variants'
    BY <1>1 DEF Variants
  <1>5. ASSUME NEW v \in Variant
        PROVE  Booked(v)' /\ worked'[v] \in Hours
    <2>1. /\ Booked(v) /\ book[v] \in Book /\ worked[v] \in Hours
          /\ book'[v] = book[v] /\ blurred'[v] = blurred[v] /\ worked'[v] = hours(v)
      BY <1>1 DEF LedgerInv, AllBooked, BookTypes
    <2>2. worked'[v] \in Hours
      BY <1>2, <2>1 DEF Hours
    <2>3. Measured(v)'
      BY <1>3, <1>4, <2>1 DEF Booked, Measured
    <2>4. ClaimsOn(v) \in Claims
      BY BookedPlan DEF ClaimsOn, Claims, Claim
    <2>5. \A d \in Deliverable :
            ClaimsOn(v)'[d] = IF ClaimsOn(v)[d] = "live" /\ ~ now < book[v].until[d]
                              THEN "stale" ELSE ClaimsOn(v)[d]
      <3>1. CASE v \in Variants
        BY <1>3, <3>1 DEF ClaimsOn, LiveIn
      <3>2. CASE v \notin Variants
        BY <1>4, <3>2 DEF ClaimsOn
      <3>3. QED
        BY <3>1, <3>2
    <2>6. \A d \in Deliverable :
            worked'[v][d] = IF ClaimsOn(v)[d] = "live" /\ now < book[v].until[d]
                            THEN worked[v][d] \cup {now + 1} ELSE worked[v][d]
      BY <2>1 DEF ClaimsOn, LiveIn
    <2>7. Fits(ClaimsOn(v), book[v], worked[v], blurred[v], now)
      BY <2>1 DEF Booked
    <2> DEFINE c == ClaimsOn(v)
               c2 == ClaimsOn(v)'
               h2 == worked'[v]
    <2>8. \A d \in Deliverable :
            /\ c2[d] = IF c[d] = "live" /\ ~ now < book[v].until[d] THEN "stale" ELSE c[d]
            /\ h2[d] = IF c[d] = "live" /\ now < book[v].until[d]
                       THEN worked[v][d] \cup {now + 1} ELSE worked[v][d]
      BY <2>5, <2>6
    <2> HIDE DEF c, c2, h2, hours, claims
    <2>9. Fits(c2, book[v], h2, blurred[v], now + 1)
      BY <1>1, <1>2, <2>1, <2>4, <2>7, <2>8, TickFits DEF c
    <2>10. QED
      BY <1>1, <2>1, <2>2, <2>3, <2>9 DEF Booked, c2, h2
  <1>6. BookTypes'
    BY <1>1, <1>2, <1>5 DEF LedgerInv, AllBooked, BookTypes
  <1>7. EarnedKept
    BY <1>1, <1>3, SameGraphKeeps DEF EarnedKept
  <1>8. QED
    BY <1>5, <1>6, <1>7 DEF AllBooked

LEMMA InitBooked == LedgerInit => AllBooked
  <1> SUFFICES ASSUME LedgerInit PROVE AllBooked
    OBVIOUS
  <1>1. EmptyBook \in Book /\ EmptyBook.number = 0
        /\ \A d \in Deliverable : EmptyBook.leased[d] = 0
    BY LedgerAssumption DEF EmptyBook, Book, Percent
  <1>2. BookTypes
    BY <1>1, LedgerAssumption DEF LedgerInit, BookTypes, Hours
  <1>3. ASSUME NEW v \in Variant
        PROVE  Booked(v)
    <2>1. v \notin Variants /\ book[v] = EmptyBook /\ now = 0
          /\ \A d \in Deliverable : worked[v][d] = {}
      BY DEF LedgerInit, Init, Variants
    <2>2. Measured(v) /\ \A d \in Deliverable : ClaimsOn(v)[d] = "none"
      BY <1>1, <2>1 DEF Measured, ClaimsOn
    <2>3. ASSUME NEW d \in Deliverable
          PROVE  Fit(ClaimsOn(v)[d], book[v], worked[v][d], blurred[v], now, d)
      <3>1. ClaimsOn(v)[d] = "none" /\ book[v].leased[d] = 0
            /\ worked[v][d] = {} /\ Cardinality({}) = 0
        BY <1>1, <2>1, <2>2, FS_EmptySet
      <3>2. QED
        BY <3>1 DEF Fit, Held
    <2>4. Fits(ClaimsOn(v), book[v], worked[v], blurred[v], now)
      BY <2>3 DEF Fits
    <2>5. QED
      BY <2>2, <2>4 DEF Booked
  <1>4. QED
    BY <1>2, <1>3 DEF AllBooked

(* What a selection makes of the two plans.                                *)
LEMMA SelectionPlans ==
  ASSUME PortfolioInv, NEW v \in Variant, NEW force, Select(v, force)
  PROVE  \E old, new \in Plan :
           /\ plan' = [plan EXCEPT ![selected] = old, ![v] = new]
           /\ OnlyEnds(plan[selected], old) /\ old.baseline = plan[selected].baseline
           /\ old.graph = plan[selected].graph /\ Claimed(old) = {}
           /\ OnlyEnds(plan[v], new) /\ new.graph = plan[v].graph /\ Claimed(new) = {}
  <1>1. PICK old \in Vacated(plan[selected], force), reaped \in Reaps(plan[v]),
             history \in BOOLEAN :
          LET moved   == CarryProgress(old, reaped)
              started == Starts(reaped, moved, history)
          IN  plan' = [plan EXCEPT ![selected] = old,
                         ![v] = [moved EXCEPT !.baseline = @ \/ started]]
    BY DEF Select
  <1>2. v \in Variants /\ selected \in Variants /\ v # selected
    BY DEF PortfolioInv, SelectedCanExecute, Select, Live
  <1>3. plan[v] \in Plan /\ plan[selected] \in Plan /\ Claimed(plan[v]) = {}
    BY <1>2, VariantsPlans DEF PortfolioInv, OnlyExecutableLeased
  <1>4. /\ old \in Plan /\ Claimed(old) = {} /\ old.graph = plan[selected].graph
        /\ OnlyEnds(plan[selected], old) /\ old.baseline = plan[selected].baseline
    BY <1>3, VacatedPlan, VacatedKeeps, VacatedEnds
  <1>5. /\ reaped \in Plan /\ Claimed(reaped) = {} /\ reaped.graph = plan[v].graph
        /\ reaped.baseline = plan[v].baseline
    BY <1>3, ReapsPlan, NothingToReap, ReapsEnds
  <1> DEFINE moved == CarryProgress(old, reaped)
             started == Starts(reaped, moved, history)
             new == [moved EXCEPT !.baseline = @ \/ started]
  <1>6. /\ moved \in Plan /\ Claimed(moved) = {} /\ moved.graph = plan[v].graph
        /\ moved.baseline = reaped.baseline
    <2>1. moved \in Plan /\ Claimed(moved) = {} /\ moved.graph = plan[v].graph
      BY <1>4, <1>5, CarriedPlan, CarriedKeeps
    <2>2. moved.baseline = reaped.baseline
      BY <1>5 DEF CarryProgress, Plan
    <2>3. QED
      BY <2>1, <2>2
  <1>7. started \in BOOLEAN
    BY DEF Starts, HasProgress
  <1>8. plan' = [plan EXCEPT ![selected] = old, ![v] = new]
    BY <1>1
  <1> HIDE DEF moved, started
  <1>9. new \in Plan /\ new.claim = moved.claim /\ new.graph = moved.graph
        /\ (moved.baseline => new.baseline)
    BY <1>6, <1>7 DEF Plan
  <1> HIDE DEF new
  <1>10. Claimed(new) = {}
    BY <1>6, <1>9 DEF Claimed
  <1>11. OnlyEnds(plan[v], new)
    BY <1>5, <1>6, <1>9, <1>10 DEF OnlyEnds, Claimed
  <1>12. QED
    BY <1>4, <1>6, <1>8, <1>9, <1>10, <1>11

(* ... and of the two books: the old one is settled first, then what was   *)
(* done is carried along.                                                  *)
Carrying(v) == CarriedOver(Ended(plan[selected], Claimed(plan[selected])), plan[v])

Settled(v) == Credited(book[v], Claimed(plan[v]), ReapEnd(v))

LEMMA CarryingIn ==
  ASSUME NEW v
  PROVE  Carrying(v) \subseteq plan[v].graph.ids
  BY DEF Carrying, CarriedOver, Candidates, Survivors

LEMMA SelectionBooks ==
  ASSUME NEW v, NEW force, SelectVariant(v, force)
  PROVE  /\ book' = [book EXCEPT ![selected] = Settled(selected),
                       ![v] = FirstBaseline(CarryActuals(Settled(selected), book[v], Carrying(v)),
                                            plan'[v])]
         /\ worked' = [worked EXCEPT
                         ![v] = [d \in Deliverable |->
                                   IF d \in Carrying(v)
                                   THEN worked[v][d] \cup worked[selected][d] ELSE worked[v][d]]]
         /\ blurred' = [blurred EXCEPT
                          ![v] = blurred[v] \cup
                                   {d \in Carrying(v) :
                                      \/ d \in blurred[selected]
                                      \/ worked[v][d] \cap worked[selected][d] # {}}]
         /\ now' = now /\ v # selected
  BY DEF SelectVariant, Select, Carrying, Settled

LEMMA SelectBooked ==
  ASSUME LedgerInv, NEW v \in Variant, NEW force \in BOOLEAN, SelectVariant(v, force)
  PROVE  AllBooked' /\ EarnedKept
  <1>0. PICK s : s = selected
    OBVIOUS
  <1>1. /\ s \in Variants /\ v \in Variants /\ v # s
        /\ s \in Variant /\ Select(v, force)
    BY <1>0 DEF SelectVariant, Select, Live, Variants, LedgerInv, PortfolioInv, SelectedCanExecute
  <1>2. PICK old \in Plan, new \in Plan :
          /\ plan' = [plan EXCEPT ![s] = old, ![v] = new]
          /\ OnlyEnds(plan[s], old) /\ old.baseline = plan[s].baseline
          /\ old.graph = plan[s].graph /\ Claimed(old) = {}
          /\ OnlyEnds(plan[v], new) /\ new.graph = plan[v].graph /\ Claimed(new) = {}
    BY <1>0, <1>1, SelectionPlans DEF LedgerInv
  <1>3. /\ plan'[s] = old /\ plan'[v] = new
        /\ \A w \in Variant \ {s, v} : plan'[w] = plan[w]
        /\ \A w \in Variant : w \in Variants <=> w \in Variants'
    BY <1>1, <1>2, PortfolioAssumption DEF Variants, LedgerInv, PortfolioInv, Types
  <1> DEFINE carried == Carrying(v)
             settled == Settled(s)
             cbk == CarryActuals(settled, book[v], carried)
             nbk == FirstBaseline(cbk, new)
             hours == [d \in Deliverable |-> IF d \in carried THEN worked[v][d] \cup worked[s][d]
                                             ELSE worked[v][d]]
             B == blurred[v] \cup {d \in carried : \/ d \in blurred[s]
                                                   \/ worked[v][d] \cap worked[s][d] # {}}
  <1>4. /\ book' = [book EXCEPT ![s] = settled, ![v] = nbk]
        /\ worked' = [worked EXCEPT ![v] = hours]
        /\ blurred' = [blurred EXCEPT ![v] = B] /\ now' = now
    BY <1>0, <1>3, SelectionBooks
  <1>5. /\ plan[v] \in Plan /\ book[v] \in Book /\ worked[v] \in Hours
        /\ blurred[v] \in SUBSET Deliverable /\ now \in Nat
        /\ Fits(plan[v].claim, book[v], worked[v], blurred[v], now)
        /\ worked[s] \in Hours
    BY <1>1, BookedPlan
  <1>6. carried \subseteq plan[v].graph.ids /\ carried \subseteq Deliverable /\ B \in SUBSET Deliverable /\ blurred[v] \subseteq B
        /\ \A d \in carried : d \in blurred[s] \/ worked[v][d] \cap worked[s][d] # {} => d \in B
    BY <1>5, CarryingIn, IdsAreDeliverables
  <1>7. hours \in Hours
    BY <1>5 DEF Hours
  <1>8. Claimed(plan[s]) \in SUBSET Deliverable /\ Claimed(plan[s]) = EndedBetween(plan[s], old)
    BY <1>2 DEF EndedBetween, Claimed
  <1>9. CreditedAt(settled, book[s], Claimed(plan[s]), ReapEnd(s))
        /\ Fits(old.claim, settled, worked[s], blurred[s], now)
    BY <1>1, <1>2, <1>8, ReapedFits DEF Settled
  <1>10. settled \in Book
    BY <1>9 DEF CreditedAt
  <1> HIDE DEF carried, settled, B
  <1>11. /\ cbk \in Book /\ cbk.number = book[v].number
         /\ \A d \in Deliverable :
              cbk.leased[d] = IF d \in carried THEN book[v].leased[d] + settled.leased[d]
                              ELSE book[v].leased[d]
         /\ \A d \in Deliverable \ carried : cbk.frozen[d] = book[v].frozen[d]
    BY <1>5, <1>10, CarriedBook
  <1> HIDE DEF cbk
  <1>12. new.claim \in Claims /\ old.claim \in Claims
         /\ \A d \in Deliverable : new.claim[d] = "none" /\ old.claim[d] = "none"
    BY <1>2 DEF Claimed, Plan, Claims
  <1>13. plan[v].claim = new.claim
    <2>1. Claimed(plan[v]) = {} /\ plan[v].claim \in Claims
      BY <1>0, <1>1, <1>5 DEF LedgerInv, PortfolioInv, OnlyExecutableLeased, Plan, Claims
    <2>2. QED
      BY <1>12, <2>1 DEF Claimed, Claims
  <1>14. Fits(new.claim, cbk, hours, B, now)
    <2>1. ASSUME NEW d \in Deliverable
          PROVE  Fit("none", cbk, hours[d], B, now, d)
      <3>1. Fit("none", book[v], worked[v][d], blurred[v], now, d)
            /\ Fit("none", settled, worked[s][d], blurred[s], now, d)
        BY <1>5, <1>9, <1>12, <1>13 DEF Fits
      <3>2. /\ worked[v][d] \in SUBSET (1..MaxTime) /\ worked[s][d] \in SUBSET (1..MaxTime)
            /\ book[v].leased[d] \in Nat /\ settled.leased[d] \in Nat
        BY <1>5, <1>10 DEF Hours, Book
      <3>3. CASE d \in carried
        <4>1. hours[d] = worked[v][d] \cup worked[s][d]
              /\ cbk.leased[d] = book[v].leased[d] + settled.leased[d]
          BY <1>11, <3>3
        <4>2. d \notin B => /\ d \notin blurred[v] /\ d \notin blurred[s]
                            /\ worked[v][d] \cap worked[s][d] = {}
          BY <1>6, <3>3
        <4>3. now \in Nat
          BY <1>5
        <4>4. Fit("none", cbk, worked[v][d] \cup worked[s][d], B, now, d)
          BY <3>1, <3>2, <4>1, <4>2, <4>3, CarryFit
        <4>5. QED
          BY <4>1, <4>4
      <3>4. CASE d \notin carried
        <4>1. hours[d] = worked[v][d] /\ cbk.leased[d] = book[v].leased[d]
          BY <1>11, <3>4
        <4>2. d \notin B => d \notin blurred[v]
          BY <1>6
        <4>3. QED
          BY <3>1, <4>1, <4>2 DEF Fit, Held
      <3>5. QED
        BY <3>3, <3>4
    <2>2. QED
      BY <1>12, <2>1 DEF Fits
  <1> HIDE DEF hours
  <1>15. plan[v].baseline <=> book[v].number # 0
    BY <1>1 DEF LedgerInv, AllBooked, Booked, Measured
  <1>16. nbk \in Book /\ SameTimes(cbk, nbk) /\ nbk.frozen = cbk.frozen /\ (new.baseline <=> nbk.number # 0)
    BY <1>2, <1>11, <1>15, FirstBook DEF OnlyEnds
  <1> HIDE DEF nbk
  <1>17. Fits(new.claim, nbk, hours, B, now)
    BY <1>14, <1>16, SameFits
  <1>18. /\ book'[s] = settled /\ book'[v] = nbk
         /\ worked'[v] = hours /\ blurred'[v] = B
         /\ \A w \in Variant \ {v} : worked'[w] = worked[w] /\ blurred'[w] = blurred[w]
         /\ \A w \in Variant \ {s, v} : book'[w] = book[w]
    BY <1>1, <1>4 DEF LedgerInv, AllBooked, BookTypes
  <1>19. BookTypes'
    BY <1>4, <1>6, <1>7, <1>10, <1>16 DEF LedgerInv, AllBooked, BookTypes, hours
  <1>20. Booked(v)'
    <2>1. ClaimsOn(v)' = new.claim
      BY <1>1, <1>3 DEF ClaimsOn
    <2>2. Measured(v)'
      BY <1>1, <1>3, <1>16, <1>18 DEF Measured
    <2>3. QED
      BY <1>4, <1>17, <1>18, <2>1, <2>2 DEF Booked
  <1>21. Booked(s)' /\ SameValues(book[s], book'[s])
    BY <1>1, <1>2, <1>3, <1>4, <1>8, <1>18, SettledBooked DEF settled, Settled
  <1>22. ASSUME NEW w \in Variant \ {s, v}
         PROVE  Booked(w)'
    BY <1>3, <1>4, <1>18, UntouchedBooked
  <1>23. EarnedKept
    <2>1. ASSUME NEW w \in Variants
          PROVE  /\ plan'[w].graph = plan[w].graph
                 /\ \A d \in Deliverable \ plan[w].graph.ids :
                      book'[w].frozen[d] = book[w].frozen[d]
      <3>1. CASE w = v
        <4>1. \A d \in Deliverable \ plan[v].graph.ids :
                cbk.frozen[d] = book[v].frozen[d]
          BY <1>6, <1>11
        <4>2. book'[v].frozen = cbk.frozen /\ plan'[v].graph = plan[v].graph
          BY <1>2, <1>3, <1>16, <1>18
        <4>3. QED
          BY <3>1, <4>1, <4>2
      <3>2. CASE w = s
        BY <1>2, <1>3, <1>21, <3>2 DEF SameValues
      <3>3. CASE w \notin {s, v}
        BY <1>3, <1>18, <3>3 DEF Variants
      <3>4. QED
        BY <3>1, <3>2, <3>3
    <2>2. QED
      BY <2>1, SameGraphKeeps DEF EarnedKept
  <1>24. QED
    BY <1>19, <1>20, <1>21, <1>22, <1>23 DEF AllBooked

LEMMA LedgerStep ==
  LedgerInv /\ [LedgerNext]_allVars => LedgerInv' /\ (UNCHANGED allVars \/ EarnedKept)
  <1> SUFFICES ASSUME LedgerInv, [LedgerNext]_allVars
               PROVE  LedgerInv' /\ (UNCHANGED allVars \/ EarnedKept)
    OBVIOUS
  <1>1. PortfolioInv'
    <2>1. [Next]_vars
      BY LineStep DEF LedgerInv, allVars
    <2>2. QED
      BY <2>1, StepInv DEF LedgerInv
  <1>2. CASE UNCHANGED allVars
    <2>1. UNCHANGED <<plan, now, book, worked, blurred>>
      BY <1>2 DEF allVars, vars, ledgerVars
    <2>2. BookTypes'
      BY <2>1 DEF LedgerInv, AllBooked, BookTypes
    <2>3. ASSUME NEW w \in Variant
          PROVE  Booked(w)'
      <3>1. Variants' = Variants
        BY <2>1 DEF Variants
      <3>2. QED
        BY <2>1, <3>1, UntouchedBooked
    <2>4. QED
      BY <1>1, <1>2, <2>2, <2>3 DEF LedgerInv, AllBooked
  <1>3. CASE LedgerNext
    <2>1. ASSUME NEW v \in Variant, NEW g \in ValidGraphs, Submit(v, g) \/ RevisePlan(v, g)
          PROVE  AllBooked' /\ EarnedKept
      BY <2>1, SubmitBooked, RevisePlanBooked
    <2>2. ASSUME NEW v \in Variant, NEW ttl \in Ttls, AcquireCohort(v, ttl)
          PROVE  AllBooked' /\ EarnedKept
      BY <2>2, AcquireBooked
    <2>3. ASSUME NEW v \in Variant, NEW ttl \in Ttls, NEW d \in Deliverable, Heartbeat(v, d, ttl)
          PROVE  AllBooked' /\ EarnedKept
      BY <2>3, HeartbeatBooked
    <2>4. ASSUME NEW v \in Variant, MarkTerminal(v) \/ ForceRelease(v)
          PROVE  AllBooked' /\ EarnedKept
      BY <2>4, MarkTerminalBooked
    <2>5. ASSUME NEW v \in Variant, NEW d \in Deliverable, NEW s \in Marks,
                 NEW report \in Reports \cup {NoPercent}, MarkOpen(v, d, s, report)
          PROVE  AllBooked' /\ EarnedKept
      BY <2>5, MarkOpenBooked
    <2>6. ASSUME NEW v \in Variant, Accept(v) \/ TakeBaseline(v)
          PROVE  AllBooked' /\ EarnedKept
      BY <2>6, AcceptBooked, TakeBaselineBooked
    <2>7. ASSUME NEW v \in Variant, NEW force \in BOOLEAN, SelectVariant(v, force)
          PROVE  AllBooked' /\ EarnedKept
      BY <2>7, SelectBooked
    <2>8. ASSUME NEW force \in BOOLEAN, Archive(force)
          PROVE  AllBooked' /\ EarnedKept
      BY <2>8, ArchiveBooked
    <2>9. ASSUME QuarantineExpired
          PROVE  AllBooked' /\ EarnedKept
      BY <2>9, QuarantineBooked
    <2>10. ASSUME Tick
           PROVE  AllBooked' /\ EarnedKept
      BY <2>10, TickBooked
    <2>11. AllBooked' /\ EarnedKept
      BY <1>3, <2>1, <2>2, <2>3, <2>4, <2>5, <2>6, <2>7, <2>8, <2>9, <2>10 DEF LedgerNext
    <2>12. QED
      BY <1>1, <2>11 DEF LedgerInv
  <1>4. QED
    BY <1>2, <1>3

LEMMA LedgerInvariant == LedgerSpec => []LedgerInv
  <1>1. LedgerInit => LedgerInv
    BY InitInv, InitBooked DEF LedgerInit, LedgerInv
  <1>2. QED
    BY <1>1, LedgerStep, PTL DEF LedgerSpec

(* The clock, the bounds and the claims agree: a lease is live until its   *)
(* expiry and lapses after it, and a plan has a baseline when its book     *)
(* holds one.                                                              *)
THEOREM LedgerTypes == LedgerSpec => []LedgerTypeOK
  <1> DEFINE Bounded == moves \in 0..MaxMoves
  <1>1. LedgerInit => Bounded
    BY LedgerAssumption DEF LedgerInit
  <1>2. Bounded /\ [LedgerNext]_allVars => Bounded'
    <2>1. ASSUME Bounded, Move PROVE Bounded'
      BY <2>1, LedgerAssumption DEF Move
    <2>2. LedgerNext => Move \/ moves' = moves
      BY DEF LedgerNext, Submit, RevisePlan, AcquireCohort, Heartbeat, MarkTerminal,
             MarkOpen, Accept, ForceRelease, End, TakeBaseline, SelectVariant,
             Archive, QuarantineExpired, Tick, ledgerVars
    <2>3. QED
      BY <2>1, <2>2 DEF allVars, ledgerVars
  <1>3. LedgerInv /\ Bounded /\ TypeOK => LedgerTypeOK
    <2> SUFFICES ASSUME LedgerInv, Bounded, TypeOK PROVE LedgerTypeOK
      OBVIOUS
    <2>1. BookTypes
      BY DEF LedgerInv, AllBooked
    <2>2. ASSUME NEW v \in Variants, NEW d \in Deliverable
          PROVE  /\ plan[v].claim[d] = "live" => now <= book[v].until[d]
                 /\ plan[v].claim[d] = "stale" => book[v].until[d] < now
      BY BookedPlan DEF Fits, Fit
    <2>3. ASSUME NEW v \in Variants
          PROVE  plan[v].baseline <=> book[v].number # 0
      BY BookedPlan DEF LedgerInv, AllBooked, Booked, Measured
    <2>4. QED
      BY <2>1, <2>2, <2>3 DEF LedgerTypeOK, ClaimsFollowClock, BookTypes, Hours
  <1> HIDE DEF Bounded
  <1>4. QED
    BY <1>1, <1>2, <1>3, LedgerInvariant, LedgerKeepsTheLine, LineTypes, PTL DEF LedgerSpec

(* Spend never disappears and is counted once: whichever call or restart   *)
(* ends a lease, and however late (reap_expired, apply_release, accept,    *)
(* mark, select, archive, quarantine_expired), what is booked with what is *)
(* open is the hours worked.                                               *)
THEOREM SpendExact == LedgerSpec => []SpendIsExact
  <1>1. LedgerInv => SpendIsExact
    <2> SUFFICES ASSUME LedgerInv PROVE SpendIsExact
      OBVIOUS
    <2>1. ASSUME NEW v \in Variants, NEW d \in Deliverable
          PROVE  /\ Cardinality(worked[v][d]) <= book[v].leased[d] + Open(v, d)
                 /\ d \notin blurred[v] =>
                      book[v].leased[d] + Open(v, d) = Cardinality(worked[v][d])
      <3>1. Fit(plan[v].claim[d], book[v], worked[v][d], blurred[v], now, d)
        BY BookedPlan DEF Fits
      <3>2. Open(v, d) = Held(plan[v].claim[d], book[v].since[d], book[v].until[d], now)
        BY DEF Open, Lapse, Claimed, Held, Over
      <3>3. QED
        BY <3>1, <3>2 DEF Fit
    <2>2. QED
      BY <2>1 DEF SpendIsExact
  <1>2. QED
    BY <1>1, LedgerInvariant, PTL

(* Removing scope never changes what it has earned: what a revision takes  *)
(* out of the graph keeps the percent it had (record_scope_change), and no *)
(* later call, restart or selection touches it.                            *)
THEOREM RemovedKeepsEarned == LedgerSpec => RemovedScopeKeepsEarned
  <1> DEFINE A == \A v \in Variants :
                    book'[v].number = book[v].number =>
                      \A d \in book[v].rows \ plan'[v].graph.ids :
                        d \in Stale(plan[v]) \/
                          RowEarns(plan'[v], book'[v], d) = RowEarns(plan[v], book[v], d)
  <1>1. LedgerInv /\ [LedgerNext]_allVars => [A]_allVars
    BY LedgerStep DEF EarnedKept, KeepsEarned
  <1> HIDE DEF A
  <1>2. QED
    BY <1>1, LedgerInvariant, PTL DEF LedgerSpec, RemovedScopeKeepsEarned, A

=============================================================================
