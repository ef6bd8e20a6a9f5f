----------------------------- MODULE Portfolio -----------------------------
(***************************************************************************)
(* One plan line and its variants (src/src/portfolio.rs).  Each variant is *)
(* a plan of its own, created by a sync or a fork and revised by either;   *)
(* one of them is selected, and that one alone is executed.  Selecting     *)
(* another variant moves the progress over to it.  The line and each       *)
(* variant can be archived.                                                *)
(*                                                                         *)
(* Every operation is one immediate transaction, so it is one action; an   *)
(* operation the code refuses is no action.  Plans of different lines      *)
(* never meet in these operations, so one line is modelled.                *)
(***************************************************************************)
EXTENDS Execution

CONSTANTS
  Variant,     (* the names of the line's variants                         *)
  NoPlan,      (* the variant has not been created                         *)
  NoVariant    (* the line has not been created                            *)

ASSUME PortfolioAssumption ==
  /\ NoPlan \notin Plan
  /\ NoVariant \notin Variant

VARIABLES
  plan,          (* the plan of every variant, or NoPlan                   *)
  selected,      (* the selected variant                                   *)
  archived,      (* the variants whose own flag is set                     *)
  lineArchived   (* the line's own flag                                    *)

vars == <<plan, selected, archived, lineArchived>>

Variants == {v \in Variant : plan[v] # NoPlan}

Types ==
  /\ plan \in [Variant -> Plan \cup {NoPlan}]
  /\ selected \in Variant \cup {NoVariant}
  /\ archived \subseteq Variants
  /\ lineArchived \in BOOLEAN

(* Besides the types: a plan has statuses for exactly the deliverables of  *)
(* its own graph, whatever was copied from another variant.                *)
TypeOK ==
  /\ Types
  /\ \A v \in Variants, d \in Deliverable :
       plan[v].status[d] = Absent <=> d \notin plan[v].graph.ids

-----------------------------------------------------------------------------
(* Gates *)

(* v exists and is not effectively archived. *)
Live(v) == v \in Variants /\ ~ lineArchived /\ v \notin archived

(* Mutant of Executable: the variant need not be the selected one. *)
ExecutableUnselected(v) == Live(v)

Executable(v) == Live(v) /\ selected = v

-----------------------------------------------------------------------------
(* Carrying progress from plan old to plan new *)

(* What is done in old and still open, unleased and the same in new.       *)
Candidates(old, new) ==
  {d \in Survivors(old.graph, new.graph) \ Changed(old.graph, new.graph) :
     /\ old.status[d] = "complete"
     /\ new.status[d] # "complete"
     /\ new.claim[d] = "none"}

(* Mutants of CarriedOver: nothing is taken back; only what stands on work     *)
(* that new had finished itself is carried.                                *)
CarriedOverBlindly(old, new) == Candidates(old, new)

CarriedOverShallow(old, new) ==
  {d \in Candidates(old, new) : PrereqsComplete(new.graph, new.status, d)}

(* The code carries all candidates and takes back, until nothing changes,  *)
(* those with an open prerequisite: what remains is the greatest set that  *)
(* stands on complete work of new and on itself.                           *)
CarriedOver(old, new) ==
  UNION {S \in SUBSET Candidates(old, new) :
           \A d \in S, p \in Deliverable :
             p \in new.graph.prereqs[d] => p \in S \/ new.status[p] = "complete"}

(* Mutant of CarryProgress: what waits is not looked at again. *)
CarryProgressAlone(old, new) ==
  [new EXCEPT !.status = [d \in Deliverable |->
                            IF d \in CarriedOver(old, new) THEN "complete"
                            ELSE new.status[d]]]

CarryProgress(old, new) ==
  LET done == [d \in Deliverable |->
                 IF d \in CarriedOver(old, new) THEN "complete" ELSE new.status[d]]
      idle == {d \in Deliverable : /\ done[d] \in {"ready", "pending"}
                                   /\ new.claim[d] = "none"}
  IN  [new EXCEPT !.status = Rederived(new.graph, done, idle)]

(* Work has started on p, as far as its statuses and leases tell.          *)
HasProgress(p) ==
  \/ Claimed(p) # {}
  \/ \E d \in Deliverable :
       p.status[d] \in {"in_progress", "superseded_revision", "complete", "failed"}

(* Selecting a plan starts execution when the plan has progress once it    *)
(* has moved.  history: counters or queued actuals that statuses do not    *)
(* show.                                                                   *)
Starts(new, moved, history) == history \/ HasProgress(moved)

-----------------------------------------------------------------------------
Init ==
  /\ plan = [v \in Variant |-> NoPlan]
  /\ selected = NoVariant
  /\ archived = {}
  /\ lineArchived = FALSE

(* sync of a new variant, or a fork: the line's first variant is selected. *)
Create(v, g) ==
  /\ plan[v] = NoPlan
  /\ ~ lineArchived
  /\ plan' = [plan EXCEPT ![v] = NewPlan(g)]
  /\ selected' = IF selected = NoVariant THEN v ELSE selected
  /\ UNCHANGED <<archived, lineArchived>>

(* sync of an existing variant, or revise_plan: drafts may be revised too. *)
Revise(v, new) ==
  /\ Live(v)
  /\ ~ SameGraph(plan[v].graph, new)
  /\ \E p \in Revised(plan[v], new) : plan' = [plan EXCEPT ![v] = p]
  /\ UNCHANGED <<selected, archived, lineArchived>>

(* Any operation on the plan that is gated by ensure_executable. *)
Execute(v) ==
  /\ Executable(v)
  /\ \E p \in Executed(plan[v]) : plan' = [plan EXCEPT ![v] = p]
  /\ UNCHANGED <<selected, archived, lineArchived>>

(* Mutant of Vacated: live leases stay behind. *)
VacatedReaping(p, force) == Reaps(p)

(* The results of taking p out of execution: expired leases are reaped,    *)
(* live ones refuse it unless forced, and are then released.               *)
Vacated(p, force) ==
  {Ended(q, Claimed(q)) : q \in {r \in Reaps(p) : force \/ Claimed(r) = {}}}

(* select_variant: vacate the old plan, reap the new one, carry over, and  *)
(* take the execution baseline if that starts execution.                   *)
Select(v, force) ==
  /\ selected # NoVariant
  /\ v # selected
  /\ Live(v)
  /\ \E old \in Vacated(plan[selected], force), new \in Reaps(plan[v]),
        history \in BOOLEAN :
       LET moved   == CarryProgress(old, new)
           started == Starts(new, moved, history)
       IN  /\ started => MayExecute(moved)
           /\ plan' = [plan EXCEPT ![selected] = old,
                         ![v] = [moved EXCEPT !.baseline = @ \/ started]]
  /\ selected' = v
  /\ UNCHANGED <<archived, lineArchived>>

ArchiveLine(force) ==
  /\ selected # NoVariant
  /\ ~ lineArchived
  /\ \E old \in Vacated(plan[selected], force) :
       plan' = [plan EXCEPT ![selected] = old]
  /\ lineArchived' = TRUE
  /\ UNCHANGED <<selected, archived>>

UnarchiveLine ==
  /\ lineArchived
  /\ lineArchived' = FALSE
  /\ UNCHANGED <<plan, selected, archived>>

(* Mutant of ArchiveVariant: the selected variant is archived too. *)
ArchiveAnyVariant(v) ==
  /\ v \in Variants \ archived
  /\ archived' = archived \cup {v}
  /\ UNCHANGED <<plan, selected, lineArchived>>

ArchiveVariant(v) ==
  /\ v \in Variants \ archived
  /\ v # selected
  /\ archived' = archived \cup {v}
  /\ UNCHANGED <<plan, selected, lineArchived>>

UnarchiveVariant(v) ==
  /\ v \in archived
  /\ ~ lineArchived
  /\ archived' = archived \ {v}
  /\ UNCHANGED <<plan, selected, lineArchived>>

(* A process opens the store: every plan is swept, archived or not.        *)
Sweep ==
  /\ \E lost \in [Variants -> SUBSET Deliverable] :
       /\ \A v \in Variants : lost[v] \subseteq Stale(plan[v])
       /\ plan' = [v \in Variant |-> IF v \in Variants
                                     THEN Ended(plan[v], lost[v]) ELSE NoPlan]
  /\ UNCHANGED <<selected, archived, lineArchived>>

(* Time passes and leases of v expire. *)
Expire(v) ==
  /\ v \in Variants
  /\ \E p \in Expired(plan[v]) : plan' = [plan EXCEPT ![v] = p]
  /\ UNCHANGED <<selected, archived, lineArchived>>

Next ==
  \/ \E v \in Variant :
       \/ \E g \in ValidGraphs : Create(v, g) \/ Revise(v, g)
       \/ Execute(v)
       \/ \E force \in BOOLEAN : Select(v, force)
       \/ ArchiveVariant(v)
       \/ UnarchiveVariant(v)
       \/ Expire(v)
  \/ \E force \in BOOLEAN : ArchiveLine(force)
  \/ UnarchiveLine
  \/ Sweep

Spec == Init /\ [][Next]_vars

-----------------------------------------------------------------------------
(* Safety *)

(* A lease is held only where its holder can still report: on the selected *)
(* variant of a line that is not archived.  Selecting away and archiving   *)
(* take every lease along (select, archive).                               *)
OnlyExecutableLeased ==
  \A v \in Variants :
    Claimed(plan[v]) # {} => v = selected /\ v \notin archived /\ ~ lineArchived

(* A line with variants always has one to execute once it is unarchived:   *)
(* the selected variant exists and its own flag is never set, in whatever  *)
(* order variants are created, selected and archived (create, select,      *)
(* archive).                                                               *)
SelectedCanExecute ==
  IF Variants = {} THEN selected = NoVariant
  ELSE selected \in Variants \ archived

(* What is effectively archived does not change until it is unarchived: no *)
(* operation, restart or clock touches its graph, progress or leases       *)
(* (ensure_revisable, ensure_executable, select, quarantine_expired).      *)
ArchivedIsFrozen ==
  [][\A v \in Variants :
       lineArchived \/ v \in archived => plan'[v] = plan[v]]_vars

Switches == selected # NoVariant /\ selected' # selected

(* Finished or running work that a selection brings to execution, carried  *)
(* over just now or there before, always finds a baseline to be measured   *)
(* against (select_variant, ensure_execution_baseline).                    *)
SelectedWorkHasBaseline ==
  [][Switches =>
       LET p == plan'[selected']
       IN  \A d \in Deliverable :
             p.status[d] \in {"in_progress", "complete"} => p.baseline]_vars

(* Selecting a variant never leaves work complete on top of an open        *)
(* prerequisite in it, unless it was so before (carry_progress).           *)
SelectionKeepsOrder ==
  [][Switches /\ Closed(plan[selected']) => Closed(plan'[selected'])]_vars

(* Everything d stands on, and d itself. *)
Foundation(g, d) == {d} \cup Ancestors(g, d)

(* Selecting a variant repeats no finished work: what was complete in the  *)
(* variant left behind, with all it stands on, and is defined the same     *)
(* there and here, is complete here (carry_progress).                      *)
SelectionKeepsProgress ==
  [][Switches =>
       LET old == plan[selected]
           new == plan[selected']
       IN  \A d \in Survivors(old.graph, new.graph) :
             (\A e \in Foundation(new.graph, d) :
                /\ e \in old.graph.ids \ Changed(old.graph, new.graph)
                /\ old.status[e] = "complete")
               => plan'[selected'].status[d] = "complete"]_vars

(* After a selection no unleased work of the variant waits for nothing, or *)
(* is offered before its prerequisites are complete (carry_progress).      *)
SelectionSettles ==
  [][Switches =>
       LET p == plan'[selected']
       IN  \A d \in p.graph.ids :
             p.status[d] \in {"ready", "pending"} =>
               p.status[d] = Rederive(p.graph, p.status, d)]_vars

=============================================================================
