----------------------------- MODULE Improvement -----------------------------
(***************************************************************************)
(* An agent improves a plan with the analysis tools: it lints and          *)
(* simulates a draft (plan.simulate, src/src/simulate.rs), has it reviewed *)
(* (plan.review), and edits it, by hand or with the proposals of the       *)
(* review (the edits of plan.fork).  The tools keep nothing between calls: *)
(* the variables are what the agent holds.                                 *)
(***************************************************************************)
EXTENDS Triage

CONSTANTS
    Plans,           \* the drafts an agent starts from, each with the capacities and
                     \* the bound on the reviews and edits it makes of it
    HandEdits,       \* the edits it may make by hand
    Answers,         \* [kind of question -> the answers a judge may give]
    Caps             \* bound: the caps of a review

ASSUME ImprovementAssumption ==
    /\ \A d \in Plans : IsGraph(d.graph) /\ IsClaims(d.caps)
    /\ \A e \in HandEdits : IsEdit(e)
    /\ Answers["false_dependency"] \subseteq 0 .. 100 \cup {None} /\ Caps \subseteq Nat

VARIABLES
    graph,    \* the draft
    caps,     \* the capacities it is leveled against, or None
    findings, \* of lint, once simulated
    sim,      \* the simulation, None if it failed or there is none yet
    asked,    \* the questions of a review, or None
    answers,  \* what the judge answered to them, or None
    report,   \* what the review reports, or None
    rounds    \* reviews and edits left, a bound

vars == <<graph, caps, findings, sim, asked, answers, report, rounds>>

Init ==
    /\ \E d \in Plans : graph = d.graph /\ caps = d.caps /\ rounds = d.rounds
    /\ findings = None /\ sim = None /\ asked = None /\ answers = None /\ report = None 

(* plan.simulate; a failure leaves the agent with the findings. *)
Simulate ==
    /\ findings = None
    /\ findings' = Lint(graph)
    /\ sim' = Simulation(graph, caps)
    /\ UNCHANGED <<graph, caps, asked, answers, report, rounds>>

(* plan.review, up to the call of the judge. *)
Ask ==
    /\ sim # None /\ asked = None /\ rounds > 0 /\ rounds' = rounds - 1
    /\ \E cap \in Caps : asked' = RoundRobin(CandidateLists(graph, sim.cpm), cap)
    /\ UNCHANGED <<graph, caps, findings, sim, answers, report>>

(* An answer to each question, or None. *)
Extended(given, choices) == {Append(a, c) : a \in given, c \in choices}
AnswersTo(questions) ==
    LET upTo[n \in 0 .. Len(questions)] ==
          IF n = 0 THEN {<<>>} ELSE Extended(upTo[n - 1], Answers[questions[n].kind])
    IN  upTo[Len(questions)]

(* The judge answers, all of the questions or some of them. *)
Answer ==
    /\ asked # None /\ report = None
    /\ answers' \in AnswersTo(asked)
    /\ report' = Report(graph, caps, sim, asked, answers')
    /\ UNCHANGED <<graph, caps, findings, sim, asked, rounds>>

(* The edited graph takes the place of the draft; what was known of it is gone. *)
Adopt(edited) ==
    /\ rounds > 0 /\ rounds' = rounds - 1
    /\ edited # None /\ graph' = edited
    /\ findings' = None /\ sim' = None /\ asked' = None /\ answers' = None /\ report' = None
    /\ UNCHANGED caps

EditByHand == asked = None /\ \E e \in HandEdits : Adopt(ApplyEdits(graph, <<e>>))

AdoptProposal ==
    /\ report # None
    /\ \E p \in report.proposals : Adopt(ApplyEdits(graph, <<p.draft.edit>>))

Next == Simulate \/ Ask \/ Answer \/ EditByHand \/ AdoptProposal

Spec == Init /\ [][Next]_vars

-----------------------------------------------------------------------------
(* Properties. *)

(* Taking all of the hours out of x saves the project no more than its drag. *)
DragBoundsSaving(t, x) ==
    sim.cpm.length - LongestBefore([t EXCEPT !.len[x] = 0])[FINISH] <= Drag(t, sim.cpm, x)

(* The schedule is the one the chains of prerequisites dictate, lags included: nothing
   starts before its longest chain, the latest starts leave exactly the longest chain
   behind, and what is critical lies on a longest chain (forward_pass, backward_pass
   and calculate_float of src/src/algorithm.rs); and no deliverable is worth more hours
   of the project than the drag reported for it (src/src/drag.rs). *)
ScheduleIsExact ==
    sim # None =>
      LET t      == Tasks(graph)
          before == LongestBefore(t)
          from   == LongestFrom(t)
      IN  /\ sim.cpm.unscheduled = {}
          /\ \A x \in Members(t) :
                /\ sim.cpm.es[x] = before[x] /\ sim.cpm.ef[x] = before[x] + t.len[x]
                /\ sim.cpm.ls[x] = before[FINISH] - from[x]
                /\ x \in sim.cpm.critical <=> before[x] + from[x] = before[FINISH]
          /\ \A x \in sim.cpm.critical \cap IdSet(graph) : DragBoundsSaving(t, x)

(* drag.rs:153 (and again 241) says "a start node with effort=0 never propagates ES to
   its successors - they all keep EF=0 and the backward pass incorrectly marks them all
   non-critical".  Not so: __start__ is such a node, and forward_pass locks in the finish
   of what it frees (algorithm.rs:203). *)
StartGatewayBlocks ==
    sim # None =>
      \A x \in Followers(Tasks(graph), START) : sim.cpm.ef[x] = 0 /\ x \notin sim.cpm.critical

(* The critical path is one real chain: it begins at __start__, each link is a
   prerequisite, all of it is critical, and its lengths and lags add up to the project
   (trace_critical_path of src/src/algorithm.rs; doc of PlanStatus in src/src/plan.rs);
   and the path reported for a milestone is a chain that takes all the hours until it
   is reached (milestone_rows of src/src/schedule.rs). *)
PathIsLongest ==
    sim # None =>
      LET t == Tasks(graph)
      IN  /\ Head(sim.cpm.path) = START
          /\ IsChain(t, sim.cpm.path)
          /\ ToSet(sim.cpm.path) \subseteq sim.cpm.critical
          /\ ChainHours(t, sim.cpm.path) = sim.cpm.length
          /\ \A x \in IdSet(graph) :
                LET row == MilestoneRow(t, sim.cpm, x)
                IN  /\ Head(row.path) = START /\ Last(row.path) = x
                    /\ IsChain(t, row.path) /\ ChainHours(t, row.path) = row.hours

(* "critical_path always runs __start__ to __finish__" (README.md:247). *)
PathReachesFinish == sim # None => Last(sim.cpm.path) = FINISH

Leveled == sim # None /\ sim.level # None

(* A leveled plan can be carried out: nothing starts before its prerequisites and lags,
   and at no time do the deliverables under way claim more of a pool than there is
   (resource_schedule_with_cpm of src/src/resource_schedule.rs). *)
LevelingIsFeasible ==
    Leveled =>
      LET n == sim.level.nodes
          start == sim.level.start
          Running(at) == {i \in DOMAIN n : start[i] <= at /\ at < start[i] + n[i].len}
      IN  /\ \A i \in DOMAIN n : \A p \in DOMAIN n[i].preds :
                start[i] >= start[p] + n[p].len + n[i].preds[p]
          /\ \A at \in {start[i] : i \in DOMAIN n} : \A r \in DOMAIN sim.level.load :
                Claimed(n, Running(at), r) <= caps[r]

(* The driving chain accounts for the whole makespan: it begins at time 0, and each link
   starts when the one before it finishes, or that plus the lag it waited for; without
   contention the makespan is that of the critical path (driving_chain of
   src/src/resource_schedule.rs). *)
ChainExplainsMakespan ==
    (Leveled /\ graph # <<>>) =>
      LET n == sim.level.nodes
          start == sim.level.start
          chain == sim.level.chain
      IN  /\ start[chain[1].node] = 0
          /\ start[Last(chain).node] + n[Last(chain).node].len = sim.level.makespan
          /\ \A k \in 2 .. Len(chain) :
                LET i == chain[k].node
                    p == chain[k - 1].node
                IN  start[i] = start[p] + n[p].len
                               + IF chain[k].on = "dependency" THEN n[i].preds[p] ELSE 0
          /\ sim.level.makespan >= sim.cpm.length
          /\ (\A k \in DOMAIN chain : chain[k].on # "resource") => sim.level.makespan = sim.cpm.length

(* Lint reports an error exactly when a submission is refused, by searches of its own
   (a depth-first search against Kahn's algorithm); the one rule it leaves to the
   submission is the declared barrier (lint of src/src/lint.rs, validate_graph of
   src/src/planner.rs). *)
LintFindsRefusals ==
    findings # None =>
      (LintErrors(findings) = {}
         <=> Valid([i \in DOMAIN graph |-> [graph[i] EXCEPT !.barrier = None]]))

(* lint.rs:3 says "Every submit-time rule of the planner is reported here"; a barrier that
   is no prerequisite is refused by the submission and not reported. *)
LintFindsEveryRefusal == findings # None => (LintErrors(findings) = {} <=> Valid(graph))

(* Following REDUNDANT_EDGE changes neither what waits for what nor, unless the edge has
   a lag, the schedule (structure_findings of src/src/lint.rs; the edge is removed as
   in src/src/edits.rs). *)
RedundantEdgeIsRemovable ==
    sim # None =>
      \A f \in {h \in findings : h.code = "REDUNDANT_EDGE"} :
        LET without == Edited(graph, [op |-> "RemoveEdge", from |-> f.ids[2], to |-> f.ids[1]])
        IN  /\ \A x \in IdSet(graph) : Reach(without, x) = Reach(graph, x)
            /\ Find(graph, f.ids[1]).pre[f.ids[2]].lag = 0 => ComputeCpm(without).es = sim.cpm.es

(* What a review proposes can be adopted: the edited graph is accepted, saves the hours
   promised, brings no new issue, and costs no less effort unless scope is cut (draft
   and verify of src/src/review.rs). *)
ProposalsHold ==
    [][AdoptProposal =>
         /\ Valid(graph')
         /\ Issues(Lint(graph')) \subseteq Issues(findings)
         /\ \E p \in report.proposals :
               /\ graph' = Edited(graph, p.draft.edit)
               /\ Simulation(graph', caps) # None
               /\ p.saved = SimulatedMakespan(sim) - SimulatedMakespan(Simulation(graph', caps))
               /\ p.draft.choice # "reduce_scope" =>
                    \A x \in IdSet(graph) : EffortBasis(Find(graph', x)) = EffortBasis(Find(graph, x))]_vars

(* A review that calls itself complete left no edge in doubt unreported: an edge that is
   no finding was answered both ways, to name its artifact and to need it (review of
   src/src/review.rs; the status of a partial review, src/src/review.rs:240). *)
NoSilentEdge ==
    (report # None /\ asked # <<>> /\ report.status = "ok") =>
      \A e \in EdgePairs(graph) : <<"false_dependency", e>> \notin report.findings =>
        \E i, j \in DOMAIN asked :
           /\ asked[i].ids = e /\ asked[i].side = "artifact" /\ answers[i] \in 50 .. 100
           /\ asked[j].ids = e /\ asked[j].side = "independence" /\ answers[j] \in 0 .. 49

=============================================================================
