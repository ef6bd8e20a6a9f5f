--------------------------- MODULE ImprovementProofs --------------------------
(***************************************************************************)
(* What holds of the analysis tools for every draft an agent may start     *)
(* from, every edit it may make and every answer of a judge.               *)
(***************************************************************************)
EXTENDS Improvement, KernelProofs

-----------------------------------------------------------------------------
(* One edit. *)

EditTurn(out, e) == IF out = None \/ Refused(out, e) THEN None ELSE Edited(out, e)

(* An edit that is applied was not refused, and left a graph that is accepted. *)
LEMMA ApplyOne ==
  ASSUME NEW g, NEW e, ApplyEdits(g, <<e>>) # None
  PROVE  ~ Refused(g, e) /\ ApplyEdits(g, <<e>>) = Edited(g, e) /\ Valid(Edited(g, e))
<1> DEFINE edits == <<e>>
           Step(n, v) == EditTurn(v, edits[n])
           f == [n \in 0 .. 1 |-> IF n = 0 THEN g ELSE Step(1, g)]
           after[n \in 0 .. Len(edits)] ==
             IF n = 0 THEN g
             ELSE IF after[n - 1] = None \/ Refused(after[n - 1], edits[n]) THEN None
                  ELSE Edited(after[n - 1], edits[n])
<1>0. Len(edits) = 1 /\ edits[1] = e
  OBVIOUS
<1>1. \E h : h = [n \in 0 .. Len(edits) |-> IF n = 0 THEN g ELSE EditTurn(h[n - 1], edits[n])]
  <2>1. f = [n \in 0 .. 1 |-> IF n = 0 THEN g ELSE Step(n, f[n - 1])]
    <3> HIDE DEF Step
    <3> QED OBVIOUS
  <2>2. f = [n \in 0 .. Len(edits) |-> IF n = 0 THEN g ELSE EditTurn(f[n - 1], edits[n])]
    <3> HIDE DEF f
    <3> QED BY <1>0, <2>1
  <2> HIDE DEF f
  <2> QED BY <2>2
<1>2. after = [n \in 0 .. Len(edits) |-> IF n = 0 THEN g ELSE EditTurn(after[n - 1], edits[n])]
  BY <1>1, Zenon DEF EditTurn
<1>3. ApplyEdits(g, edits)
        = IF after[Len(edits)] = None \/ ~ Valid(after[Len(edits)]) THEN None ELSE after[Len(edits)]
  BY Zenon DEF ApplyEdits
<1> HIDE DEF after
<1>4. after[1] = EditTurn(g, e)
  <2> DEFINE Turn(n, v) == EditTurn(v, edits[n])
  <2>1. after = [n \in 0 .. 1 |-> IF n = 0 THEN g ELSE Turn(n, after[n - 1])]
    BY <1>0, <1>2
  <2> HIDE DEF Turn
  <2>2. after[0] = g /\ after[1] = Turn(1, after[0])
    BY <2>1
  <2> QED BY <1>0, <2>2 DEF Turn
<1> HIDE DEF edits
<1>5. ApplyEdits(g, edits) = after[1] /\ after[1] # None /\ Valid(after[1])
  BY <1>0, <1>3 DEF edits
<1>6. ~ Refused(g, e) /\ after[1] = Edited(g, e)
  BY <1>4, <1>5 DEF EditTurn
<1> QED BY <1>5, <1>6 DEF edits

(* Changing a field that is neither the id nor the prerequisites keeps a deliverable. *)
LEMMA FieldKept ==
  ASSUME NEW d, IsDeliverable(d), NEW field, NEW value, field \notin {"id", "pre"},
         field = "claims" => IsClaims(value)
  PROVE  /\ IsDeliverable([d EXCEPT ![field] = value])
         /\ [d EXCEPT ![field] = value].id = d.id /\ [d EXCEPT ![field] = value].pre = d.pre
<1> DEFINE e == [d EXCEPT ![field] = value]
<1>1. DOMAIN e = DOMAIN d /\ e.id = d.id /\ e.pre = d.pre
  BY DEF IsDeliverable
<1>2. IsClaims(e.claims)
  <2>1. e.claims = IF field = "claims" THEN value ELSE d.claims
    BY DEF IsDeliverable
  <2> QED BY <2>1 DEF IsDeliverable
<1> HIDE DEF e
<1> QED BY <1>1, <1>2 DEF IsDeliverable, Prerequisites, e

(* So does changing the prerequisites. *)
LEMMA PreChanged ==
  ASSUME NEW d, IsDeliverable(d), NEW value, DOMAIN value \subseteq Int, IsFiniteSet(DOMAIN value)
  PROVE  /\ IsDeliverable([d EXCEPT !.pre = value])
         /\ [d EXCEPT !.pre = value].id = d.id /\ [d EXCEPT !.pre = value].pre = value
<1> DEFINE e == [d EXCEPT !.pre = value]
<1>1. DOMAIN e = DOMAIN d /\ e.id = d.id /\ e.pre = value /\ e.claims = d.claims
  BY DEF IsDeliverable
<1> HIDE DEF e
<1> QED BY <1>1 DEF IsDeliverable, Prerequisites, e

(* An update of deliverables leaves a graph. *)
LEMMA UpdateIs ==
  ASSUME NEW g, IsGraph(g), NEW x, NEW field, NEW value,
         \A i \in DOMAIN g : g[i].id = x => IsDeliverable([g[i] EXCEPT ![field] = value])
  PROVE  IsGraph(Update(g, x, field, value))
<1> DEFINE New(i) == IF g[i].id = x THEN [g[i] EXCEPT ![field] = value] ELSE g[i]
           u == Update(g, x, field, value)
<1>1. Len(g) \in Nat /\ DOMAIN g = 1 .. Len(g) /\ \A i \in DOMAIN g : IsDeliverable(New(i))
  BY GraphIs DEF IsGraph
<1>2. u = [i \in 1 .. Len(g) |-> New(i)]
  BY <1>1 DEF Update
<1> HIDE DEF New, u
<1>3. Len(u) = Len(g) /\ DOMAIN u = 1 .. Len(g) /\ u = [i \in 1 .. Len(g) |-> u[i]]
      /\ \A i \in 1 .. Len(g) : u[i] = New(i)
  BY <1>1, <1>2
<1> QED BY <1>1, <1>3 DEF IsGraph, u

(* A sequence of deliverables is a graph. *)
LEMMA SequenceIsGraph ==
  ASSUME NEW X, \A d \in X : IsDeliverable(d), NEW g \in Seq(X)
  PROVE  IsGraph(g)
<1>1. Len(g) \in Nat /\ DOMAIN g = 1 .. Len(g) /\ g \in [1 .. Len(g) -> X]
  BY LenProperties
<1> DEFINE n == Len(g)
<1> HIDE DEF n
<1>2. g \in [1 .. n -> X]
  BY <1>1 DEF n
<1>3. g = [i \in 1 .. n |-> g[i]] /\ \A i \in 1 .. n : g[i] \in X
  BY <1>2
<1> QED BY <1>1, <1>3 DEF IsGraph, n

(* An id of a graph, unique or not, finds a deliverable with that id. *)
LEMMA FindsOne ==
  ASSUME NEW g, IsGraph(g), NEW x \in IdSet(g)
  PROVE  \E i \in DOMAIN g : g[i].id = x /\ Find(g, x) = g[i]
<1> DEFINE S == {i \in DOMAIN g : g[i].id = x}
<1>1. Len(g) \in Nat /\ DOMAIN g = 1 .. Len(g)
  BY GraphIs
<1>2. S \subseteq Nat /\ S # {}
  BY <1>1 DEF IdSet
<1>3. PICK m \in S : \A k \in S : m <= k
  <2> HIDE DEF S
  <2> QED BY <1>2, LeastNatural
<1>4. \A j \in 1 .. m - 1 : g[j].id # x
  BY <1>1, <1>3
<1> DEFINE P(i) == g[i].id = x /\ \A j \in 1 .. i - 1 : g[j].id # x
           c == CHOOSE i \in DOMAIN g : P(i)
<1>5. c \in DOMAIN g /\ P(c)
  <2>1. \E i \in DOMAIN g : P(i)
    BY <1>3, <1>4
  <2> HIDE DEF P
  <2> QED BY <2>1
<1>6. Find(g, x) = g[c]
  BY DEF Find
<1> HIDE DEF c
<1> QED BY <1>5, <1>6

(* An edit of a graph gives a graph. *)
LEMMA EditedIsGraph ==
  ASSUME NEW g, IsGraph(g), NEW e, IsEdit(e), ~ Refused(g, e)
  PROVE  IsGraph(Edited(g, e))
<1>0. \A i \in DOMAIN g : IsDeliverable(g[i])
  BY DEF IsGraph
<1>1. g \in Seq(ToSet(g)) /\ \A d \in ToSet(g) : IsDeliverable(d)
  <2>1. g \in Seq(ToSet(g))
    BY GraphIs
  <2> QED BY <1>0, <2>1 DEF ToSet
<1>2. Names(e) \subseteq IdSet(g) /\ IdSet(g) \subseteq Int
  BY GraphIs DEF Refused
<1>4. ASSUME NEW x, NEW field, NEW value, field \notin {"id", "pre"},
             field = "claims" => IsClaims(value)
      PROVE  IsGraph(Update(g, x, field, value))
  BY <1>0, <1>4, FieldKept, UpdateIs
<1>5. ASSUME NEW x, NEW value, DOMAIN value \subseteq Int, IsFiniteSet(DOMAIN value)
      PROVE  IsGraph(Update(g, x, "pre", value))
  <2>1. \A i \in DOMAIN g : IsDeliverable([g[i] EXCEPT !["pre"] = value])
    BY <1>0, <1>5, PreChanged
  <2> QED BY <2>1, UpdateIs
<1>6. ASSUME NEW x \in IdSet(g)
      PROVE  DOMAIN Find(g, x).pre \subseteq Int /\ IsFiniteSet(DOMAIN Find(g, x).pre)
  <2>1. IsDeliverable(Find(g, x))
    BY <1>0, FindsOne
  <2> QED BY <2>1 DEF IsDeliverable, Prerequisites
<1>7. CASE e.op = "RemoveEdge"
  <2>1. e.to \in IdSet(g)
    BY <1>2, <1>7 DEF Names
  <2> DEFINE old == Find(g, e.to).pre
             new == Without(old, e.from)
  <2>2. DOMAIN new \subseteq DOMAIN old
    BY DEF Without
  <2>3. DOMAIN new \subseteq Int /\ IsFiniteSet(DOMAIN new)
    <3>1. DOMAIN old \subseteq Int /\ IsFiniteSet(DOMAIN old)
      BY <1>6, <2>1
    <3> HIDE DEF old, new
    <3> QED BY <2>2, <3>1, FS_Subset
  <2>4. Edited(g, e) = Update(g, e.to, "pre", new)
    BY <1>7 DEF Edited
  <2> HIDE DEF new
  <2> QED BY <1>5, <2>3, <2>4
<1>8. CASE e.op = "AddEdge"
  <2>1. e.to \in IdSet(g) /\ e.from \in IdSet(g) /\ e.from \in Int
    BY <1>2, <1>8 DEF Names
  <2> DEFINE old == Find(g, e.to).pre
             new == With(old, e.from, NewEdge(e.consumes))
  <2>2. DOMAIN new = DOMAIN old \cup {e.from}
    BY DEF With
  <2>3. DOMAIN new \subseteq Int /\ IsFiniteSet(DOMAIN new)
    <3>1. DOMAIN old \subseteq Int /\ IsFiniteSet(DOMAIN old)
      BY <1>6, <2>1
    <3> HIDE DEF old, new
    <3>2. IsFiniteSet(DOMAIN old \cup {e.from})
      BY <3>1, FS_AddElement
    <3> QED BY <2>1, <2>2, <3>1, <3>2
  <2>4. Edited(g, e) = Update(g, e.to, "pre", new)
    BY <1>8 DEF Edited
  <2> HIDE DEF new
  <2> QED BY <1>5, <2>3, <2>4
<1>9. CASE e.op = "SetEffort"
  <2>1. Edited(g, e) = Update(g, e.id, "effort", e.hours)
    BY <1>9 DEF Edited
  <2> QED BY <1>4, <2>1
<1>10. CASE e.op = "SetDuration"
  <2>1. Edited(g, e) = Update(g, e.id, "duration", e.hours)
    BY <1>10 DEF Edited
  <2> QED BY <1>4, <2>1
<1>11. CASE e.op = "SetEstimate"
  <2>1. Edited(g, e) = Update(g, e.id, "estimate", e.estimate)
    BY <1>11 DEF Edited
  <2> QED BY <1>4, <2>1
<1>12. CASE e.op = "SetMetadata"
  <2>1. Edited(g, e) = Update(g, e.id, e.key, e.value)
    BY <1>12 DEF Edited
  <2>2. e.key \notin {"id", "pre"} /\ (e.key = "claims" => IsClaims(e.value))
    BY <1>12 DEF IsEdit
  <2> QED BY <1>4, <2>1, <2>2
<1>13. CASE e.op = "RemoveDeliverable"
  <2> DEFINE S == {d \in ToSet(g) : d.id # e.id}
  <2>1. Edited(g, e) = Kept(g, S)
    BY <1>13 DEF Edited
  <2>2. Kept(g, S) \in Seq(ToSet(g))
    <3> HIDE DEF S
    <3> QED BY <1>1, KeptIs
  <2> QED BY <1>1, <2>1, <2>2, SequenceIsGraph
<1>14. CASE e.op = "AddDeliverable"
  <2> DEFINE X == ToSet(g) \cup {e.deliverable}
  <2>1. Edited(g, e) = Append(g, e.deliverable)
    BY <1>14 DEF Edited
  <2>2. \A d \in X : IsDeliverable(d)
    BY <1>1, <1>14 DEF IsEdit
  <2>3. g \in Seq(X)
    BY <1>1
  <2>4. Append(g, e.deliverable) \in Seq(X)
    BY <2>3, AppendProperties
  <2> QED BY <2>1, <2>2, <2>4, SequenceIsGraph
<1> QED BY <1>7, <1>8, <1>9, <1>10, <1>11, <1>12, <1>13, <1>14 DEF IsEdit

-----------------------------------------------------------------------------
(* What the agent holds. *)

(* What it knows of the draft was found out about the draft that it holds. *)
Current ==
    /\ IsGraph(graph) /\ IsClaims(caps)
    /\ findings # None => findings = Lint(graph)
    /\ sim # None => sim = Simulation(graph, caps) /\ findings = Lint(graph)
    /\ asked # None =>
         /\ sim # None
         /\ \E cap \in Caps : asked = RoundRobin(CandidateLists(graph, sim.cpm), cap)
    /\ report # None =>
         /\ asked # None /\ answers \in AnswersTo(asked)
         /\ report = Report(graph, caps, sim, asked, answers)

(* A simulation is of a graph without errors, that a submission accepts. *)
LEMMA SimulationIs ==
  ASSUME NEW g, NEW c, Simulation(g, c) # None
  PROVE  /\ LintErrors(Lint(g)) = {} /\ Valid(g)
         /\ Simulation(g, c).lint = Lint(g) /\ Simulation(g, c).cpm = ComputeCpm(g)
<1>1. LintErrors(Lint(g)) = {} /\ Valid(g) /\ ~ (c # None /\ ~ Schedulable(g, c))
  BY DEF Simulation
<1>2. Simulation(g, c) = [lint |-> Lint(g), cpm |-> ComputeCpm(g),
                          level |-> IF c = None THEN None ELSE ResourceSchedule(g, c)]
  BY <1>1 DEF Simulation
<1> QED BY <1>1, <1>2

(* A proposal is a draft that was simulated. *)
LEMMA ProposalIs ==
  ASSUME NEW g, NEW c, NEW base, NEW q, NEW a, NEW p \in Report(g, c, base, q, a).proposals
  PROVE  /\ p.draft \in Drafts(g, q, Interpreted(q, a))
         /\ Verified(g, c, base, p.draft) /\ p.saved = Saved(g, c, base, p.draft)
<1> DEFINE drafts == Drafts(g, q, Interpreted(q, a))
<1>1. p \in Proposals(g, c, base, drafts)
  BY DEF Report
<1> HIDE DEF drafts
<1>2. PICK d \in drafts : Verified(g, c, base, d) /\ p = [draft |-> d, saved |-> Saved(g, c, base, d)]
  BY <1>1 DEF Proposals
<1> QED BY <1>2 DEF drafts

(* What a review drafts. *)
LEMMA DraftIs ==
  ASSUME NEW g, NEW q, NEW judged, NEW d \in Drafts(g, q, judged)
  PROVE  \/ d.edit.op = "RemoveEdge"
         \/ d.edit.op \in {"SetDuration", "SetEffort"}
            /\ (d.choice # "reduce_scope" => d.edit.op = "SetDuration")
<1> DEFINE J == DOMAIN judged
           F == {j \in J : /\ q[j].kind = "false_dependency" /\ q[j].side = "independence"
                           /\ judged[j].probability >= FALSE_DEPENDENCY_PROPOSAL_P}
           C == {j \in J : /\ q[j].kind = "crash_option"
                           /\ judged[j].choice \in {"add_capacity", "reduce_scope"}
                           /\ judged[j].confidence >= CRASH_PROPOSAL_CONFIDENCE}
           DF(i) == [kind |-> "false_dependency", ids |-> q[i].ids, cost |-> 0, choice |-> None,
                     edit |-> [op |-> "RemoveEdge", from |-> q[i].ids[1], to |-> q[i].ids[2]]]
           DC(i) == [kind |-> "crash_option", ids |-> q[i].ids, choice |-> judged[i].choice,
                     cost |-> IF judged[i].choice = "add_capacity"
                              THEN (3 * LengthOf(g, q[i].ids[1])) \div 10 ELSE 0,
                     edit |-> CrashEdit(g, q[i].ids[1], judged[i].choice)]
<1>1. Drafts(g, q, judged) = {DF(i) : i \in F} \cup {DC(i) : i \in C}
  BY DEF Drafts
<1>2. ASSUME NEW i \in F, d = DF(i) PROVE d.edit.op = "RemoveEdge"
  BY <1>2
<1>3. ASSUME NEW i \in C, d = DC(i)
      PROVE  d.edit.op \in {"SetDuration", "SetEffort"}
             /\ (d.choice # "reduce_scope" => d.edit.op = "SetDuration")
  <2>1. d.choice = judged[i].choice /\ d.edit = CrashEdit(g, q[i].ids[1], judged[i].choice)
    BY <1>3
  <2>2. d.choice \in {"add_capacity", "reduce_scope"}
    BY <2>1
  <2>3. d.edit.op = IF judged[i].choice = "add_capacity" \/ Find(g, q[i].ids[1]).duration # None
                    THEN "SetDuration" ELSE "SetEffort"
    BY <2>1 DEF CrashEdit
  <2> QED BY <2>1, <2>2, <2>3
<1> HIDE DEF F, C, DF, DC
<1>4. (\E i \in F : d = DF(i)) \/ (\E i \in C : d = DC(i))
  BY <1>1
<1> QED BY <1>2, <1>3, <1>4

(* Whatever an agent does, what it holds of its draft is current. *)
LEMMA CurrentHolds == Spec => []Current
<1>1. Init => Current
  BY ImprovementAssumption DEF Init, Current
<1>2. Current /\ [Next]_vars => Current'
  <2> SUFFICES ASSUME Current, [Next]_vars PROVE Current'
    OBVIOUS
  <2>0. IsGraph(graph)
    BY DEF Current
  <2>a. ASSUME NEW e, IsEdit(e), Adopt(ApplyEdits(graph, <<e>>)) PROVE Current'
    <3> DEFINE out == ApplyEdits(graph, <<e>>)
    <3>1. out # None /\ graph' = out /\ caps' = caps /\ findings' = None /\ sim' = None /\ asked' = None /\ report' = None
      BY <2>a DEF Adopt
    <3>2. ~ Refused(graph, e) /\ out = Edited(graph, e)
      BY <3>1, ApplyOne
    <3>3. IsGraph(Edited(graph, e))
      BY <2>0, <2>a, <3>2, EditedIsGraph
    <3>4. IsGraph(graph')
      BY <3>1, <3>2, <3>3
    <3> QED BY <3>1, <3>4 DEF Current
  <2>1. CASE Simulate
    <3>1. findings' = Lint(graph) /\ sim' = Simulation(graph, caps)
          /\ UNCHANGED <<graph, caps, asked, answers, report>>
      BY <2>1 DEF Simulate
    <3>2. sim # None => sim' = sim
      BY <3>1 DEF Current
    <3> QED BY <3>1, <3>2 DEF Current
  <2>2. CASE Ask
    <3>1. /\ sim # None /\ asked = None /\ UNCHANGED <<graph, caps, findings, sim, answers, report>>
          /\ \E cap \in Caps : asked' = RoundRobin(CandidateLists(graph, sim.cpm), cap)
      BY <2>2 DEF Ask
    <3>2. report = None
      BY <3>1 DEF Current
    <3> QED BY <3>1, <3>2 DEF Current
  <2>3. CASE Answer
    <3>1. /\ asked # None /\ answers' \in AnswersTo(asked)
          /\ report' = Report(graph, caps, sim, asked, answers')
          /\ UNCHANGED <<graph, caps, findings, sim, asked>>
      BY <2>3 DEF Answer
    <3>2. answers' \in AnswersTo(asked')
      BY <3>1
    <3> QED BY <3>1, <3>2 DEF Current
  <2>4. CASE EditByHand
    <3>1. PICK e \in HandEdits : Adopt(ApplyEdits(graph, <<e>>))
      BY <2>4 DEF EditByHand
    <3> QED BY <2>a, <3>1, ImprovementAssumption
  <2>5. CASE AdoptProposal
    <3>1. PICK p \in report.proposals : Adopt(ApplyEdits(graph, <<p.draft.edit>>))
      BY <2>5 DEF AdoptProposal
    <3>2. report = Report(graph, caps, sim, asked, answers)
      BY <2>5 DEF AdoptProposal, Current
    <3>3. p.draft \in Drafts(graph, asked, Interpreted(asked, answers))
      BY <3>1, <3>2, ProposalIs
    <3>4. IsEdit(p.draft.edit)
      BY <3>3, DraftIs DEF IsEdit
    <3> QED BY <2>a, <3>1, <3>4
  <2>6. CASE UNCHANGED vars
    <3>1. UNCHANGED <<graph, caps, findings, sim, asked, answers, report>>
      BY <2>6 DEF vars
    <3> QED BY <3>1 DEF Current
  <2> QED BY <2>1, <2>2, <2>3, <2>4, <2>5, <2>6 DEF Next
<1> QED BY <1>1, <1>2, PTL DEF Spec

(* A simulated draft is a network that can be scheduled, with its exact schedule. *)
LEMMA SimulatedIs ==
  ASSUME Current, sim # None
  PROVE  /\ IsGraph(graph) /\ Valid(graph) /\ sim.cpm = Calculate(Tasks(graph))
         /\ sim.lint = findings /\ findings = Lint(graph) /\ LintErrors(findings) = {}
         /\ \E rank : Sound(Tasks(graph), rank)
         /\ Bounded(Tasks(graph)) /\ InRange(Tasks(graph))
         /\ Members(Tasks(graph)) = IdSet(graph) \cup {START, FINISH}
<1>1. IsGraph(graph) /\ findings = Lint(graph) /\ sim = Simulation(graph, caps)
  BY DEF Current
<1>2. Valid(graph) /\ sim.lint = Lint(graph) /\ sim.cpm = ComputeCpm(graph)
      /\ LintErrors(Lint(graph)) = {}
  BY <1>1, SimulationIs
<1>3. PICK depth : Plannable(graph, depth)
  BY <1>1, <1>2, ValidIsPlannable
<1> QED BY <1>1, <1>2, <1>3, ScheduleIs, TasksAre

(* The schedule is exact. *)
THEOREM ScheduleIsExactHolds == Spec => []ScheduleIsExact
<1>1. Current => ScheduleIsExact
  <2> SUFFICES ASSUME Current, sim # None PROVE ScheduleIsExact
    BY DEF ScheduleIsExact
  <2> DEFINE t == Tasks(graph)
             c == Calculate(t)
             B == LongestBefore(t)
             F == LongestFrom(t)
  <2>1. PICK rank : Sound(t, rank)
    BY SimulatedIs
  <2>2. Bounded(t) /\ InRange(t) /\ sim.cpm = c /\ FINISH \in Members(t)
    BY SimulatedIs DEF Bounded
  <2>3. /\ c.unscheduled = {} /\ c.length = B[FINISH]
        /\ \A x \in Members(t) :
              c.es[x] = B[x] /\ c.ef[x] = B[x] + t.len[x] /\ c.ls[x] = B[FINISH] - F[x]
        /\ c.critical = {x \in Members(t) : B[x] + F[x] = B[FINISH]}
    BY <2>1, <2>2, CalculateIs
  <2>4. ASSUME NEW x \in c.critical PROVE DragBoundsSaving(t, x)
    <3>1. B[FINISH] - LongestBefore(Crashed(t, x))[FINISH] <= Drag(t, c, x)
      BY <2>1, <2>2, <2>4, DragIs
    <3>2. Crashed(t, x) = [t EXCEPT !.len[x] = 0]
      BY DEF Crashed
    <3> HIDE DEF t, c, B
    <3>3. c.length - LongestBefore([t EXCEPT !.len[x] = 0])[FINISH] <= Drag(t, c, x)
      BY <2>3, <3>1, <3>2
    <3> QED BY <2>2, <3>3 DEF DragBoundsSaving
  <2> HIDE DEF c, B, F
  <2>5. \A x \in Members(t) : x \in c.critical <=> B[x] + F[x] = B[FINISH]
    BY <2>3
  <2> QED BY <2>2, <2>3, <2>4, <2>5 DEF ScheduleIsExact, B, F
<1> QED BY <1>1, CurrentHolds, PTL

(* The critical path is one longest chain. *)
THEOREM PathIsLongestHolds == Spec => []PathIsLongest
<1>1. Current => PathIsLongest
  <2> SUFFICES ASSUME Current, sim # None PROVE PathIsLongest
    BY DEF PathIsLongest
  <2> DEFINE t == Tasks(graph)
             c == Calculate(t)
  <2>1. PICK rank : Sound(t, rank)
    BY SimulatedIs
  <2>2. Bounded(t) /\ InRange(t) /\ sim.cpm = c /\ IdSet(graph) \subseteq Members(t)
    BY SimulatedIs
  <2>3. /\ OnTime(t, c.es, c.ef)
        /\ Head(c.path) = START /\ IsChain(t, c.path)
        /\ ToSet(c.path) \subseteq c.critical /\ ChainHours(t, c.path) = c.length
    BY <2>1, <2>2, PathIs
  <2>4. ASSUME NEW x \in IdSet(graph)
        PROVE  LET row == MilestoneRow(t, c, x)
               IN  /\ Head(row.path) = START /\ Last(row.path) = x
                   /\ IsChain(t, row.path) /\ ChainHours(t, row.path) = row.hours
    <3> DEFINE path == TraceBack(t, c.es, c.ef, x)
               row == MilestoneRow(t, c, x)
    <3>1. row.path = path /\ row.hours = c.ef[x]
      BY DEF MilestoneRow
    <3>2. x \in Members(t)
      BY <2>2
    <3> HIDE DEF path, row, c, t
    <3>3. /\ Head(path) = START /\ Last(path) = x
          /\ IsChain(t, path) /\ ChainHours(t, path) = c.ef[x]
      BY <2>1, <2>2, <2>3, <3>2, MilestoneRowIs DEF path
    <3> QED BY <3>1, <3>3 DEF row
  <2> HIDE DEF c
  <2> QED BY <2>2, <2>3, <2>4 DEF PathIsLongest
<1> QED BY <1>1, CurrentHolds, PTL

-----------------------------------------------------------------------------
(* What an update leaves alone. *)

Put(d, field, value) == [d EXCEPT ![field] = value]

(* The positions, the ids, and what is at each position. *)
LEMMA UpdateShape ==
  ASSUME NEW g, IsGraph(g), NEW y, NEW field, field # "id", NEW value
  PROVE  /\ Len(Update(g, y, field, value)) = Len(g)
         /\ DOMAIN Update(g, y, field, value) = DOMAIN g
         /\ IdSet(Update(g, y, field, value)) = IdSet(g)
         /\ \A i \in DOMAIN g : Update(g, y, field, value)[i].id = g[i].id
<1> DEFINE u == Update(g, y, field, value)
           New(i) == IF g[i].id = y THEN Put(g[i], field, value) ELSE g[i]
           N == Len(g)
<1>1. N \in Nat /\ DOMAIN g = 1 .. N /\ \A i \in 1 .. N : IsDeliverable(g[i])
  BY GraphIs DEF IsGraph
<1>2. \A i \in 1 .. N : New(i).id = g[i].id
  BY <1>1 DEF IsDeliverable, Put
<1>3. u = [i \in 1 .. N |-> New(i)]
  BY <1>1 DEF Update, Put
<1> HIDE DEF New, N, u
<1>4. Len(u) = N /\ DOMAIN u = 1 .. N /\ \A i \in 1 .. N : u[i].id = g[i].id
  BY <1>1, <1>2, <1>3
<1>5. IdSet(u) = IdSet(g)
  BY <1>1, <1>4 DEF IdSet
<1> QED BY <1>1, <1>4, <1>5 DEF u, N

(* What an update leaves at a place. *)
LEMMA UpdateAt ==
  ASSUME NEW g, IsGraph(g), NEW y, NEW field, NEW value, NEW i \in DOMAIN g
  PROVE  /\ g[i].id = y => Update(g, y, field, value)[i] = Put(g[i], field, value)
         /\ g[i].id # y => Update(g, y, field, value)[i] = g[i]
  BY DEF Update, Put

(* Where the ids are the same, they are found at the same positions. *)
LEMMA SameFind ==
  ASSUME NEW g, IsGraph(g), NEW u, DOMAIN u = DOMAIN g, \A i \in DOMAIN g : u[i].id = g[i].id,
         NEW x \in IdSet(g)
  PROVE  \E c \in DOMAIN g : g[c].id = x /\ Find(g, x) = g[c] /\ Find(u, x) = u[c]
<1> DEFINE N == Len(g)
           P(i) == g[i].id = x /\ \A j \in 1 .. i - 1 : g[j].id # x
           Q(i) == u[i].id = x /\ \A j \in 1 .. i - 1 : u[j].id # x
           c == CHOOSE i \in 1 .. N : P(i)
<1>1. N \in Nat /\ DOMAIN g = 1 .. N
  BY GraphIs
<1> HIDE DEF N
<1>2. \A i \in 1 .. N : \A j \in 1 .. i - 1 : j \in 1 .. N
  BY <1>1
<1>3. \A i \in 1 .. N : P(i) <=> Q(i)
  BY <1>1, <1>2
<1>4. Find(g, x) = g[CHOOSE i \in 1 .. N : P(i)]
  BY <1>1 DEF Find
<1>5. Find(u, x) = u[CHOOSE i \in 1 .. N : Q(i)]
  BY <1>1 DEF Find
<1>6. \E i \in 1 .. N : P(i)
  <2> DEFINE S == {i \in 1 .. N : g[i].id = x}
  <2>1. S \subseteq Nat /\ S # {}
    BY <1>1 DEF IdSet
  <2>2. PICK m \in S : \A k \in S : m <= k
    <3> HIDE DEF S
    <3> QED BY <2>1, LeastNatural
  <2>3. \A j \in 1 .. m - 1 : g[j].id # x
    BY <1>1, <2>2
  <2> QED BY <2>2, <2>3
<1> HIDE DEF P, Q
<1>7. c \in 1 .. N /\ P(c)
  BY <1>6
<1>8. (CHOOSE i \in 1 .. N : Q(i)) = c
  BY <1>3
<1> HIDE DEF c
<1>9. Find(u, x) = u[c] /\ Find(g, x) = g[c] /\ g[c].id = x
  BY <1>4, <1>5, <1>7, <1>8 DEF P, c
<1> QED BY <1>1, <1>7, <1>9

(* What it leaves under an id. *)
LEMMA UpdateFinds ==
  ASSUME NEW g, IsGraph(g), NEW y, NEW field, field # "id", NEW value, NEW x \in IdSet(g)
  PROVE  /\ x = y => Find(Update(g, y, field, value), x) = Put(Find(g, x), field, value)
         /\ x # y => Find(Update(g, y, field, value), x) = Find(g, x)
<1> DEFINE u == Update(g, y, field, value)
<1>1. DOMAIN u = DOMAIN g /\ \A i \in DOMAIN g : u[i].id = g[i].id
  BY UpdateShape
<1>2. \A i \in DOMAIN g : (g[i].id = y => u[i] = Put(g[i], field, value)) /\ (g[i].id # y => u[i] = g[i])
  BY UpdateAt
<1> HIDE DEF u
<1>3. PICK c \in DOMAIN g : g[c].id = x /\ Find(g, x) = g[c] /\ Find(u, x) = u[c]
  BY <1>1, SameFind
<1>4. (x = y => Find(u, x) = Put(Find(g, x), field, value)) /\ (x # y => Find(u, x) = Find(g, x))
  BY <1>2, <1>3
<1> QED BY <1>4 DEF u

(* Removing an edge and setting a duration leave the effort of everything alone. *)
LEMMA EffortKept ==
  ASSUME NEW g, IsGraph(g), NEW e, e.op \in {"RemoveEdge", "SetDuration"}, NEW x \in IdSet(g)
  PROVE  EffortBasis(Find(Edited(g, e), x)) = EffortBasis(Find(g, x))
<1>1. PICK y, field, value : field \in {"pre", "duration"} /\ Edited(g, e) = Update(g, y, field, value)
  <2>1. CASE e.op = "RemoveEdge"
    <3>1. Edited(g, e) = Update(g, e.to, "pre", Without(Find(g, e.to).pre, e.from))
      BY <2>1 DEF Edited
    <3> QED BY <3>1
  <2>2. CASE e.op = "SetDuration"
    <3>1. Edited(g, e) = Update(g, e.id, "duration", e.hours)
      BY <2>2 DEF Edited
    <3> QED BY <3>1
  <2> QED BY <2>1, <2>2
<1>2. \/ x = y /\ Find(Edited(g, e), x) = Put(Find(g, x), field, value)
      \/ Find(Edited(g, e), x) = Find(g, x)
  <2>1. field # "id"
    BY <1>1
  <2> DEFINE u == Update(g, y, field, value)
  <2>2. /\ x = y => Find(u, x) = Put(Find(g, x), field, value)
        /\ x # y => Find(u, x) = Find(g, x)
    BY <2>1, UpdateFinds
  <2>3. Edited(g, e) = u
    BY <1>1
  <2> HIDE DEF u
  <2> QED BY <2>2, <2>3
<1>3. IsDeliverable(Find(g, x))
  BY FindsOne DEF IsGraph
<1> DEFINE d == Find(g, x)
           f == Put(d, field, value)
<1>4. f.effort = d.effort /\ f.estimate = d.estimate /\ f.milestone = d.milestone
  BY <1>1, <1>3 DEF IsDeliverable, Put
<1> HIDE DEF d, f
<1>5. EffortBasis(f) = EffortBasis(d)
  BY <1>4 DEF EffortBasis
<1> QED BY <1>2, <1>5 DEF d, f

(* What a review proposes can be adopted. *)
THEOREM ProposalsHoldAlways == Spec => ProposalsHold
<1> DEFINE Kept1 ==
             AdoptProposal =>
               /\ Valid(graph')
               /\ Issues(Lint(graph')) \subseteq Issues(findings)
               /\ \E p \in report.proposals :
                     /\ graph' = Edited(graph, p.draft.edit)
                     /\ Simulation(graph', caps) # None
                     /\ p.saved = SimulatedMakespan(sim) - SimulatedMakespan(Simulation(graph', caps))
                     /\ p.draft.choice # "reduce_scope" =>
                          \A x \in IdSet(graph) : EffortBasis(Find(graph', x)) = EffortBasis(Find(graph, x))
<1>1. Current /\ [Next]_vars => [Kept1]_vars
  <2> SUFFICES ASSUME Current, AdoptProposal PROVE Kept1
    OBVIOUS
  <2>1. PICK p \in report.proposals : Adopt(ApplyEdits(graph, <<p.draft.edit>>))
    BY DEF AdoptProposal
  <2> DEFINE e == p.draft.edit
             out == ApplyEdits(graph, <<e>>)
  <2>2. report = Report(graph, caps, sim, asked, answers) /\ IsGraph(graph) /\ sim # None
    BY DEF AdoptProposal, Current
  <2>3. /\ p.draft \in Drafts(graph, asked, Interpreted(asked, answers))
        /\ Verified(graph, caps, sim, p.draft) /\ p.saved = Saved(graph, caps, sim, p.draft)
    BY <2>1, <2>2, ProposalIs
  <2>4. out # None /\ graph' = out
    BY <2>1 DEF Adopt
  <2>5. out = Edited(graph, e) /\ Valid(Edited(graph, e))
    BY <2>4, ApplyOne
  <2>6. /\ Simulation(out, caps) # None
        /\ Issues(Simulation(out, caps).lint) \subseteq Issues(sim.lint)
    BY <2>3, <2>4 DEF Verified
  <2>7. p.saved = SimulatedMakespan(sim) - SimulatedMakespan(Simulation(out, caps))
    BY <2>3 DEF Saved
  <2>8. Simulation(out, caps).lint = Lint(out)
    BY <2>6, SimulationIs
  <2>9. sim.lint = findings
    BY <2>2, SimulatedIs
  <2>10. ASSUME p.draft.choice # "reduce_scope", NEW x \in IdSet(graph)
         PROVE  EffortBasis(Find(out, x)) = EffortBasis(Find(graph, x))
    <3>1. e.op \in {"RemoveEdge", "SetDuration"}
      BY <2>3, <2>10, DraftIs
    <3> QED BY <2>2, <2>5, <3>1, EffortKept
  <2> HIDE DEF out
  <2> QED BY <2>4, <2>5, <2>6, <2>7, <2>8, <2>9, <2>10
<1>2. Spec => [][Kept1]_vars
  BY <1>1, CurrentHolds, PTL DEF Spec
<1> QED BY <1>2 DEF ProposalsHold

-----------------------------------------------------------------------------
(* Flattening a sequence of sequences. *)

FlatTurn(seqs, n, sofar) == IF n = 1 THEN seqs[n] ELSE sofar \o seqs[n]

FlatSteps(seqs, flat) == flat = [n \in 1 .. Len(seqs) |-> FlatTurn(seqs, n, flat[n - 1])]

(* Flattening takes one step after the other. *)
LEMMA FlattenUnfolds ==
  ASSUME NEW seqs, Len(seqs) \in Nat, Len(seqs) # 0
  PROVE  \E flat : FlatSteps(seqs, flat) /\ FlattenSeq(seqs) = flat[Len(seqs)]
<1> DEFINE Step(n, v) == FlatTurn(seqs, n, v)
           Is(f, k) == f = [n \in 1 .. k |-> Step(n, f[n - 1])]
           G == {k \in Nat : \E f : Is(f, k)}
<1>1. 0 \in G
  <2>1. Is([n \in 1 .. 0 |-> 0], 0)
    <3> HIDE DEF Step
    <3> QED OBVIOUS
  <2> QED BY <2>1
<1>2. ASSUME NEW k \in Nat, k \in G PROVE k + 1 \in G
  <2>1. PICK f : Is(f, k)
    BY <1>2
  <2> DEFINE h == [n \in 1 .. k + 1 |-> IF n = k + 1 THEN Step(n, f[k]) ELSE f[n]]
  <2>2. Is(h, k + 1)
    <3>1. \A n \in 1 .. k + 1 : h[n] = Step(n, h[n - 1])
      <4> SUFFICES ASSUME NEW n \in 1 .. k + 1 PROVE h[n] = Step(n, h[n - 1])
        OBVIOUS
      <4>1. CASE n = 1
        <5>1. Step(n, h[n - 1]) = Step(n, f[n - 1]) /\ Step(n, f[k]) = Step(n, f[n - 1])
          BY <4>1 DEF FlatTurn
        <5>2. n \in 1 .. k => f[n] = Step(n, f[n - 1])
          <6> HIDE DEF Step, h
          <6> QED BY <2>1
        <5> HIDE DEF Step
        <5> QED BY <5>1, <5>2
      <4>2. CASE n # 1
        <5>1. n - 1 \in 1 .. k /\ n - 1 # k + 1
          BY <4>2
        <5>2. h[n - 1] = f[n - 1]
          <6> HIDE DEF Step
          <6> QED BY <5>1
        <5>3. n \in 1 .. k => f[n] = Step(n, f[n - 1])
          <6> HIDE DEF Step, h
          <6> QED BY <2>1
        <5> HIDE DEF Step
        <5>4. CASE n = k + 1
          BY <5>2, <5>4
        <5>5. CASE n # k + 1
          BY <5>2, <5>3, <5>5
        <5> QED BY <5>4, <5>5
      <4> QED BY <4>1, <4>2
    <3>2. h = [n \in 1 .. k + 1 |-> h[n]]
      <4> HIDE DEF Step
      <4> QED OBVIOUS
    <3> HIDE DEF h, Step
    <3> QED BY <3>1, <3>2
  <2> HIDE DEF h, Is
  <2> QED BY <2>2
<1>3. PICK f : Is(f, Len(seqs))
  <2> HIDE DEF Is
  <2>1. Len(seqs) \in G
    <3> HIDE DEF G
    <3> QED BY <1>1, <1>2, Upward
  <2> QED BY <2>1
<1> DEFINE flat[n \in 1 .. Len(seqs)] == IF n = 1 THEN seqs[n] ELSE flat[n - 1] \o seqs[n]
<1>4. flat = [n \in 1 .. Len(seqs) |-> FlatTurn(seqs, n, flat[n - 1])]
  BY <1>3, Zenon DEF FlatTurn
<1>5. FlattenSeq(seqs) = flat[Len(seqs)]
  BY Zenon DEF FlattenSeq
<1> HIDE DEF flat
<1> QED BY <1>4, <1>5 DEF FlatSteps

(* No sequences give none. *)
LEMMA FlattenNone ==
  ASSUME NEW seqs, Len(seqs) = 0
  PROVE  FlattenSeq(seqs) = seqs
  BY Zenon DEF FlattenSeq

(* The empty sequence is flat. *)
LEMMA FlattenEmpty == FlattenSeq(<<>>) = <<>>
<1>1. Len(<<>>) = 0
  OBVIOUS
<1> QED BY <1>1, FlattenNone

(* Flattening keeps the elements in their set. *)
LEMMA FlattenIs ==
  ASSUME NEW X, NEW seqs \in Seq(Seq(X))
  PROVE  FlattenSeq(seqs) \in Seq(X)
<1>1. Len(seqs) \in Nat /\ \A n \in 1 .. Len(seqs) : seqs[n] \in Seq(X)
  BY LenProperties
<1>2. CASE Len(seqs) = 0
  <2>1. seqs = <<>>
    BY <1>2, EmptySeq
  <2>2. FlattenSeq(seqs) = <<>>
    BY <2>1, Zenon, FlattenEmpty
  <2>3. <<>> \in Seq(X)
    OBVIOUS
  <2> QED BY <2>2, <2>3
<1>3. CASE Len(seqs) # 0
  <2>1. PICK flat : FlatSteps(seqs, flat) /\ FlattenSeq(seqs) = flat[Len(seqs)]
    BY <1>1, <1>3, FlattenUnfolds
  <2> DEFINE N == Len(seqs)
             G == {k \in Nat : k + 1 <= N => flat[k + 1] \in Seq(X)}
  <2>2. \A n \in 1 .. N : flat[n] = FlatTurn(seqs, n, flat[n - 1])
    <3> DEFINE Step(n, v) == FlatTurn(seqs, n, v)
    <3>1. flat = [n \in 1 .. N |-> Step(n, flat[n - 1])]
      BY <2>1 DEF FlatSteps
    <3> HIDE DEF Step, N
    <3>2. \A n \in 1 .. N : flat[n] = Step(n, flat[n - 1])
      BY <3>1
    <3> QED BY <3>2 DEF Step
  <2> HIDE DEF N
  <2>3. 0 \in G
    <3>1. 1 \in 1 .. N /\ flat[1] = seqs[1]
      BY <1>1, <1>3, <2>2 DEF N, FlatTurn
    <3> QED BY <1>1, <3>1 DEF N
  <2>4. ASSUME NEW k \in Nat, k \in G PROVE k + 1 \in G
    <3> SUFFICES ASSUME (k + 1) + 1 <= N PROVE flat[(k + 1) + 1] \in Seq(X)
      OBVIOUS
    <3> DEFINE n == (k + 1) + 1
    <3>1. n \in 1 .. N /\ n # 1 /\ n - 1 = k + 1 /\ k + 1 <= N
      BY <1>1 DEF N
    <3> HIDE DEF n
    <3>2. flat[n] = flat[k + 1] \o seqs[n] /\ flat[k + 1] \in Seq(X) /\ seqs[n] \in Seq(X)
      BY <1>1, <2>2, <2>4, <3>1 DEF FlatTurn, N
    <3>3. flat[k + 1] \o seqs[n] \in Seq(X)
      BY <3>2, ConcatProperties
    <3> QED BY <3>2, <3>3 DEF n
  <2>5. Nat \subseteq G
    <3> HIDE DEF G
    <3> QED BY <2>3, <2>4, Upward
  <2>6. N - 1 \in Nat /\ (N - 1) + 1 = N
    BY <1>1, <1>3 DEF N
  <2>7. flat[N] \in Seq(X)
    BY <2>5, <2>6
  <2> QED BY <2>1, <2>7 DEF N
<1> QED BY <1>2, <1>3

-----------------------------------------------------------------------------
(* The questions of a review. *)

(* Only the two questions of an edge have sides. *)
Sided(c) == c.side \in {"artifact", "independence"} => c.kind = "false_dependency"

(* A list of candidates. *)
IsList(s) ==
    /\ Len(s) \in Nat /\ s = [i \in 1 .. Len(s) |-> s[i]] /\ \A i \in 1 .. Len(s) : Sided(s[i])

(* A list as a sequence. *)
LEMMA ListIs ==
  ASSUME NEW s, IsList(s)
  PROVE  s \in Seq(ToSet(s)) /\ \A c \in ToSet(s) : Sided(c)
<1> DEFINE n == Len(s)
           T == ToSet(s)
<1>1. n \in Nat /\ s = [i \in 1 .. n |-> s[i]]
  BY DEF IsList
<1>2. DOMAIN s = 1 .. n
  <2> HIDE DEF n
  <2> QED BY <1>1
<1>3. \A i \in 1 .. n : s[i] \in T
  BY <1>2 DEF ToSet
<1>4. s \in [1 .. n -> T]
  <2> HIDE DEF n, T
  <2> QED BY <1>1, <1>3
<1>5. s \in Seq(T)
  <2>1. s \in UNION {[1 .. k -> T] : k \in Nat}
    BY <1>1, <1>4
  <2> QED BY <2>1, SeqDef
<1>6. \A c \in T : Sided(c)
  BY <1>2 DEF IsList, ToSet
<1> QED BY <1>5, <1>6

(* A sequence of sound questions is a list. *)
LEMMA SequenceIsList ==
  ASSUME NEW X, NEW s \in Seq(X), \A c \in X : Sided(c)
  PROVE  IsList(s)
<1> DEFINE n == Len(s)
<1>1. n \in Nat /\ s \in [1 .. n -> X]
  BY LenProperties
<1> HIDE DEF n
<1>2. s = [i \in 1 .. n |-> s[i]] /\ \A i \in 1 .. n : s[i] \in X
  BY <1>1
<1> QED BY <1>1, <1>2 DEF IsList, n

(* Candidates without a side. *)
LEMMA UnsidedList ==
  ASSUME NEW s, NEW n \in Nat, s = [i \in 1 .. n |-> s[i]], \A i \in 1 .. n : s[i].side = None
  PROVE  IsList(s)
<1>1. Len(s) = n
  OBVIOUS
<1>2. \A i \in 1 .. n : Sided(s[i])
  BY TriageAssumption DEF Sided
<1> QED BY <1>1, <1>2 DEF IsList

(* Sorting a finite set of one kind gives a list. *)
LEMMA LongestFirstIs ==
  ASSUME NEW g, NEW kind, NEW S, IsFiniteSet(S)
  PROVE  IsList(LongestFirst(g, kind, S))
<1> DEFINE n == Cardinality(S)
           s == LongestFirst(g, kind, S)
           Rank(x) == <<0 - LengthOf(g, x), x>>
           ids == Ranked(S, Rank)
<1>1. n \in Nat
  BY FS_CardinalityType
<1>2. DOMAIN ids = 1 .. n
  BY DEF Ranked
<1>3. s = [i \in DOMAIN ids |-> Candidate(kind, <<ids[i]>>, None)]
  BY DEF LongestFirst
<1> HIDE DEF ids, n, s
<1>4. s = [i \in 1 .. n |-> s[i]] /\ \A i \in 1 .. n : s[i].side = None
  BY <1>2, <1>3 DEF Candidate
<1> QED BY <1>1, <1>4, UnsidedList DEF s

(* A graph has finitely many edges. *)
LEMMA EdgesFinite ==
  ASSUME NEW g, IsGraph(g), KnownPrerequisites(g)
  PROVE  EdgePairs(g) \subseteq IdSet(g) \X IdSet(g) /\ IsFiniteSet(EdgePairs(g))
<1>1. EdgePairs(g) \subseteq IdSet(g) \X IdSet(g)
  <2> SUFFICES ASSUME NEW e \in Edges(g) PROVE e[2] \in IdSet(g) /\ e[1].id \in IdSet(g)
    BY DEF EdgePairs
  <2>1. PICK i \in DOMAIN g : \E p \in Prerequisites(g[i]) : e = <<g[i], p>>
    BY DEF Edges
  <2>2. PICK p \in Prerequisites(g[i]) : e = <<g[i], p>>
    BY <2>1
  <2>3. e[1] = g[i] /\ e[2] = p
    BY <2>2
  <2> QED BY <2>2, <2>3, GraphIs DEF KnownPrerequisites
<1>2. IsFiniteSet(IdSet(g) \X IdSet(g))
  BY GraphIs, FS_Product
<1> QED BY <1>1, <1>2, FS_Subset

(* The questions about its edges form a list. *)
LEMMA FalseDependencyIs ==
  ASSUME NEW g, IsGraph(g), KnownPrerequisites(g), NEW cpm
  PROVE  IsList(FalseDependencyCandidates(g, cpm))
<1> DEFINE edges == RankedEdges(g, cpm)
           n == Cardinality(EdgePairs(g))
           Of(i) == <<Candidate("false_dependency", edges[i], "artifact"),
                      Candidate("false_dependency", edges[i], "independence")>>
           X == UNION {ToSet(Of(i)) : i \in 1 .. n}
           seqs == [i \in DOMAIN edges |-> Of(i)]
<1>1. n \in Nat
  BY EdgesFinite, FS_CardinalityType
<1>2. DOMAIN edges = 1 .. n
  BY DEF RankedEdges, Ranked
<1> HIDE DEF edges, n
<1>3. ASSUME NEW i \in 1 .. n PROVE Of(i) \in Seq(X) /\ \A c \in ToSet(Of(i)) : Sided(c)
  <2> DEFINE a == Candidate("false_dependency", edges[i], "artifact")
             b == Candidate("false_dependency", edges[i], "independence")
  <2>1. Sided(a) /\ Sided(b)
    BY DEF Sided, Candidate
  <2> HIDE DEF a, b
  <2>2. <<a, b>> \in Seq({a, b}) /\ DOMAIN <<a, b>> = {1, 2} /\ ToSet(<<a, b>>) = {a, b}
    <3>1. DOMAIN <<a, b>> = {1, 2}
      OBVIOUS
    <3> QED BY <3>1 DEF ToSet
  <2>3. Of(i) = <<a, b>>
    BY DEF a, b
  <2>4. {a, b} \subseteq X
    <3>1. ToSet(Of(i)) \subseteq X
      <4> HIDE DEF Of
      <4> QED OBVIOUS
    <3> HIDE DEF X
    <3> QED BY <2>2, <2>3, <3>1
  <2>5. <<a, b>> \in Seq(X)
    <3> HIDE DEF X
    <3> QED BY <2>4
  <2> HIDE DEF Of, X
  <2> QED BY <2>1, <2>2, <2>3, <2>5
<1> HIDE DEF Of
<1>4. \A c \in X : Sided(c)
  BY <1>3
<1>5. seqs \in Seq(Seq(X))
  <2> HIDE DEF X
  <2> QED BY <1>1, <1>2, <1>3
<1>6. FlattenSeq(seqs) \in Seq(X)
  <2> HIDE DEF X, seqs
  <2> QED BY <1>5, FlattenIs
<1>7. FalseDependencyCandidates(g, cpm) = FlattenSeq(seqs)
  BY DEF FalseDependencyCandidates, edges, Of
<1> HIDE DEF X, seqs
<1> QED BY <1>4, <1>6, <1>7, SequenceIsList

-----------------------------------------------------------------------------
(* What is asked *)

(* The lesser of two numbers. *)
LEMMA LesserIs ==
  ASSUME NEW a \in Int, NEW b \in Int
  PROVE  Min({a, b}) \in {a, b} /\ Min({a, b}) <= a /\ Min({a, b}) <= b
<1> DEFINE S == {a, b}
<1>1. IsFiniteSet(S)
  <2>1. IsFiniteSet({a})
    BY FS_EmptySet, FS_AddElement, {a} = {} \cup {a}
  <2>2. S = {a} \cup {b}
    OBVIOUS
  <2> QED BY <2>1, <2>2, FS_AddElement
<1>2. S # {} /\ S \subseteq Int /\ a \in S /\ b \in S
  OBVIOUS
<1> HIDE DEF S
<1>3. Min(S) \in S /\ \A x \in S : Min(S) <= x
  BY <1>1, <1>2, MinIs
<1> QED BY <1>2, <1>3 DEF S

(* So do those of every other kind. *)
LEMMA CandidateListsAre ==
  ASSUME NEW g, IsGraph(g), KnownPrerequisites(g), NEW cpm, NEW l \in 1 .. 5
  PROVE  IsList(CandidateLists(g, cpm)[l])
<1>1. IsFiniteSet(IdSet(g)) /\ IsFiniteSet(EdgePairs(g))
  BY GraphIs, EdgesFinite
<1>2. IsFiniteSet(WorkItems(g)) /\ IsFiniteSet(WorkItems(g) \cap cpm.critical)
  <2>1. WorkItems(g) \subseteq IdSet(g) /\ WorkItems(g) \cap cpm.critical \subseteq IdSet(g)
    BY DEF WorkItems
  <2> QED BY <1>1, <2>1, FS_Subset
<1>3. IsList(CrashCandidates(g, cpm))
  BY <1>2, LongestFirstIs DEF CrashCandidates
<1>4. IsList(FalseDependencyCandidates(g, cpm))
  BY FalseDependencyIs
<1>5. IsList(InterfaceSplitCandidates(g, cpm))
  <2> DEFINE split == {e \in EdgePairs(g) : /\ {e[1], e[2]} \subseteq cpm.critical
                                            /\ ~ Find(g, e[2]).pre[e[1]].interface}
             Rank(e) == <<0 - LengthOf(g, e[1]), e[1], e[2]>>
             edges == Ranked(split, Rank)
             n == Cardinality(split)
             s == InterfaceSplitCandidates(g, cpm)
  <2>1. IsFiniteSet(split)
    BY <1>1, FS_Subset
  <2>2. n \in Nat
    BY <2>1, FS_CardinalityType
  <2>3. DOMAIN edges = 1 .. n
    BY DEF Ranked
  <2>4. s = [i \in DOMAIN edges |-> Candidate("interface_split", edges[i], None)]
    BY DEF InterfaceSplitCandidates
  <2> HIDE DEF edges, n, s
  <2>5. s = [i \in 1 .. n |-> s[i]] /\ \A i \in 1 .. n : s[i].side = None
    BY <2>3, <2>4 DEF Candidate
  <2> QED BY <2>2, <2>5, UnsidedList DEF s
<1>6. IsList(SplitCandidates(g))
  <2> DEFINE S == {x \in WorkItems(g) : \/ LengthOf(g, x) >= SPLIT_MIN_HOURS
                                        \/ LengthOf(g, x) >= TwiceMedian(g)}
  <2>1. IsFiniteSet(S)
    BY <1>2, FS_Subset
  <2>2. SplitCandidates(g) = LongestFirst(g, "split_candidate", S)
    BY DEF SplitCandidates
  <2> HIDE DEF S
  <2> QED BY <2>1, <2>2, LongestFirstIs
<1>7. IsList(MissingDependencyCandidates(g))
  <2> DEFINE suspects == {p \in Pairs(IdSet(g)) : Suspicion(g, p) > 0 /\ ~ Ordered(g, p[1], p[2])}
             ranked == Ranked(suspects, LAMBDA p : <<0 - Suspicion(g, p), p[1], p[2]>>)
             n == Cardinality(suspects)
             k == Min({Len(ranked), MISSING_DEPENDENCY_TOP_K})
             s == MissingDependencyCandidates(g)
  <2>1. IsFiniteSet(suspects)
    <3>1. suspects \subseteq IdSet(g) \X IdSet(g)
      BY DEF Pairs
    <3>2. IsFiniteSet(IdSet(g) \X IdSet(g))
      BY <1>1, FS_Product
    <3> QED BY <3>1, <3>2, FS_Subset
  <2>2. n \in Nat
    BY <2>1, FS_CardinalityType
  <2>3. Len(ranked) = n
    <3> DEFINE Rank(p) == <<0 - Suspicion(g, p), p[1], p[2]>>
               r == [x \in suspects |-> Rank(x)]
               At(i) == CHOOSE x \in suspects : Cardinality({y \in suspects : Lower(r[y], r[x])}) = i - 1
    <3>1. ranked = [i \in 1 .. n |-> At(i)]
      BY DEF Ranked
    <3> HIDE DEF ranked, n, At
    <3> QED BY <2>2, <3>1
  <2>4. k \in Nat
    <3> DEFINE K == MISSING_DEPENDENCY_TOP_K
    <3>1. K \in Nat
      BY TriageAssumption
    <3> HIDE DEF n, K
    <3>2. Min({n, K}) \in {n, K}
      <4>1. n \in Int /\ K \in Int
        BY <2>2, <3>1
      <4> QED BY <4>1, LesserIs
    <3> QED BY <2>2, <2>3, <3>1, <3>2 DEF K
  <2>5. s = [i \in 1 .. k |-> Candidate("missing_dependency", ranked[i], None)]
    BY DEF MissingDependencyCandidates
  <2> HIDE DEF ranked, k, s
  <2>6. s = [i \in 1 .. k |-> s[i]] /\ \A i \in 1 .. k : s[i].side = None
    BY <2>5 DEF Candidate
  <2> QED BY <2>4, <2>6, UnsidedList DEF s
<1> DEFINE lists == CandidateLists(g, cpm)
<1>8. /\ lists[1] = CrashCandidates(g, cpm) /\ lists[2] = FalseDependencyCandidates(g, cpm)
      /\ lists[3] = InterfaceSplitCandidates(g, cpm) /\ lists[4] = SplitCandidates(g)
      /\ lists[5] = MissingDependencyCandidates(g)
  BY DEF CandidateLists
<1> HIDE DEF lists
<1>9. l = 1 \/ l = 2 \/ l = 3 \/ l = 4 \/ l = 5
  OBVIOUS
<1> QED BY <1>3, <1>4, <1>5, <1>6, <1>7, <1>8, <1>9 DEF lists

(* What is asked is a list of them. *)
LEMMA RoundRobinIs ==
  ASSUME NEW lists, DOMAIN lists = 1 .. 5, \A l \in 1 .. 5 : IsList(lists[l]), NEW cap \in Nat
  PROVE  /\ Len(RoundRobin(lists, cap)) \in Nat
         /\ DOMAIN RoundRobin(lists, cap) = 1 .. Len(RoundRobin(lists, cap))
         /\ \A i \in DOMAIN RoundRobin(lists, cap) : Sided(RoundRobin(lists, cap)[i])
<1> DEFINE X == UNION {ToSet(lists[l]) : l \in DOMAIN lists}
           lens == {Len(lists[l]) : l \in DOMAIN lists}
           K == Max(lens)
           all == Interleaved(lists)
           out == RoundRobin(lists, cap)
<1>1. \A c \in X : Sided(c)
  BY ListIs
<1>2. \A l \in 1 .. 5 : Len(lists[l]) \in Nat /\ \A k \in 1 .. Len(lists[l]) : lists[l][k] \in X
  <2> SUFFICES ASSUME NEW l \in 1 .. 5
               PROVE  Len(lists[l]) \in Nat /\ \A k \in 1 .. Len(lists[l]) : lists[l][k] \in X
    OBVIOUS
  <2>1. lists[l] \in Seq(ToSet(lists[l]))
    BY ListIs
  <2>2. ToSet(lists[l]) \subseteq X
    OBVIOUS
  <2> DEFINE s == lists[l]
             T == ToSet(lists[l])
  <2> HIDE DEF s, T, X
  <2>3. Len(s) \in Nat /\ \A k \in 1 .. Len(s) : s[k] \in T
    BY <2>1, LenProperties DEF s, T
  <2> QED BY <2>2, <2>3 DEF s, T
<1>3. K \in Nat
  <2>1. IsFiniteSet(lens)
    <3> DEFINE len == [l \in 1 .. 5 |-> Len(lists[l])]
    <3>1. lens = {len[l] : l \in 1 .. 5}
      OBVIOUS
    <3>2. IsFiniteSet(1 .. 5)
      BY 1 \in Int /\ 5 \in Int, FS_Interval
    <3> HIDE DEF len, lens
    <3> QED BY <3>1, <3>2, FiniteImage
  <2>2. lens \subseteq Nat /\ Len(lists[1]) \in lens
    BY <1>2
  <2> HIDE DEF lens
  <2>3. K \in lens
    <3>1. lens \subseteq Int /\ lens # {}
      BY <2>2
    <3> QED BY <2>1, <3>1, MaxIs
  <2> QED BY <2>2, <2>3
<1>4. \A k \in 1 .. K : Round(lists, k) \in Seq(X)
  <2> SUFFICES ASSUME NEW k \in 1 .. K PROVE Round(lists, k) \in Seq(X)
    OBVIOUS
  <2> DEFINE s == [l \in DOMAIN lists |-> IF k <= Len(lists[l]) THEN lists[l][k] ELSE None]
             Y == X \cup {None}
  <2>1. \A l \in 1 .. 5 : s[l] \in Y
    <3> SUFFICES ASSUME NEW l \in 1 .. 5 PROVE s[l] \in Y
      OBVIOUS
    <3>1. k <= Len(lists[l]) => lists[l][k] \in X
      <4> HIDE DEF X
      <4> QED BY <1>2, <1>3
    <3> HIDE DEF X
    <3> QED BY <3>1
  <2>2. s \in Seq(Y)
    <3>1. s = [l \in 1 .. 5 |-> s[l]]
      OBVIOUS
    <3> HIDE DEF s, Y
    <3> QED BY <2>1, <3>1
  <2>3. Round(lists, k) = Kept(s, X)
    BY DEF Round
  <2> HIDE DEF s
  <2>4. Kept(s, X) \in Seq(Y) /\ ToSet(Kept(s, X)) = ToSet(s) \cap X
    <3> HIDE DEF X, Y
    <3> QED BY <2>2, KeptIs
  <2> DEFINE r == Kept(s, X)
  <2> HIDE DEF X, r
  <2>5. Len(r) \in Nat /\ DOMAIN r = 1 .. Len(r) /\ \A i \in 1 .. Len(r) : r[i] \in X
    <3>1. Len(r) \in Nat /\ DOMAIN r = 1 .. Len(r)
      <4> HIDE DEF Y
      <4> QED BY <2>4, LenProperties DEF r
    <3>2. \A i \in DOMAIN r : r[i] \in ToSet(r)
      BY DEF ToSet
    <3> QED BY <2>4, <3>1, <3>2 DEF r
  <2>6. r \in Seq(X)
    <3>1. r \in Seq(Y)
      BY <2>4 DEF r
    <3> HIDE DEF Y
    <3> QED BY <2>5, <3>1
  <2> QED BY <2>3, <2>6 DEF r
<1> HIDE DEF X, K
<1>5. all \in Seq(X)
  <2> DEFINE seqs == [k \in 1 .. K |-> Round(lists, k)]
  <2>1. seqs \in Seq(Seq(X))
    BY <1>3, <1>4
  <2>2. all = FlattenSeq(seqs)
    BY DEF Interleaved, K
  <2> HIDE DEF seqs
  <2> QED BY <2>1, <2>2, FlattenIs
<1> DEFINE m == Min({cap, Len(all)})
<1>6. m \in Nat /\ m <= Len(all) /\ Len(all) \in Nat
  <2> DEFINE n == Len(all)
  <2>1. n \in Nat
    BY <1>5, LenProperties
  <2> HIDE DEF n, all
  <2>3. Min({cap, n}) \in {cap, n} /\ Min({cap, n}) <= n
    BY <2>1, LesserIs
  <2> QED BY <2>1, <2>3 DEF n
<1>7. out = SubSeq(all, 1, m)
  BY DEF RoundRobin
<1> HIDE DEF all, m, out
<1>8. out \in Seq(X)
  <2>1. \A i \in 1 .. m : all[i] \in X
    BY <1>5, <1>6
  <2> QED BY <1>5, <1>6, <1>7, <2>1, SubSeqProperties
<1>9. Len(out) \in Nat /\ DOMAIN out = 1 .. Len(out) /\ \A i \in 1 .. Len(out) : out[i] \in X
  BY <1>8, LenProperties
<1> QED BY <1>1, <1>9 DEF out

-----------------------------------------------------------------------------
(* Answers. *)

AnswerTurn(questions, n, sofar) ==
    IF n = 0 THEN {<<>>} ELSE Extended(sofar, Answers[questions[n].kind])

AnswerSteps(questions, upTo) ==
    upTo = [n \in 0 .. Len(questions) |-> AnswerTurn(questions, n, upTo[n - 1])]

(* The answers are given one after the other. *)
LEMMA AnswersUnfold ==
  ASSUME NEW questions, Len(questions) \in Nat
  PROVE  \E upTo : AnswerSteps(questions, upTo) /\ AnswersTo(questions) = upTo[Len(questions)]
<1> DEFINE Step(n, v) == AnswerTurn(questions, n, v)
           Is(f, k) == f = [n \in 0 .. k |-> Step(n, f[n - 1])]
           G == {k \in Nat : \E f : Is(f, k)}
<1>0. \A v, w : Step(0, v) = Step(0, w)
  BY DEF AnswerTurn
<1>1. 0 \in G
  <2>1. Is([n \in 0 .. 0 |-> Step(0, 0)], 0)
    <3> HIDE DEF Step
    <3> QED BY <1>0
  <2> QED BY <2>1
<1>2. ASSUME NEW k \in Nat, k \in G PROVE k + 1 \in G
  <2> HIDE DEF Step
  <2>1. PICK f : Is(f, k)
    BY <1>2
  <2> DEFINE h == [n \in 0 .. k + 1 |-> IF n = k + 1 THEN Step(n, f[k]) ELSE f[n]]
  <2>2. Is(h, k + 1)
    <3>1. \A n \in 0 .. k + 1 : h[n] = Step(n, h[n - 1])
      <4> SUFFICES ASSUME NEW n \in 0 .. k + 1 PROVE h[n] = Step(n, h[n - 1])
        OBVIOUS
      <4>1. n \in 0 .. k => f[n] = Step(n, f[n - 1])
        <5> HIDE DEF h
        <5> QED BY <2>1
      <4>2. CASE n = 0
        <5>1. h[n] = f[n] /\ n \in 0 .. k
          BY <4>2
        <5> HIDE DEF h
        <5> QED BY <4>1, <4>2, <5>1, <1>0
      <4>3. CASE n # 0 /\ n # k + 1
        <5>1. h[n] = f[n] /\ h[n - 1] = f[n - 1] /\ n \in 0 .. k
          BY <4>3
        <5> HIDE DEF h
        <5> QED BY <4>1, <5>1
      <4>4. CASE n = k + 1
        <5>1. h[n] = Step(n, f[k]) /\ n - 1 = k /\ h[k] = f[k]
          BY <4>4
        <5> HIDE DEF h
        <5> QED BY <5>1
      <4> QED BY <4>2, <4>3, <4>4
    <3>2. h = [n \in 0 .. k + 1 |-> h[n]]
      OBVIOUS
    <3> HIDE DEF h
    <3> QED BY <3>1, <3>2
  <2> HIDE DEF h, Is
  <2> QED BY <2>2
<1>3. PICK f : Is(f, Len(questions))
  <2> HIDE DEF Is
  <2>1. Len(questions) \in G
    <3> HIDE DEF G
    <3> QED BY <1>1, <1>2, Upward
  <2> QED BY <2>1
<1> DEFINE upTo[n \in 0 .. Len(questions)] ==
             IF n = 0 THEN {<<>>} ELSE Extended(upTo[n - 1], Answers[questions[n].kind])
<1>4. upTo = [n \in 0 .. Len(questions) |-> AnswerTurn(questions, n, upTo[n - 1])]
  BY <1>3, Zenon DEF AnswerTurn
<1>5. AnswersTo(questions) = upTo[Len(questions)]
  BY Zenon DEF AnswersTo
<1> HIDE DEF upTo
<1> QED BY <1>4, <1>5 DEF AnswerSteps

(* Each question has an answer of its kind. *)
LEMMA AnswersAre ==
  ASSUME NEW questions, Len(questions) \in Nat, NEW a \in AnswersTo(questions)
  PROVE  \A i \in 1 .. Len(questions) : a[i] \in Answers[questions[i].kind]
<1>1. PICK upTo : AnswerSteps(questions, upTo) /\ AnswersTo(questions) = upTo[Len(questions)]
  BY AnswersUnfold
<1> DEFINE N == Len(questions)
           K(i) == Answers[questions[i].kind]
           X == UNION {K(i) : i \in 1 .. N}
           Fits(b, k) == b \in Seq(X) /\ Len(b) = k /\ \A i \in 1 .. k : b[i] \in K(i)
           G == {k \in Nat : k <= N => \A b \in upTo[k] : Fits(b, k)}
<1>2. N \in Nat
  OBVIOUS
<1>3. \A n \in 0 .. N : upTo[n] = AnswerTurn(questions, n, upTo[n - 1])
  <2> DEFINE Step(n, v) == AnswerTurn(questions, n, v)
  <2>1. upTo = [n \in 0 .. N |-> Step(n, upTo[n - 1])]
    BY <1>1 DEF AnswerSteps
  <2> HIDE DEF Step, N
  <2>2. \A n \in 0 .. N : upTo[n] = Step(n, upTo[n - 1])
    BY <2>1
  <2> QED BY <2>2 DEF Step
<1> HIDE DEF N
<1>4. 0 \in G
  <2>1. upTo[0] = {<<>>}
    BY <1>2, <1>3 DEF AnswerTurn
  <2>2. Fits(<<>>, 0)
    <3> HIDE DEF X, K
    <3> QED OBVIOUS
  <2> HIDE DEF Fits
  <2> QED BY <2>1, <2>2
<1>5. ASSUME NEW k \in Nat, k \in G PROVE k + 1 \in G
  <2> SUFFICES ASSUME k + 1 <= N, NEW b \in upTo[k + 1] PROVE Fits(b, k + 1)
    OBVIOUS
  <2>1. k + 1 \in 0 .. N /\ k + 1 # 0 /\ (k + 1) - 1 = k /\ k <= N /\ k + 1 \in 1 .. N
    BY <1>2
  <2>2. upTo[k + 1] = Extended(upTo[k], K(k + 1))
    BY <1>3, <2>1 DEF AnswerTurn
  <2>3. PICK c \in upTo[k], answer \in K(k + 1) : b = Append(c, answer)
    BY <2>2 DEF Extended
  <2>4. Fits(c, k)
    BY <1>5, <2>1
  <2>5. answer \in X
    BY <2>1
  <2> HIDE DEF X, K
  <2>6. b \in Seq(X) /\ Len(b) = k + 1 /\ b[k + 1] = answer /\ \A i \in 1 .. k : b[i] = c[i]
    BY <2>3, <2>4, <2>5, AppendProperties
  <2>7. \A i \in 1 .. k + 1 : i \in 1 .. k \/ i = k + 1
    OBVIOUS
  <2> QED BY <2>4, <2>6, <2>7
<1>6. Nat \subseteq G
  <2> HIDE DEF G
  <2> QED BY <1>4, <1>5, Upward
<1>7. Fits(a, N)
  <2>1. a \in upTo[N]
    BY <1>1 DEF N
  <2> HIDE DEF Fits
  <2> QED BY <1>2, <1>6, <2>1
<1> QED BY <1>7 DEF N

-----------------------------------------------------------------------------
(* The report. *)

(* A side that was answered was asked, and this is its answer. *)
LEMMA EdgeAnswerIs ==
  ASSUME NEW q, NEW judged, NEW e, NEW side, EdgeAnswer(q, judged, e, side) # None
  PROVE  \E i \in DOMAIN judged : /\ q[i].ids = e /\ q[i].side = side
                                  /\ EdgeAnswer(q, judged, e, side) = judged[i].probability
<1> DEFINE at == {i \in DOMAIN judged : q[i].ids = e /\ q[i].side = side}
           i == CHOOSE j \in at : TRUE
<1>1. at # {}
  BY DEF EdgeAnswer
<1>2. EdgeAnswer(q, judged, e, side) = judged[i].probability
  BY <1>1 DEF EdgeAnswer
<1>3. i \in at
  BY <1>1
<1> HIDE DEF i
<1> QED BY <1>2, <1>3

(* A review that calls itself complete left no edge in doubt. *)
THEOREM NoSilentEdgeHolds == Spec => []NoSilentEdge
<1>1. Current => NoSilentEdge
  <2> SUFFICES ASSUME Current, report # None, asked # <<>>, report.status = "ok",
                      NEW e \in EdgePairs(graph),
                      <<"false_dependency", e>> \notin report.findings
               PROVE  \E i, j \in DOMAIN asked :
                        /\ asked[i].ids = e /\ asked[i].side = "artifact" /\ answers[i] \in 50 .. 100
                        /\ asked[j].ids = e /\ asked[j].side = "independence" /\ answers[j] \in 0 .. 49
    BY DEF NoSilentEdge
  <2> DEFINE judged == Interpreted(asked, answers)
             Said(side) == EdgeAnswer(asked, judged, e, side)
             lists == CandidateLists(graph, sim.cpm)
  <2>1. /\ asked # None /\ sim # None /\ answers \in AnswersTo(asked)
        /\ report = Report(graph, caps, sim, asked, answers)
    BY DEF Current
  <2>2. PICK cap \in Caps : asked = RoundRobin(lists, cap)
    BY <2>1 DEF Current
  <2>3. IsGraph(graph) /\ KnownPrerequisites(graph)
    BY <2>1, SimulatedIs DEF Valid
  <2>4. DOMAIN lists = 1 .. 5
    BY DEF CandidateLists
  <2>5. \A l \in 1 .. 5 : IsList(lists[l])
    BY <2>3, CandidateListsAre
  <2>6. /\ Len(asked) \in Nat /\ DOMAIN asked = 1 .. Len(asked)
        /\ \A i \in DOMAIN asked : Sided(asked[i])
    <3>1. cap \in Nat
      BY ImprovementAssumption
    <3> HIDE DEF lists
    <3> QED BY <2>2, <2>4, <2>5, <3>1, RoundRobinIs
  <2>7. \A i \in DOMAIN asked : answers[i] \in Answers[asked[i].kind]
    BY <2>1, <2>6, AnswersAre
  <2>8. /\ ReviewedEdges(graph, asked, judged) = EdgePairs(graph)
        /\ e \notin SuspectEdges(graph, asked, judged)
    <3>1. report.status = IF asked # <<>> /\ ReviewedEdges(graph, asked, judged) # EdgePairs(graph)
                          THEN "partial" ELSE "ok"
      BY <2>1 DEF Report
    <3>2. report.findings = Findings(graph, asked, judged)
      BY <2>1 DEF Report
    <3>3. e \in SuspectEdges(graph, asked, judged)
            => <<"false_dependency", e>> \in Findings(graph, asked, judged)
      BY DEF Findings
    <3> HIDE DEF judged
    <3> QED BY <3>1, <3>2, <3>3
  <2>9. Said("artifact") # None /\ Said("independence") # None
    BY <2>8 DEF ReviewedEdges
  <2>10. Likely(Said("artifact")) /\ ~ Likely(Said("independence"))
    BY <2>8 DEF SuspectEdges, Agree, Likely
  <2>11. ASSUME NEW side \in {"artifact", "independence"}, Said(side) # None
         PROVE  \E i \in DOMAIN asked :
                  /\ asked[i].ids = e /\ asked[i].side = side
                  /\ answers[i] = Said(side) /\ answers[i] \in 0 .. 100
    <3>1. PICK i \in DOMAIN judged : /\ asked[i].ids = e /\ asked[i].side = side
                                     /\ Said(side) = judged[i].probability
      <4> HIDE DEF judged
      <4> QED BY <2>11, EdgeAnswerIs
    <3>2. i \in DOMAIN asked /\ answers[i] # None /\ judged[i] = Judged(asked[i], answers[i])
      BY DEF Interpreted
    <3>3. asked[i].kind = "false_dependency"
      BY <2>6, <3>1, <3>2 DEF Sided
    <3>4. judged[i].probability = answers[i]
      BY <3>2, <3>3 DEF Judged
    <3>5. answers[i] \in 0 .. 100
      BY <2>7, <3>2, <3>3, ImprovementAssumption
    <3> QED BY <3>1, <3>2, <3>4, <3>5
  <2> HIDE DEF Said
  <2>12. PICK i \in DOMAIN asked : /\ asked[i].ids = e /\ asked[i].side = "artifact"
                                   /\ answers[i] = Said("artifact") /\ answers[i] \in 0 .. 100
    BY <2>9, <2>11
  <2>13. PICK j \in DOMAIN asked : /\ asked[j].ids = e /\ asked[j].side = "independence"
                                   /\ answers[j] = Said("independence") /\ answers[j] \in 0 .. 100
    BY <2>9, <2>11
  <2>14. answers[i] \in 50 .. 100 /\ answers[j] \in 0 .. 49
    <3>1. answers[i] >= 50 /\ ~ (answers[j] >= 50)
      BY <2>10, <2>12, <2>13 DEF Likely, FINDING_MIN_PROBABILITY
    <3>2. answers[i] \in 0 .. 100 /\ answers[j] \in 0 .. 100
      BY <2>12, <2>13
    <3>3. \A a, b \in 0 .. 100 : a >= 50 /\ ~ (b >= 50) => a \in 50 .. 100 /\ b \in 0 .. 49
      OBVIOUS
    <3> QED BY <3>1, <3>2, <3>3
  <2> QED BY <2>12, <2>13, <2>14
<1> QED BY <1>1, CurrentHolds, PTL

-----------------------------------------------------------------------------
(* Reachability. *)

ReachTurn(g, x, n, near) ==
    IF n = 1 THEN Dependents(g, x) ELSE near \cup UNION {Dependents(g, y) : y \in near}

ReachSteps(g, x, within) ==
    within = [n \in 1 .. Len(g) + 1 |-> ReachTurn(g, x, n, within[n - 1])]

(* Reachability is closed in turns. *)
LEMMA ReachUnfolds ==
  ASSUME NEW g, Len(g) \in Nat, NEW x
  PROVE  \E within : ReachSteps(g, x, within) /\ Reach(g, x) = within[Len(g) + 1]
<1> DEFINE Step(n, v) == ReachTurn(g, x, n, v)
           Is(f, k) == f = [n \in 1 .. k |-> Step(n, f[n - 1])]
           G == {k \in Nat : \E f : Is(f, k)}
<1>0. \A v, w : Step(1, v) = Step(1, w)
  BY DEF ReachTurn
<1>1. 0 \in G
  <2>1. Is([n \in 1 .. 0 |-> 0], 0)
    <3> HIDE DEF Step
    <3> QED OBVIOUS
  <2> QED BY <2>1
<1>2. ASSUME NEW k \in Nat, k \in G PROVE k + 1 \in G
  <2> HIDE DEF Step
  <2>1. PICK f : Is(f, k)
    BY <1>2
  <2> DEFINE h == [n \in 1 .. k + 1 |-> IF n = k + 1 THEN Step(n, f[k]) ELSE f[n]]
  <2>2. Is(h, k + 1)
    <3>1. \A n \in 1 .. k + 1 : h[n] = Step(n, h[n - 1])
      <4> SUFFICES ASSUME NEW n \in 1 .. k + 1 PROVE h[n] = Step(n, h[n - 1])
        OBVIOUS
      <4>1. n \in 1 .. k => f[n] = Step(n, f[n - 1])
        <5> HIDE DEF h
        <5> QED BY <2>1
      <4>2. CASE n = 1
        <5>1. h[n] = IF n = k + 1 THEN Step(n, f[k]) ELSE f[n]
          OBVIOUS
        <5>2. n = k + 1 \/ n \in 1 .. k
          OBVIOUS
        <5> HIDE DEF h
        <5> QED BY <4>1, <4>2, <5>1, <5>2, <1>0
      <4>3. CASE n # 1 /\ n # k + 1
        <5>1. h[n] = f[n] /\ h[n - 1] = f[n - 1] /\ n \in 1 .. k
          BY <4>3
        <5> HIDE DEF h
        <5> QED BY <4>1, <5>1
      <4>4. CASE n = k + 1 /\ n # 1
        <5>1. h[n] = Step(n, f[k]) /\ n - 1 = k /\ h[k] = f[k]
          BY <4>4
        <5> HIDE DEF h
        <5> QED BY <5>1
      <4> QED BY <4>2, <4>3, <4>4
    <3>2. h = [n \in 1 .. k + 1 |-> h[n]]
      OBVIOUS
    <3> HIDE DEF h
    <3> QED BY <3>1, <3>2
  <2> HIDE DEF h, Is
  <2> QED BY <2>2
<1>3. PICK f : Is(f, Len(g) + 1)
  <2> HIDE DEF Is
  <2>1. Len(g) + 1 \in G
    <3> HIDE DEF G
    <3> QED BY <1>1, <1>2, Upward
  <2> QED BY <2>1
<1> DEFINE within[n \in 1 .. Len(g) + 1] ==
             IF n = 1 THEN Dependents(g, x)
             ELSE LET near == within[n - 1] IN near \cup UNION {Dependents(g, y) : y \in near}
<1>4. within = [n \in 1 .. Len(g) + 1 |-> ReachTurn(g, x, n, within[n - 1])]
  BY <1>3, Zenon DEF ReachTurn
<1>5. Reach(g, x) = within[Len(g) + 1]
  BY Zenon DEF Reach
<1> HIDE DEF within
<1> QED BY <1>4, <1>5 DEF ReachSteps

(* Its first turn, and each of the others. *)
LEMMA ReachTurns ==
  ASSUME NEW g, Len(g) \in Nat, NEW x, NEW within, ReachSteps(g, x, within)
  PROVE  /\ within[1] = Dependents(g, x)
         /\ \A n \in 1 .. Len(g) : within[n + 1] = within[n] \cup UNION {Dependents(g, y) : y \in within[n]}
<1> DEFINE Step(n, v) == ReachTurn(g, x, n, v)
           N == Len(g)
<1>1. within = [n \in 1 .. N + 1 |-> Step(n, within[n - 1])]
  BY DEF ReachSteps
<1>a. N \in Nat
  OBVIOUS
<1> HIDE DEF Step, N
<1>2. \A n \in 1 .. N + 1 : within[n] = Step(n, within[n - 1])
  BY <1>1
<1>3. within[1] = Step(1, within[1 - 1])
  BY <1>2, <1>a
<1>4. ASSUME NEW n \in 1 .. N
      PROVE  within[n + 1] = within[n] \cup UNION {Dependents(g, y) : y \in within[n]}
  <2>1. n + 1 \in 1 .. N + 1 /\ (n + 1) - 1 = n /\ n + 1 # 1
    BY <1>a
  <2>2. within[n + 1] = Step(n + 1, within[n])
    BY <1>2, <2>1
  <2> QED BY <2>1, <2>2 DEF Step, ReachTurn
<1>5. within[1] = Dependents(g, x)
  BY <1>3 DEF Step, ReachTurn
<1> QED BY <1>4, <1>5 DEF N

(* What waits for x, in any graph, is in every set that is closed under dependents and
   has those of x. *)
LEMMA ReachLeast ==
  ASSUME NEW g, Len(g) \in Nat, NEW x, NEW S,
         Dependents(g, x) \subseteq S, \A y \in S : Dependents(g, y) \subseteq S
  PROVE  Reach(g, x) \subseteq S
<1>1. PICK within : ReachSteps(g, x, within) /\ Reach(g, x) = within[Len(g) + 1]
  BY ReachUnfolds
<1> DEFINE N == Len(g)
           G == {k \in Nat : k <= N => within[k + 1] \subseteq S}
<1>2. /\ within[1] = Dependents(g, x)
      /\ \A n \in 1 .. N : within[n + 1] = within[n] \cup UNION {Dependents(g, y) : y \in within[n]}
  BY <1>1, ReachTurns
<1>a. N \in Nat
  OBVIOUS
<1> HIDE DEF N
<1>3. 0 \in G
  BY <1>2
<1>4. ASSUME NEW k \in Nat, k \in G PROVE k + 1 \in G
  <2> SUFFICES ASSUME k + 1 <= N PROVE within[(k + 1) + 1] \subseteq S
    OBVIOUS
  <2>1. k + 1 \in 1 .. N /\ k <= N
    BY <1>a
  <2>2. within[k + 1] \subseteq S
    BY <1>4, <2>1
  <2> QED BY <1>2, <2>1, <2>2
<1>5. N \in G
  <2> HIDE DEF G
  <2> QED BY <1>a, <1>3, <1>4, Upward
<1> QED BY <1>1, <1>5, <1>a DEF N

(* In a graph whose ids have depths it is closed. *)
LEMMA ReachClosed ==
  ASSUME NEW g, NEW depth, IsGraph(g), UniqueIds(g), KnownPrerequisites(g), Ranks(g, depth), NEW x
  PROVE  /\ Dependents(g, x) \subseteq Reach(g, x) /\ Reach(g, x) \subseteq IdSet(g)
         /\ \A y \in Reach(g, x) : Dependents(g, y) \subseteq Reach(g, x)
<1>0. Len(g) \in Nat
  BY GraphIs
<1>1. PICK within : ReachSteps(g, x, within) /\ Reach(g, x) = within[Len(g) + 1]
  BY <1>0, ReachUnfolds
<1> DEFINE N == Len(g)
           I == IdSet(g)
           Good(k) == /\ Dependents(g, x) \subseteq within[k + 1] /\ within[k + 1] \subseteq I
                      /\ \A y \in within[k + 1] : Dependents(g, y) \subseteq within[k + 1] \/ depth[y] > k
           G == {k \in Nat : k <= N => Good(k)}
<1>2. /\ within[1] = Dependents(g, x)
      /\ \A n \in 1 .. N : within[n + 1] = within[n] \cup UNION {Dependents(g, y) : y \in within[n]}
  BY <1>0, <1>1, ReachTurns
<1>3. \A y \in I : depth[y] \in Nat /\ depth[y] > 0 /\ depth[y] <= N
  BY DEF Ranks
<1>4. \A y : Dependents(g, y) \subseteq I
  BY DependentsAre
<1>5. ASSUME NEW y \in I, NEW z \in Dependents(g, y) PROVE depth[y] < depth[z]
  <2>1. z \in I /\ y \in Prerequisites(Find(g, z))
    BY DependentsAre
  <2> QED BY <2>1 DEF Ranks
<1> HIDE DEF N, I
<1>6. 0 \in G
  <2>1. within[0 + 1] = Dependents(g, x)
    BY <1>2
  <2> QED BY <1>3, <1>4, <2>1
<1>7. ASSUME NEW k \in Nat, k \in G PROVE k + 1 \in G
  <2> SUFFICES ASSUME k + 1 <= N PROVE Good(k + 1)
    OBVIOUS
  <2>1. k + 1 \in 1 .. N /\ k <= N
    BY <1>0 DEF N
  <2>2. Good(k)
    BY <1>7, <2>1
  <2> DEFINE V == within[k + 1]
             W == within[(k + 1) + 1]
  <2>3. W = V \cup UNION {Dependents(g, y) : y \in V}
    BY <1>2, <2>1
  <2> HIDE DEF V, W
  <2>4. /\ Dependents(g, x) \subseteq V /\ V \subseteq I
        /\ \A y \in V : Dependents(g, y) \subseteq V \/ depth[y] > k
    BY <2>2 DEF V
  <2>5. Dependents(g, x) \subseteq W /\ W \subseteq I
    BY <1>4, <2>3, <2>4
  <2>6. ASSUME NEW z \in W PROVE Dependents(g, z) \subseteq W \/ depth[z] > k + 1
    <3>1. CASE z \in V
      BY <2>3, <3>1
    <3>2. CASE z \notin V
      <4>1. PICK y \in V : z \in Dependents(g, y)
        BY <2>3, <3>2
      <4>2. depth[y] > k /\ depth[y] < depth[z] /\ depth[y] \in Nat /\ depth[z] \in Nat
        BY <1>3, <1>5, <2>4, <2>5, <3>2, <4>1
      <4> QED BY <4>2
    <3> QED BY <3>1, <3>2
  <2> QED BY <2>5, <2>6 DEF W
<1>8. N \in G
  <2> HIDE DEF G
  <2> QED BY <1>0, <1>6, <1>7, Upward DEF N
<1>9. Good(N)
  BY <1>0, <1>8 DEF N
<1>10. \A y \in I : ~ (depth[y] > N)
  BY <1>0, <1>3 DEF N
<1> QED BY <1>1, <1>9, <1>10 DEF N, I

(* Graphs with the same dependents have the same reach. *)
LEMMA ReachSame ==
  ASSUME NEW g, NEW h, Len(g) \in Nat, Len(h) = Len(g), \A y : Dependents(h, y) = Dependents(g, y),
         NEW x
  PROVE  Reach(h, x) = Reach(g, x)
<1>1. PICK within : ReachSteps(g, x, within) /\ Reach(g, x) = within[Len(g) + 1]
  BY ReachUnfolds
<1>2. PICK other : ReachSteps(h, x, other) /\ Reach(h, x) = other[Len(g) + 1]
  BY ReachUnfolds
<1> DEFINE N == Len(g)
           G == {k \in Nat : k <= N => within[k + 1] = other[k + 1]}
<1>3. /\ within[1] = Dependents(g, x)
      /\ \A n \in 1 .. N : within[n + 1] = within[n] \cup UNION {Dependents(g, y) : y \in within[n]}
  BY <1>1, ReachTurns
<1>4. /\ other[1] = Dependents(h, x)
      /\ \A n \in 1 .. Len(h) : other[n + 1] = other[n] \cup UNION {Dependents(h, y) : y \in other[n]}
  BY <1>2, ReachTurns
<1>5. /\ other[1] = Dependents(g, x)
      /\ \A n \in 1 .. N : other[n + 1] = other[n] \cup UNION {Dependents(g, y) : y \in other[n]}
  <2>1. \A V : UNION {Dependents(h, y) : y \in V} = UNION {Dependents(g, y) : y \in V}
    <3> SUFFICES ASSUME NEW V
                 PROVE  UNION {Dependents(h, y) : y \in V} = UNION {Dependents(g, y) : y \in V}
      OBVIOUS
    <3>1. {Dependents(h, y) : y \in V} = {Dependents(g, y) : y \in V}
      OBVIOUS
    <3> QED BY <3>1, Zenon
  <2>2. \A n \in 1 .. N : UNION {Dependents(h, y) : y \in other[n]} = UNION {Dependents(g, y) : y \in other[n]}
    BY <2>1, Zenon
  <2> QED BY <1>4, <2>2, Zenon
<1>a. N \in Nat
  OBVIOUS
<1> HIDE DEF N
<1>6. 0 \in G
  BY <1>3, <1>5
<1>7. ASSUME NEW k \in Nat, k \in G PROVE k + 1 \in G
  <2> SUFFICES ASSUME k + 1 <= N PROVE within[(k + 1) + 1] = other[(k + 1) + 1]
    OBVIOUS
  <2>1. k + 1 \in 1 .. N /\ k <= N
    BY <1>a
  <2>2. within[k + 1] = other[k + 1]
    BY <1>7, <2>1
  <2> QED BY <1>3, <1>5, <2>1, <2>2
<1>8. N \in G
  <2> HIDE DEF G
  <2> QED BY <1>a, <1>6, <1>7, Upward
<1> QED BY <1>1, <1>2, <1>8, <1>a DEF N

-----------------------------------------------------------------------------
(* An edge that is removed. *)

(* The graph without the edge from p to y. *)
Unlinked(g, y, p) == Update(g, y, "pre", Without(Find(g, y).pre, p))

(* The rest of the graph stays as it is, and can still be scheduled. *)
LEMMA EdgeRemoved ==
  ASSUME NEW g, NEW depth, Plannable(g, depth), NEW y \in IdSet(g),
         NEW p \in Prerequisites(Find(g, y))
  PROVE  LET h == Unlinked(g, y, p)
         IN  /\ Plannable(h, depth) /\ Len(h) = Len(g) /\ IdSet(h) = IdSet(g)
             /\ \A x \in IdSet(g) : x # y => Find(h, x) = Find(g, x)
             /\ Prerequisites(Find(h, y)) = Prerequisites(Find(g, y)) \ {p}
             /\ \A r \in Prerequisites(Find(h, y)) : Find(h, y).pre[r] = Find(g, y).pre[r]
             /\ ScheduledLength(Find(h, y)) = ScheduledLength(Find(g, y))
<1> DEFINE h == Unlinked(g, y, p)
           d == Find(g, y)
           new == Without(d.pre, p)
           c == Put(d, "pre", new)
           I == IdSet(g)
<1>h. h = Update(g, y, "pre", new)
  BY DEF Unlinked
<1> HIDE DEF h
<1>1. /\ IsGraph(g) /\ Len(g) <= MAX_DELIVERABLES /\ {START, FINISH} \cap I = {}
      /\ UniqueIds(g) /\ KnownPrerequisites(g) /\ Ranks(g, depth)
      /\ \A i \in DOMAIN g : ~ ValueProblem(g[i])
  BY DEF Plannable
<1>2. PICK k \in DOMAIN g : g[k].id = y /\ d = g[k]
  BY <1>1, FindIs
<1>3. IsDeliverable(d) /\ ~ ValueProblem(d) /\ Prerequisites(d) \subseteq I
  BY <1>1, <1>2, KnownIds DEF IsGraph
<1>4. DOMAIN new = Prerequisites(d) \ {p} /\ \A r \in DOMAIN new : new[r] = d.pre[r]
  BY DEF Without, Prerequisites
<1>5. DOMAIN new \subseteq Int /\ IsFiniteSet(DOMAIN new)
  <2>1. Prerequisites(d) \subseteq Int /\ IsFiniteSet(Prerequisites(d))
    BY <1>3 DEF IsDeliverable
  <2>2. DOMAIN new \subseteq Prerequisites(d)
    BY <1>4
  <2> HIDE DEF new, d
  <2> QED BY <2>1, <2>2, FS_Subset
<1>6. /\ Len(h) = Len(g) /\ DOMAIN h = DOMAIN g /\ IdSet(h) = IdSet(g)
      /\ \A i \in DOMAIN g : /\ h[i].id = g[i].id
                             /\ g[i].id = y => h[i] = Put(g[i], "pre", new)
                             /\ g[i].id # y => h[i] = g[i]
      /\ \A x \in IdSet(g) : /\ x = y => Find(h, x) = Put(Find(g, x), "pre", new)
                             /\ x # y => Find(h, x) = Find(g, x)
  <2>1. h = Update(g, y, "pre", new) /\ "pre" \notin {"id"}
    BY <1>h
  <2>2. IsGraph(g)
    BY <1>1
  <2> DEFINE u == Update(g, y, "pre", new)
  <2> HIDE DEF new
  <2>3. "pre" # "id"
    OBVIOUS
  <2>4. /\ Len(u) = Len(g) /\ DOMAIN u = DOMAIN g /\ IdSet(u) = IdSet(g)
        /\ \A i \in DOMAIN g : u[i].id = g[i].id
    BY <2>2, <2>3, UpdateShape
  <2>5. \A i \in DOMAIN g : (g[i].id = y => u[i] = Put(g[i], "pre", new)) /\ (g[i].id # y => u[i] = g[i])
    BY <2>2, UpdateAt
  <2>6. \A x \in IdSet(g) : (x = y => Find(u, x) = Put(Find(g, x), "pre", new)) /\ (x # y => Find(u, x) = Find(g, x))
    BY <2>2, <2>3, UpdateFinds
  <2>7. h = u
    BY <2>1
  <2> HIDE DEF u
  <2> QED BY <2>4, <2>5, <2>6, <2>7
<1>7. Find(h, y) = c
  BY <1>6
<1>8. /\ IsDeliverable(c) /\ c.id = y /\ c.pre = new /\ c.duration = d.duration
      /\ c.effort = d.effort /\ c.estimate = d.estimate /\ c.milestone = d.milestone
  <2>1. IsDeliverable(c) /\ c.id = d.id /\ c.pre = new
    <3> HIDE DEF new, d
    <3> QED BY <1>3, <1>5, PreChanged DEF Put
  <2>2. /\ c.duration = d.duration
        /\ c.effort = d.effort /\ c.estimate = d.estimate /\ c.milestone = d.milestone
    <3> HIDE DEF new, d
    <3> QED BY <1>3 DEF IsDeliverable, Put
  <2> QED BY <1>2, <2>1, <2>2
<1>9. /\ Prerequisites(c) = Prerequisites(d) \ {p}
      /\ \A r \in Prerequisites(c) : c.pre[r] = d.pre[r]
  <2> HIDE DEF c, new
  <2> QED BY <1>4, <1>8 DEF Prerequisites
<1>10. ~ ValueProblem(c) /\ ScheduledLength(c) = ScheduledLength(d)
  <2> HIDE DEF c, new, d
  <2>1. ~ ValueProblem(c)
    BY <1>3, <1>8, <1>9 DEF ValueProblem
  <2> QED BY <2>1, <1>8 DEF ScheduledLength
<1>11. \A i \in DOMAIN g : g[i].id = y => i = k
  BY <1>1, <1>2, FindIs
<1>12. \A i \in DOMAIN g : h[i] = IF i = k THEN c ELSE g[i]
  <2> HIDE DEF new
  <2> QED BY <1>2, <1>6, <1>11
<1> HIDE DEF c, d, new
<1>13. IsGraph(h)
  <2>1. h = [i \in 1 .. Len(g) |-> h[i]]
    <3>1. DOMAIN g = 1 .. Len(g)
      BY <1>1, GraphIs
    <3> QED BY <1>h, <3>1 DEF Update
  <2>2. \A i \in DOMAIN g : IsDeliverable(h[i])
    BY <1>1, <1>8, <1>12 DEF IsGraph
  <2>3. Len(g) \in Nat
    BY <1>1, GraphIs
  <2> QED BY <1>6, <2>1, <2>2, <2>3 DEF IsGraph
<1>14. UniqueIds(h)
  BY <1>1, <1>6 DEF UniqueIds
<1>15. KnownPrerequisites(h) /\ \A i \in DOMAIN h : ~ ValueProblem(h[i])
  BY <1>1, <1>3, <1>6, <1>9, <1>10, <1>12 DEF KnownPrerequisites
<1>16. Ranks(h, depth)
  <2>1. \A x \in I : \A r \in Prerequisites(Find(h, x)) : r \in Prerequisites(Find(g, x))
    BY <1>6, <1>7, <1>9 DEF d
  <2> QED BY <1>1, <1>6, <2>1 DEF Ranks
<1>17. Plannable(h, depth)
  BY <1>1, <1>6, <1>13, <1>14, <1>15, <1>16 DEF Plannable
<1> QED BY <1>6, <1>7, <1>9, <1>10, <1>17 DEF d, h

(* An edge that another prerequisite makes redundant. *)
Redundant(g, y, p) == Reach(g, p) \cap Prerequisites(Find(g, y)) # {}

(* Without a redundant edge, everything waits for what it waited for. *)
LEMMA RedundantRemoved ==
  ASSUME NEW g, NEW depth, Plannable(g, depth), NEW y \in IdSet(g),
         NEW p \in Prerequisites(Find(g, y)), Redundant(g, y, p)
  PROVE  /\ \A x : Reach(Unlinked(g, y, p), x) = Reach(g, x)
         /\ Sinks(Unlinked(g, y, p)) = Sinks(g)
         /\ p \notin Reach(g, p)
<1> DEFINE h == Unlinked(g, y, p)
           I == IdSet(g)
           Pre(x) == Prerequisites(Find(g, x))
           D(x) == Dependents(g, x)
           E(x) == Dependents(h, x)
<1>1. /\ IsGraph(g) /\ UniqueIds(g) /\ KnownPrerequisites(g) /\ Ranks(g, depth)
      /\ Len(g) \in Nat
  BY GraphIs DEF Plannable
<1>2. /\ Plannable(h, depth) /\ Len(h) = Len(g) /\ IdSet(h) = I
      /\ \A x \in I : x # y => Find(h, x) = Find(g, x)
      /\ Prerequisites(Find(h, y)) = Pre(y) \ {p}
  BY EdgeRemoved
<1> HIDE DEF h
<1>3. IsGraph(h) /\ UniqueIds(h) /\ KnownPrerequisites(h) /\ Ranks(h, depth)
  BY <1>2 DEF Plannable
<1>4. \A x : D(x) = {z \in I : x \in Pre(z)}
  BY <1>1, DependentsAre
<1>5. \A x : E(x) = {z \in I : x \in Prerequisites(Find(h, z))}
  BY <1>2, <1>3, DependentsAre
<1>6. \A x : (x # p => E(x) = D(x)) /\ E(x) \subseteq D(x)
  <2>1. \A x : \A z \in I : x \in Prerequisites(Find(h, z)) => x \in Pre(z)
    BY <1>2
  <2>2. \A x : \A z \in I : x # p /\ x \in Pre(z) => x \in Prerequisites(Find(h, z))
    BY <1>2
  <2> HIDE DEF I, Pre, D, E
  <2> QED BY <1>4, <1>5, <2>1, <2>2
<1>7. D(p) = E(p) \cup {y}
  BY <1>2, <1>4, <1>5
<1>8. \A x \in I : depth[x] \in Nat
  BY <1>1 DEF Ranks
<1>9. ASSUME NEW x \in I, NEW z \in D(x) PROVE z \in I /\ depth[x] < depth[z]
  BY <1>1, <1>4 DEF Ranks
<1>10. /\ \A x : D(x) \subseteq Reach(g, x) /\ Reach(g, x) \subseteq I
                /\ \A z \in Reach(g, x) : D(z) \subseteq Reach(g, x)
       /\ \A x : E(x) \subseteq Reach(h, x) /\ Reach(h, x) \subseteq I
                /\ \A z \in Reach(h, x) : E(z) \subseteq Reach(h, x)
  <2>1. ASSUME NEW x
        PROVE  /\ D(x) \subseteq Reach(g, x) /\ Reach(g, x) \subseteq I
               /\ \A z \in Reach(g, x) : D(z) \subseteq Reach(g, x)
    BY <1>1, ReachClosed
  <2>2. ASSUME NEW x
        PROVE  /\ E(x) \subseteq Reach(h, x) /\ Reach(h, x) \subseteq I
               /\ \A z \in Reach(h, x) : E(z) \subseteq Reach(h, x)
    BY <1>2, <1>3, ReachClosed
  <2> QED BY <2>1, <2>2
<1>11. p \in I
  BY <1>1, KnownIds
<1> HIDE DEF D, E, I, Pre
<1>12. ASSUME NEW z \in Reach(g, p) PROVE depth[p] < depth[z]
  <2> DEFINE S == {x \in I : depth[p] < depth[x]}
  <2>1. D(p) \subseteq S
    BY <1>9, <1>11
  <2>2. ASSUME NEW x \in S PROVE D(x) \subseteq S
    <3> SUFFICES ASSUME NEW w \in D(x) PROVE w \in S
      OBVIOUS
    <3>1. w \in I /\ depth[x] < depth[w] /\ x \in I /\ depth[p] < depth[x]
      BY <1>9
    <3> QED BY <1>8, <1>11, <3>1
  <2> HIDE DEF S
  <2>3. Reach(g, p) \subseteq S
    BY <1>1, <2>1, <2>2, ReachLeast DEF D
  <2> QED BY <2>3 DEF S
<1>13. PICK q \in Reach(g, p) : q \in Pre(y)
  BY DEF Redundant, Pre
<1>14. q \in I /\ q # p /\ depth[q] < depth[y] /\ y \in I
  <2>1. q \in I /\ depth[p] < depth[q]
    BY <1>10, <1>12, <1>13
  <2>2. y \in D(q)
    BY <1>4, <1>13 DEF I
  <2> QED BY <1>8, <1>9, <1>11, <2>1, <2>2
<1>15. q \in Reach(h, p)
  <2> DEFINE S == Reach(h, p) \cup {x \in I : depth[x] >= depth[y]}
  <2>1. D(p) \subseteq S
    BY <1>7, <1>8, <1>10, <1>14
  <2>2. ASSUME NEW x \in S PROVE D(x) \subseteq S
    <3>1. CASE x = p
      BY <2>1, <3>1
    <3>2. CASE x # p /\ x \in Reach(h, p)
      BY <1>6, <1>10, <3>2
    <3>3. CASE x \in I /\ depth[x] >= depth[y]
      <4> SUFFICES ASSUME NEW w \in D(x) PROVE w \in S
        OBVIOUS
      <4>1. w \in I /\ depth[x] < depth[w]
        BY <1>9, <3>3
      <4> QED BY <1>8, <1>14, <3>3, <4>1
    <3> QED BY <3>1, <3>2, <3>3
  <2> HIDE DEF S
  <2>3. Reach(g, p) \subseteq S
    BY <1>1, <2>1, <2>2, ReachLeast DEF D
  <2>4. ~ (depth[q] >= depth[y])
    BY <1>8, <1>14
  <2> QED BY <1>13, <2>3, <2>4 DEF S
<1>16. y \in Reach(h, p)
  <2>1. y \in E(q)
    BY <1>4, <1>6, <1>13, <1>14
  <2> QED BY <1>10, <1>15, <2>1
<1>17. ASSUME NEW x PROVE Reach(h, x) \subseteq Reach(g, x)
  <2> DEFINE S == Reach(g, x)
  <2>1. E(x) \subseteq S /\ \A z \in S : E(z) \subseteq S
    BY <1>6, <1>10
  <2> HIDE DEF S
  <2>2. Reach(h, x) \subseteq S
    BY <1>1, <1>2, <2>1, ReachLeast DEF E
  <2> QED BY <2>2 DEF S
<1>18. ASSUME NEW x PROVE Reach(g, x) \subseteq Reach(h, x)
  <2> DEFINE S == Reach(h, x)
  <2>1. ASSUME p \in S \/ x = p PROVE y \in S
    <3>1. CASE p \in S
      <4>1. E(p) \subseteq S /\ \A z \in S : E(z) \subseteq S
        BY <1>10, <3>1
      <4> HIDE DEF S
      <4>2. Reach(h, p) \subseteq S
        BY <1>1, <1>2, <4>1, ReachLeast DEF E
      <4> QED BY <1>16, <4>2
    <3>2. CASE x = p
      BY <1>16, <3>2
    <3> QED BY <2>1, <3>1, <3>2
  <2>2. D(x) \subseteq S
    BY <1>6, <1>7, <1>10, <2>1
  <2>3. ASSUME NEW z \in S PROVE D(z) \subseteq S
    BY <1>6, <1>7, <1>10, <2>1
  <2> HIDE DEF S
  <2>4. Reach(g, x) \subseteq S
    BY <1>1, <2>2, <2>3, ReachLeast DEF D
  <2> QED BY <2>4 DEF S
<1>19. E(p) # {}
  <2> SUFFICES ASSUME E(p) = {} PROVE FALSE
    OBVIOUS
  <2> DEFINE S == {}
  <2>1. E(p) \subseteq S /\ \A z \in S : E(z) \subseteq S
    OBVIOUS
  <2> HIDE DEF S
  <2>2. Reach(h, p) \subseteq S
    BY <1>1, <1>2, <2>1, ReachLeast DEF E
  <2> QED BY <1>16, <2>2 DEF S
<1>20. D(p) # {}
  BY <1>7
<1>21. Sinks(h) = Sinks(g)
  <2>1. \A x \in I : E(x) = {} <=> D(x) = {}
    BY <1>6, <1>19, <1>20
  <2> QED BY <1>2, <2>1 DEF Sinks, E, D, I
<1>22. p \notin Reach(g, p)
  BY <1>8, <1>11, <1>12
<1> QED BY <1>17, <1>18, <1>21, <1>22 DEF h

-----------------------------------------------------------------------------
(* The schedule without a redundant edge *)

(* The lag of one edge. *)
LEMMA TaskLag ==
  ASSUME NEW g, IsGraph(g), {START, FINISH} \cap IdSet(g) = {},
         NEW x \in IdSet(g) \cup {START, FINISH}, NEW p \in Tasks(g).deps[x]
  PROVE  /\ {x, p} \cap {START, FINISH} # {} => Tasks(g).lag[x][p] = 0
         /\ {x, p} \cap {START, FINISH} = {} => Tasks(g).lag[x][p] = Find(g, x).pre[p].lag
<1> DEFINE v == IF {x, p} \cap {START, FINISH} # {} THEN 0 ELSE Find(g, x).pre[p].lag
<1>1. Tasks(g).lag[x][p] = v
  BY TaskFields, Zenon
<1>2. {x, p} \cap {START, FINISH} # {} => v = 0
  BY Zenon
<1>3. {x, p} \cap {START, FINISH} = {} => v = Find(g, x).pre[p].lag
  BY Zenon
<1> HIDE DEF v
<1> QED BY <1>1, <1>2, <1>3, Zenon

(* u is t without the dependency of y on p. *)
Replaces(t, u, y, p) ==
    /\ Members(u) = Members(t)
    /\ u.deps[y] = t.deps[y] \ {p}
    /\ \A x \in Members(t) : x # y => u.deps[x] = t.deps[x]
    /\ \A x \in Members(t) : u.len[x] = t.len[x]
    /\ \A x \in Members(t) : \A r \in u.deps[x] : u.lag[x][r] = t.lag[x][r]

(* A dependency that another one makes up for: without it nothing starts earlier. *)
LEMMA SameLongest ==
  ASSUME NEW t, NEW u, NEW rank, Sound(t, rank), Sound(u, rank),
         NEW y \in Members(t), NEW p \in t.deps[y], NEW q \in t.deps[y], q # p,
         LongestBefore(t)[p] + t.len[p] + t.lag[y][p] <= LongestBefore(t)[q],
         Replaces(t, u, y, p)
  PROVE  \A x \in Members(t) : LongestBefore(u)[x] = LongestBefore(t)[x]
<1> DEFINE M == Members(t)
           B == LongestBefore(t)
           C == LongestBefore(u)
           W == {x \in M : C[x] = B[x]}
<1>0. /\ Members(u) = M /\ u.deps[y] = t.deps[y] \ {p}
      /\ \A x \in M : x # y => u.deps[x] = t.deps[x]
      /\ \A x \in M : u.len[x] = t.len[x]
      /\ \A x \in M : \A r \in u.deps[x] : u.lag[x][r] = t.lag[x][r]
  BY DEF Replaces
<1>1. \A x \in M : B[x] \in Nat /\ B[x] = Latest(Through(t, B, x))
  BY BeforeIs
<1>2. \A x \in M : C[x] = Latest(Through(u, C, x))
  BY <1>0, BeforeIs
<1>3. \A x \in M : \A r \in t.deps[x] : r \in M /\ rank[r] < rank[x]
  BY DEF Sound
<1>4. \A x \in M : u.deps[x] \subseteq t.deps[x]
  BY <1>0
<1> HIDE DEF B, C
<1>5. ASSUME NEW x \in M, \A z \in M : rank[z] < rank[x] => z \in W
      PROVE  x \in W
  <2>1. \A r \in u.deps[x] : r \in M /\ C[r] = B[r] /\ u.len[r] = t.len[r] /\ u.lag[x][r] = t.lag[x][r]
    BY <1>0, <1>3, <1>4, <1>5
  <2>2. Through(u, C, x) = {B[r] + t.len[r] + t.lag[x][r] : r \in u.deps[x]}
    BY <2>1 DEF Through
  <2>3. CASE x # y
    <3>1. Through(u, C, x) = Through(t, B, x)
      BY <1>0, <2>2, <2>3 DEF Through
    <3> QED BY <1>1, <1>2, <3>1
  <2>4. CASE x = y
    <3> DEFINE S == Through(u, C, y)
               T == Through(t, B, y)
               v == B[p] + t.len[p] + t.lag[y][p]
               w == B[q] + t.len[q] + t.lag[y][q]
    <3>1. T = S \cup {v}
      <4>1. \A h : h \in S <=> \E r \in u.deps[y] : h = B[r] + t.len[r] + t.lag[y][r]
        BY <2>2, <2>4
      <4>2. \A h : h \in T <=> \E r \in t.deps[y] : h = B[r] + t.len[r] + t.lag[y][r]
        BY DEF Through
      <4>3. \A r : r \in t.deps[y] <=> r \in u.deps[y] \/ r = p
        BY <1>0
      <4> HIDE DEF S, T
      <4>4. \A h \in T : h \in S \cup {v}
        BY <4>1, <4>2, <4>3
      <4>5. S \subseteq T
        BY <4>1, <4>2, <4>3
      <4>6. v \in T
        BY <4>2
      <4> QED BY <4>4, <4>5, <4>6
    <3>2. w \in S /\ v <= w /\ v \in Nat /\ w \in Nat
      <4>1. p \in M /\ q \in M /\ q \in u.deps[y]
        BY <1>0, <1>3
      <4>2. w \in S
        BY <2>2, <2>4, <4>1
      <4>3. /\ B[p] \in Nat /\ B[q] \in Nat /\ t.len[p] \in Nat /\ t.len[q] \in Nat
            /\ t.lag[y][p] \in Nat /\ t.lag[y][q] \in Nat
        BY <1>1, <4>1 DEF Sound
      <4>4. v <= B[q]
        BY DEF B
      <4> QED BY <4>2, <4>3, <4>4
    <3>3. IsFiniteSet(S) /\ S \subseteq Nat
      <4>1. \A r \in t.deps[y] : B[r] \in Nat
        BY <1>1, <1>3
      <4>2. IsFiniteSet(T) /\ T \subseteq Nat
        BY <4>1, ThroughFinite
      <4>3. S \subseteq T
        BY <3>1
      <4> HIDE DEF S, T
      <4> QED BY <4>2, <4>3, FS_Subset
    <3> HIDE DEF S, T, v, w
    <3>4. ~ (v > Latest(S))
      <4>1. w <= Latest(S) /\ Latest(S) \in Nat
        BY <3>2, <3>3, LatestIs
      <4> QED BY <3>2, <4>1
    <3>5. Latest(S \cup {v}) = IF v > Latest(S) THEN v ELSE Latest(S)
      BY <3>2, <3>3, LatestWith
    <3>6. Latest(T) = Latest(S)
      BY <3>1, <3>4, <3>5
    <3>7. B[y] = Latest(T) /\ C[y] = Latest(S)
      BY <1>1, <1>2 DEF S, T
    <3> QED BY <2>4, <3>6, <3>7
  <2> QED BY <2>3, <2>4
<1>6. rank \in [M -> Nat]
  BY DEF Sound
<1>7. M \subseteq W
  <2> HIDE DEF M, W
  <2> QED BY <1>5, <1>6, Upwards
<1> QED BY <1>7 DEF B, C

(* What waits for p starts no earlier than p is done. *)
LEMMA ReachIsLater ==
  ASSUME NEW g, NEW depth, Plannable(g, depth), NEW p \in IdSet(g), NEW q \in Reach(g, p)
  PROVE  LongestBefore(Tasks(g))[p] + Tasks(g).len[p] <= LongestBefore(Tasks(g))[q]
<1> DEFINE t == Tasks(g)
           I == IdSet(g)
           M == Members(t)
           B == LongestBefore(t)
           rank == TaskRank(g, depth)
           D(x) == Dependents(g, x)
           S == {z \in I : B[p] + t.len[p] <= B[z]}
<1>1. IsGraph(g) /\ UniqueIds(g) /\ Len(g) \in Nat /\ {START, FINISH} \cap I = {}
  BY GraphIs DEF Plannable
<1>2. Sound(t, rank) /\ M = I \cup {START, FINISH}
  BY <1>1, ScheduleIs, TasksAre
<1>3. \A x \in M : B[x] \in Nat
  BY <1>2, BeforeIs
<1>4. \A x \in M : t.len[x] \in Nat /\ \A r \in t.deps[x] : t.lag[x][r] \in Nat
  BY <1>2 DEF Sound
<1>5. \A x : D(x) = {z \in I : x \in Prerequisites(Find(g, z))}
  BY <1>1, DependentsAre
<1>6. ASSUME NEW x \in I, NEW z \in D(x)
      PROVE  z \in I /\ x \in t.deps[z]
  <2>1. z \in I /\ x \in Prerequisites(Find(g, z))
    BY <1>5
  <2>2. t.deps[z] = IF Prerequisites(Find(g, z)) = {} THEN {START} ELSE Prerequisites(Find(g, z))
    BY <1>1, <2>1, TaskFields
  <2> QED BY <2>1, <2>2
<1>7. ASSUME NEW x \in I, NEW z \in D(x)
      PROVE  z \in I /\ B[x] + t.len[x] <= B[z] /\ B[x] <= B[z]
  <2>1. z \in I /\ x \in t.deps[z] /\ z \in M /\ x \in M
    BY <1>2, <1>6
  <2>2. B[x] + t.len[x] + t.lag[z][x] <= B[z]
    BY <1>2, <2>1, BeforeEdge
  <2>3. B[x] \in Nat /\ B[z] \in Nat /\ t.len[x] \in Nat /\ t.lag[z][x] \in Nat
    BY <1>3, <1>4, <2>1
  <2> HIDE DEF t, B
  <2> QED BY <2>1, <2>2, <2>3
<1> HIDE DEF t, B, M, D
<1>8. D(p) \subseteq S
  BY <1>7
<1>9. ASSUME NEW x \in S PROVE D(x) \subseteq S
  <2> SUFFICES ASSUME NEW z \in D(x) PROVE z \in S
    OBVIOUS
  <2>1. x \in I /\ z \in I /\ B[x] <= B[z] /\ B[p] + t.len[p] <= B[x]
    BY <1>7
  <2>2. p \in M /\ x \in M /\ z \in M
    BY <1>2, <2>1
  <2>3. B[p] \in Nat /\ B[x] \in Nat /\ B[z] \in Nat /\ t.len[p] \in Nat
    BY <1>3, <1>4, <2>2
  <2> QED BY <2>1, <2>3
<1> HIDE DEF S
<1>10. Reach(g, p) \subseteq S
  BY <1>1, <1>8, <1>9, ReachLeast DEF D
<1> QED BY <1>10 DEF S, B, t

(* Without a redundant edge that has no lag the schedule is the same. *)
LEMMA RedundantSchedule ==
  ASSUME NEW g, NEW depth, Plannable(g, depth), NEW y \in IdSet(g),
         NEW p \in Prerequisites(Find(g, y)), Redundant(g, y, p),
         Find(g, y).pre[p].lag = 0
  PROVE  ComputeCpm(Unlinked(g, y, p)).es = ComputeCpm(g).es
<1> DEFINE h == Unlinked(g, y, p)
           I == IdSet(g)
           t == Tasks(g)
           u == Tasks(h)
           rank == TaskRank(g, depth)
           M == Members(t)
           Pre(x) == Prerequisites(Find(g, x))
<1>1. /\ IsGraph(g) /\ UniqueIds(g) /\ KnownPrerequisites(g)
      /\ {START, FINISH} \cap I = {} /\ Len(g) \in Nat
  BY GraphIs DEF Plannable
<1>2. /\ Plannable(h, depth) /\ Len(h) = Len(g) /\ IdSet(h) = I
      /\ \A x \in I : x # y => Find(h, x) = Find(g, x)
      /\ Prerequisites(Find(h, y)) = Pre(y) \ {p}
      /\ \A r \in Prerequisites(Find(h, y)) : Find(h, y).pre[r] = Find(g, y).pre[r]
      /\ ScheduledLength(Find(h, y)) = ScheduledLength(Find(g, y))
  BY EdgeRemoved
<1>3. Sinks(h) = Sinks(g) /\ p \notin Reach(g, p)
  BY RedundantRemoved
<1> HIDE DEF h
<1>4. TaskRank(h, depth) = rank
  BY <1>2 DEF TaskRank
<1>5. /\ Sound(t, rank) /\ Bounded(t) /\ InRange(t) /\ ComputeCpm(g) = Calculate(t)
  BY ScheduleIs
<1>6. /\ Sound(u, rank) /\ Bounded(u) /\ InRange(u) /\ ComputeCpm(h) = Calculate(u)
  BY <1>2, <1>4, ScheduleIs
<1>7. M = I \cup {START, FINISH} /\ Members(u) = M
  <2>1. IsGraph(h)
    BY <1>2 DEF Plannable
  <2> QED BY <1>1, <1>2, <2>1, TasksAre
<1>8. PICK q \in Reach(g, p) : q \in Pre(y)
  BY DEF Redundant
<1>9. q # p /\ q \in I /\ p \in I
  BY <1>1, <1>3, <1>8, KnownIds
<1>10. IsGraph(h) /\ {START, FINISH} \cap IdSet(h) = {}
  BY <1>2 DEF Plannable
<1>11. /\ t.deps[START] = {} /\ t.deps[FINISH] = (IF Sinks(g) = {} THEN {START} ELSE Sinks(g))
       /\ u.deps[START] = {} /\ u.deps[FINISH] = (IF Sinks(g) = {} THEN {START} ELSE Sinks(g))
  <2>1. t.deps[START] = {} /\ t.deps[FINISH] = (IF Sinks(g) = {} THEN {START} ELSE Sinks(g))
    BY <1>1, TaskFields
  <2>2. u.deps[START] = {} /\ u.deps[FINISH] = (IF Sinks(h) = {} THEN {START} ELSE Sinks(h))
    BY <1>10, TaskFields
  <2> HIDE DEF t, u
  <2> QED BY <1>3, <2>1, <2>2
<1>12. \A x \in I : t.deps[x] = IF Pre(x) = {} THEN {START} ELSE Pre(x)
  BY <1>1, TaskFields
<1>13. \A x \in I : u.deps[x] = IF Prerequisites(Find(h, x)) = {} THEN {START} ELSE Prerequisites(Find(h, x))
  BY <1>2, <1>10, TaskFields
<1>14. t.deps[y] = Pre(y) /\ u.deps[y] = Pre(y) \ {p}
  <2> HIDE DEF t, u
  <2> QED BY <1>2, <1>8, <1>9, <1>12, <1>13
<1>15. \A x \in M : x # y => u.deps[x] = t.deps[x]
  <2> HIDE DEF t, u, M
  <2> QED BY <1>2, <1>7, <1>11, <1>12, <1>13
<1>16. \A x \in M : u.len[x] = t.len[x]
  <2> DEFINE Long(k) == [x \in I \cup {START, FINISH} |->
                           IF x \in {START, FINISH} THEN 0 ELSE ScheduledLength(Find(k, x))]
  <2>1. t.len = Long(g)
    BY <1>1, TaskFields
  <2>2. u.len = [x \in IdSet(h) \cup {START, FINISH} |->
                   IF x \in {START, FINISH} THEN 0 ELSE ScheduledLength(Find(h, x))]
    BY <1>10, TaskFields
  <2>3. u.len = Long(h)
    BY <1>2, <2>2
  <2>4. \A x \in I : ScheduledLength(Find(h, x)) = ScheduledLength(Find(g, x))
    BY <1>2
  <2> HIDE DEF t, u, M
  <2> QED BY <1>7, <2>1, <2>3, <2>4
<1>17. \A x \in M : \A r \in u.deps[x] : u.lag[x][r] = t.lag[x][r]
  <2> SUFFICES ASSUME NEW x \in M, NEW r \in u.deps[x] PROVE u.lag[x][r] = t.lag[x][r]
    OBVIOUS
  <2>1. r \in t.deps[x]
    <3> HIDE DEF t, u, M
    <3> QED BY <1>14, <1>15
  <2>2. /\ {x, r} \cap {START, FINISH} # {} => t.lag[x][r] = 0
        /\ {x, r} \cap {START, FINISH} = {} => t.lag[x][r] = Find(g, x).pre[r].lag
    BY <1>1, <1>7, <2>1, TaskLag
  <2>3. /\ {x, r} \cap {START, FINISH} # {} => u.lag[x][r] = 0
        /\ {x, r} \cap {START, FINISH} = {} => u.lag[x][r] = Find(h, x).pre[r].lag
    BY <1>2, <1>7, <1>10, TaskLag
  <2>4. {x, r} \cap {START, FINISH} = {} => Find(h, x).pre[r].lag = Find(g, x).pre[r].lag
    <3>1. CASE x = y
      <4>1. r \in Prerequisites(Find(h, y))
        BY <1>2, <1>14, <3>1
      <4> QED BY <1>2, <3>1, <4>1
    <3>2. CASE x # y
      BY <1>2, <1>7, <3>2
    <3> QED BY <3>1, <3>2
  <2> HIDE DEF t, u
  <2> QED BY <2>2, <2>3, <2>4
<1>18. t.lag[y][p] = 0
  <2>1. p \in t.deps[y] /\ {y, p} \cap {START, FINISH} = {} /\ y \in M
    BY <1>1, <1>7, <1>9, <1>14
  <2>2. t.lag[y][p] = Find(g, y).pre[p].lag
    BY <1>1, <1>7, <2>1, TaskLag
  <2> QED BY <2>1, <2>2
<1>19. LongestBefore(t)[p] + t.len[p] <= LongestBefore(t)[q]
  BY <1>9, ReachIsLater
<1>20. LongestBefore(t)[p] + t.len[p] + t.lag[y][p] <= LongestBefore(t)[q]
  <2>1. LongestBefore(t)[p] \in Nat /\ t.len[p] \in Nat
    <3>1. p \in M
      BY <1>7, <1>9
    <3> QED BY <1>5, <3>1, BeforeIs DEF Sound
  <2> HIDE DEF t
  <2> QED BY <1>18, <1>19, <2>1
<1>21. y \in M /\ p \in t.deps[y] /\ q \in t.deps[y]
  BY <1>7, <1>8, <1>14
<1>22. \A x \in M : LongestBefore(u)[x] = LongestBefore(t)[x]
  <2>1. Replaces(t, u, y, p)
    BY <1>7, <1>14, <1>15, <1>16, <1>17 DEF Replaces
  <2> HIDE DEF t, u
  <2> QED BY <1>5, <1>6, <1>7, <1>9, <1>20, <1>21, <2>1, SameLongest
<1>23. Calculate(t).es = [x \in M |-> LongestBefore(t)[x]]
  BY <1>5, CalculateIs
<1>24. Calculate(u).es = [x \in M |-> LongestBefore(u)[x]]
  BY <1>6, <1>7, CalculateIs
<1> HIDE DEF t, u, M
<1> QED BY <1>5, <1>6, <1>22, <1>23, <1>24 DEF h

-----------------------------------------------------------------------------
(* The findings of lint. *)

(* Every finding of S has this code. *)
Coded(S, code) == \A f \in S : f.code = code

(* The fields of a finding. *)
LEMMA FindingIs ==
  ASSUME NEW code, NEW ids
  PROVE  Finding(code, ids).code = code /\ Finding(code, ids).ids = ids
BY DEF Finding

(* One finding for each element. *)
LEMMA EachIdIs ==
  ASSUME NEW code, NEW S
  PROVE  Coded(EachId(code, S), code) /\ (EachId(code, S) = {} <=> S = {})
<1>1. Coded(EachId(code, S), code)
  BY DEF EachId, Finding, Coded
<1>2. ASSUME NEW x \in S PROVE EachId(code, S) # {}
  BY DEF EachId
<1>3. S = {} => EachId(code, S) = {}
  BY DEF EachId
<1> QED BY <1>1, <1>2, <1>3

(* The findings that are errors, of a graph that is not too large. *)
ErrorFindings(g) ==
    EachId("RESERVED_ID", {START, FINISH} \cap IdSet(g))
    \cup EachId("DUPLICATE_ID", Duplicates(g))
    \cup {Finding("INVALID_VALUE", <<g[i].id>>) : i \in {j \in DOMAIN g : ValueProblem(g[j])}}
    \cup UnknownFindings(g)
    \cup {Finding("CYCLE", loop) : loop \in FindCycles(g)}
    \cup OverlapFindings(g)

(* The remarks that are made of any graph. *)
Remarks(g) ==
    RationaleFindings(g)
    \cup LowInformationFindings(g) \cup RepeatedFindings(g) \cup FanoutFindings(g)
    \cup (IF MilestoneIds(g) = {} THEN {Finding("NO_MILESTONE", <<>>)} ELSE {})
    \cup {Finding("NO_ARTIFACT", <<g[i].id>>) :
             i \in {j \in DOMAIN g : ~ g[j].milestone /\ ~ g[j].artifact}}

RemarkCodes == {"NO_RATIONALE", "INTERFACE_EDGE_NOT_CONTRACT", "LOW_INFORMATION_CONSUMES",
                "MILESTONE_FANOUT", "NO_MILESTONE", "NO_ARTIFACT", "FEEDS_NO_MILESTONE"}

(* A remark is not an error. *)
LEMMA RemarksAre == ASSUME NEW g, NEW f \in Remarks(g) PROVE f.code \in RemarkCodes
<1>1. CASE f \in RationaleFindings(g)
  <2>1. \/ \E e : f = Finding("NO_RATIONALE", <<e[1].id, e[2]>>)
        \/ \E e : f = Finding("INTERFACE_EDGE_NOT_CONTRACT", <<e[1].id, e[2]>>)
    BY <1>1, Zenon DEF RationaleFindings
  <2> QED BY <2>1 DEF Finding, RemarkCodes
<1>2. CASE f \in LowInformationFindings(g)
  BY <1>2 DEF LowInformationFindings, Finding, RemarkCodes
<1>3. CASE f \in RepeatedFindings(g)
  <2> DEFINE Ids(text) == SetToSortSeq(UNION {{e[1].id, e[2]} : e \in {h \in Stated(g) : Says(h) = text}}, <)
  <2>1. \E text : f = Finding("LOW_INFORMATION_CONSUMES", Ids(text))
    BY <1>3, Zenon DEF RepeatedFindings
  <2> HIDE DEF Ids
  <2> QED BY <2>1 DEF Finding, RemarkCodes
<1>4. CASE f \in FanoutFindings(g)
  <2> DEFINE Fanned(p, text) == {e[1].id : e \in {h \in Stated(g) : h[2] = p /\ Says(h) = text}}
             Ids(p, text) == <<p>> \o SetToSortSeq(Fanned(p, text), <)
             Of(p) == {Finding("MILESTONE_FANOUT", Ids(p, text)) :
                   text \in {t \in {Says(e) : e \in Stated(g)} :
                                Cardinality(Fanned(p, t)) >= MILESTONE_FANOUT_THRESHOLD}}
  <2>1. FanoutFindings(g) = UNION {Of(p) : p \in FanoutProducers(g)}
    BY Zenon DEF FanoutFindings
  <2>2. PICK p \in FanoutProducers(g) : f \in Of(p)
    <3> HIDE DEF Of
    <3> QED BY <1>4, <2>1
  <2>3. \E text : f = Finding("MILESTONE_FANOUT", Ids(p, text))
    BY <2>2, Zenon
  <2> HIDE DEF Ids
  <2> QED BY <2>3 DEF Finding, RemarkCodes
<1>5. CASE f \in (IF MilestoneIds(g) = {} THEN {Finding("NO_MILESTONE", <<>>)} ELSE {})
  BY <1>5 DEF Finding, RemarkCodes
<1>6. CASE f \in {Finding("NO_ARTIFACT", <<g[i].id>>) :
             i \in {j \in DOMAIN g : ~ g[j].milestone /\ ~ g[j].artifact}}
  BY <1>6 DEF Finding, RemarkCodes
<1> QED BY <1>1, <1>2, <1>3, <1>4, <1>5, <1>6 DEF Remarks

(* The findings about the structure, by their codes. *)
LEMMA StructureIs ==
  ASSUME NEW g
  PROVE  /\ Coded(RedundantEdges(g), "REDUNDANT_EDGE")
         /\ Coded(FeedsNoMilestone(g), "FEEDS_NO_MILESTONE")
<1>1. Coded(RedundantEdges(g), "REDUNDANT_EDGE")
  BY DEF RedundantEdges, Finding, Coded
<1>2. Coded(FeedsNoMilestone(g), "FEEDS_NO_MILESTONE")
  BY EachIdIs DEF FeedsNoMilestone, Coded
<1> QED BY <1>1, <1>2

(* The codes of the errors are errors. *)
LEMMA ErrorFindingsAre == ASSUME NEW g, NEW f \in ErrorFindings(g) PROVE f.code \in Errors
<1>1. CASE f \in EachId("RESERVED_ID", {START, FINISH} \cap IdSet(g))
  BY <1>1, EachIdIs DEF Coded, Errors
<1>2. CASE f \in EachId("DUPLICATE_ID", Duplicates(g))
  BY <1>2, EachIdIs DEF Coded, Errors
<1>3. CASE f \in {Finding("INVALID_VALUE", <<g[i].id>>) : i \in {j \in DOMAIN g : ValueProblem(g[j])}}
  BY <1>3 DEF Finding, Errors
<1>4. CASE f \in UnknownFindings(g)
  BY <1>4 DEF UnknownFindings, Finding, Errors
<1>5. CASE f \in {Finding("CYCLE", loop) : loop \in FindCycles(g)}
  BY <1>5 DEF Finding, Errors
<1>6. CASE f \in OverlapFindings(g)
  BY <1>6 DEF OverlapFindings, Finding, Errors
<1> QED BY <1>1, <1>2, <1>3, <1>4, <1>5, <1>6 DEF ErrorFindings

(* Lint finds the errors, the remarks, and what the edges of a sound graph say. *)
LEMMA LintIs ==
  ASSUME NEW g, Len(g) <= MAX_DELIVERABLES
  PROVE  /\ ErrorFindings(g) \subseteq Lint(g)
         /\ \A f \in Lint(g) : f \in ErrorFindings(g) \/ f \in Remarks(g)
                               \/ f \in RedundantEdges(g) \/ f \in FeedsNoMilestone(g)
<1> DEFINE cycles == {Finding("CYCLE", loop) : loop \in FindCycles(g)}
           Sound1 == cycles = {} /\ KnownPrerequisites(g) /\ Duplicates(g) = {}
           A == EachId("RESERVED_ID", {START, FINISH} \cap IdSet(g))
           B == EachId("DUPLICATE_ID", Duplicates(g))
           C == {Finding("INVALID_VALUE", <<g[i].id>>) : i \in {j \in DOMAIN g : ValueProblem(g[j])}}
           R == RedundantEdges(g)
           F == FeedsNoMilestone(g)
           NM == IF MilestoneIds(g) = {} THEN {Finding("NO_MILESTONE", <<>>)} ELSE {}
           NA == {Finding("NO_ARTIFACT", <<g[i].id>>) :
                      i \in {j \in DOMAIN g : ~ g[j].milestone /\ ~ g[j].artifact}}
           S == IF Sound1 THEN R \cup F ELSE {}
<1>0. ~ (Len(g) > MAX_DELIVERABLES)
  <2> USE NetworkAssumption
  <2> QED OBVIOUS
<1>1. Lint(g) = IF Len(g) > MAX_DELIVERABLES THEN {Finding("TOO_MANY_DELIVERABLES", <<>>)}
                ELSE A \cup B \cup C \cup UnknownFindings(g) \cup cycles
                \cup OverlapFindings(g) \cup RationaleFindings(g) \cup LowInformationFindings(g)
                \cup RepeatedFindings(g) \cup FanoutFindings(g) \cup S \cup NM \cup NA
  BY Zenon DEF Lint
<1>2. ErrorFindings(g) = A \cup B \cup C \cup UnknownFindings(g) \cup cycles \cup OverlapFindings(g)
  BY Zenon DEF ErrorFindings
<1>3. Remarks(g) = RationaleFindings(g) \cup LowInformationFindings(g)
                \cup RepeatedFindings(g) \cup FanoutFindings(g) \cup NM \cup NA
  BY Zenon DEF Remarks
<1>4. S \subseteq R \cup F
  OBVIOUS
<1> HIDE DEF cycles, Sound1, A, B, C, R, F, NM, NA, S
<1>5. Lint(g) = A \cup B \cup C \cup UnknownFindings(g) \cup cycles
                \cup OverlapFindings(g) \cup RationaleFindings(g) \cup LowInformationFindings(g)
                \cup RepeatedFindings(g) \cup FanoutFindings(g) \cup S \cup NM \cup NA
  BY <1>0, <1>1, Zenon
<1>6. ErrorFindings(g) \subseteq Lint(g)
  BY <1>2, <1>5
<1>7. Lint(g) \subseteq ErrorFindings(g) \cup Remarks(g) \cup R \cup F
  BY <1>2, <1>3, <1>4, <1>5
<1> QED BY <1>6, <1>7 DEF R, F

(* Of a graph that is too large, lint says only that. *)
LEMMA TooManyIs ==
  ASSUME NEW g, Len(g) > MAX_DELIVERABLES
  PROVE  Lint(g) = {Finding("TOO_MANY_DELIVERABLES", <<>>)}
BY DEF Lint

(* A redundant edge that lint reports is one. *)
LEMMA RedundantEdgeIs ==
  ASSUME NEW g, IsGraph(g), UniqueIds(g), Len(g) <= MAX_DELIVERABLES,
         NEW f \in Lint(g), f.code = "REDUNDANT_EDGE"
  PROVE  /\ f.ids[1] \in IdSet(g) /\ f.ids[2] \in Prerequisites(Find(g, f.ids[1]))
         /\ Redundant(g, f.ids[1], f.ids[2])
<1>1. f \in RedundantEdges(g)
  <2>1. f \notin ErrorFindings(g)
    BY ErrorFindingsAre DEF Errors
  <2>2. f \notin Remarks(g)
    BY RemarksAre DEF RemarkCodes
  <2>3. f \notin FeedsNoMilestone(g)
    BY StructureIs DEF Coded
  <2> QED BY <2>1, <2>2, <2>3, LintIs
<1>2. PICK e \in Edges(g) : /\ Reach(g, e[2]) \cap Prerequisites(e[1]) # {}
                            /\ f = Finding("REDUNDANT_EDGE", <<e[1].id, e[2]>>)
  BY <1>1 DEF RedundantEdges
<1>3. PICK i \in DOMAIN g : \E p \in Prerequisites(g[i]) : e = <<g[i], p>>
  BY <1>2 DEF Edges
<1>3a. PICK p \in Prerequisites(g[i]) : e = <<g[i], p>>
  BY <1>3
<1>4. f.ids[1] = g[i].id /\ f.ids[2] = p
  BY <1>2, <1>3a, FindingIs
<1>5. Find(g, g[i].id) = g[i] /\ g[i].id \in IdSet(g)
  BY <1>3, FindIs DEF IdSet
<1> QED BY <1>2, <1>3a, <1>4, <1>5 DEF Redundant

(* A redundant edge can be removed. *)
THEOREM RedundantEdgeIsRemovableHolds == Spec => []RedundantEdgeIsRemovable
<1>1. Current => RedundantEdgeIsRemovable
  <2> SUFFICES ASSUME Current, sim # None, NEW f \in findings, f.code = "REDUNDANT_EDGE"
               PROVE  LET without == Edited(graph, [op |-> "RemoveEdge", from |-> f.ids[2], to |-> f.ids[1]])
                      IN  /\ \A x \in IdSet(graph) : Reach(without, x) = Reach(graph, x)
                          /\ Find(graph, f.ids[1]).pre[f.ids[2]].lag = 0
                               => ComputeCpm(without).es = sim.cpm.es
    BY DEF RedundantEdgeIsRemovable
  <2> DEFINE y == f.ids[1]
             p == f.ids[2]
             e == [op |-> "RemoveEdge", from |-> p, to |-> y]
  <2>1. /\ IsGraph(graph) /\ Valid(graph) /\ sim.cpm = Calculate(Tasks(graph))
        /\ findings = Lint(graph)
    BY SimulatedIs
  <2>2. PICK depth : Plannable(graph, depth)
    BY <2>1, ValidIsPlannable
  <2>3. UniqueIds(graph) /\ Len(graph) <= MAX_DELIVERABLES
    BY <2>1 DEF Valid
  <2>4. y \in IdSet(graph) /\ p \in Prerequisites(Find(graph, y)) /\ Redundant(graph, y, p)
    BY <2>1, <2>3, RedundantEdgeIs
  <2>5. Edited(graph, e) = Unlinked(graph, y, p)
    BY DEF Edited, Unlinked
  <2>6. sim.cpm = ComputeCpm(graph)
    BY <2>1 DEF ComputeCpm
  <2> HIDE DEF y, p, e
  <2>7. \A x : Reach(Unlinked(graph, y, p), x) = Reach(graph, x)
    BY <2>2, <2>4, RedundantRemoved
  <2>8. Find(graph, y).pre[p].lag = 0 => ComputeCpm(Unlinked(graph, y, p)).es = ComputeCpm(graph).es
    BY <2>2, <2>4, RedundantSchedule
  <2>9. /\ \A x \in IdSet(graph) : Reach(Edited(graph, e), x) = Reach(graph, x)
        /\ Find(graph, y).pre[p].lag = 0 => ComputeCpm(Edited(graph, e)).es = sim.cpm.es
    BY <2>5, <2>6, <2>7, <2>8
  <2> QED BY <2>9 DEF e, y, p
<1> QED BY <1>1, CurrentHolds, PTL

-----------------------------------------------------------------------------
(* The search for cycles. *)

(* A finite set as a sequence. *)
LEMMA SetToSeqIs ==
  ASSUME NEW S, IsFiniteSet(S)
  PROVE  SetToSeq(S) \in Seq(S) /\ ToSet(SetToSeq(S)) = S /\ IsInjective(SetToSeq(S))
<1> DEFINE n == Cardinality(S)
           h == SetToSeq(S)
<1>1. n \in Nat /\ ExistsBijection(1 .. n, S)
  BY FS_CardinalityType
<1>2. PICK f : f \in Bijection(1 .. n, S)
  BY <1>1 DEF ExistsBijection
<1>3. f \in [1 .. n -> S] /\ IsInjective(f)
  BY <1>2 DEF Bijection, Injection, IsInjective
<1>4. h \in [1 .. n -> S] /\ IsInjective(h)
  BY <1>3 DEF SetToSeq
<1> HIDE DEF h
<1>5. h \in Injection(1 .. n, S)
  <2> HIDE DEF n
  <2> QED BY <1>4 DEF Injection, IsInjective
<1>6. IsFiniteSet(1 .. n) /\ Cardinality(1 .. n) = n
  <2> HIDE DEF n
  <2>1. 1 \in Int /\ n \in Int
    BY <1>1
  <2>2. IsFiniteSet(1 .. n) /\ Cardinality(1 .. n) = IF 1 > n THEN 0 ELSE n - 1 + 1
    BY <2>1, FS_Interval
  <2> QED BY <1>1, <2>2
<1>7. h \in Surjection(1 .. n, S)
  <2>1. Cardinality(1 .. n) = Cardinality(S) <=> h \in Surjection(1 .. n, S)
    BY <1>5, FS_Injection
  <2> QED BY <1>6, <2>1
<1>8. ToSet(h) = S
  <2> HIDE DEF n
  <2> QED BY <1>4, <1>7 DEF Surjection, ToSet
<1>9. h \in Seq(S)
  <2>1. h \in UNION {[1 .. k -> S] : k \in Nat}
    BY <1>1, <1>4
  <2> QED BY <2>1, SeqDef
<1> QED BY <1>4, <1>8, <1>9 DEF h

(* What is to visit from an id is its prerequisites, each once. *)
LEMMA ToVisitIs ==
  ASSUME NEW g, IsGraph(g), UniqueIds(g), KnownPrerequisites(g), NEW x \in IdSet(g)
  PROVE  /\ ToVisit(g, x) \in Seq(IdSet(g))
         /\ ToSet(ToVisit(g, x)) = Prerequisites(Find(g, x)) /\ IsInjective(ToVisit(g, x))
<1> DEFINE P == Prerequisites(Find(g, x))
<1>1. P \subseteq IdSet(g)
  BY KnownIds
<1>2. IsFiniteSet(P)
  BY <1>1, GraphIs, FS_Subset
<1>3. P \cap IdSet(g) = P
  BY <1>1
<1> HIDE DEF P
<1>4. ToVisit(g, x) = SetToSeq(P)
  BY <1>3 DEF ToVisit, P
<1>5. SetToSeq(P) \in Seq(P) /\ ToSet(SetToSeq(P)) = P /\ IsInjective(SetToSeq(P))
  BY <1>2, SetToSeqIs
<1>6. SetToSeq(P) \in Seq(IdSet(g))
  BY <1>1, <1>5, SeqMonotonic
<1> QED BY <1>4, <1>5, <1>6 DEF P

CycleStart == [stack |-> <<>>, active |-> {}, done |-> {}, cycles |-> {}]
VisitBound(g) == 2 * Len(g) + Cardinality(Edges(g))

(* The search is one visit after the other. *)
LEMMA FindCyclesUnfolds ==
  ASSUME NEW g, VisitBound(g) \in Nat
  PROVE  \E after : /\ after[0] = CycleStart
                    /\ \A n \in 1 .. VisitBound(g) : after[n] = Visit(g, after[n - 1])
                    /\ FindCycles(g) = after[VisitBound(g)].cycles
<1> DEFINE first == CycleStart
           Step(s) == Visit(g, s)
           K == VisitBound(g)
           Is(f, k) == f = [n \in 0 .. k |-> IF n = 0 THEN first ELSE Step(f[n - 1])]
           G == {k \in Nat : \E f : Is(f, k)}
<1>1. 0 \in G
  <2>1. Is([n \in 0 .. 0 |-> first], 0)
    <3> HIDE DEF Step, first
    <3> QED OBVIOUS
  <2> QED BY <2>1
<1>2. ASSUME NEW k \in Nat, k \in G PROVE k + 1 \in G
  <2> HIDE DEF Step, first
  <2>1. PICK f : Is(f, k)
    BY <1>2
  <2> DEFINE h == [n \in 0 .. k + 1 |-> IF n = k + 1 THEN Step(f[k]) ELSE f[n]]
  <2>2. Is(h, k + 1)
    BY <2>1
  <2> HIDE DEF h, Is
  <2> QED BY <2>2
<1>3. PICK f : Is(f, K)
  <2> HIDE DEF Is
  <2>1. K \in G
    <3> HIDE DEF G
    <3> QED BY <1>1, <1>2, Upward
  <2> QED BY <2>1
<1> DEFINE after[n \in 0 .. 2 * Len(g) + Cardinality(Edges(g))] ==
             IF n = 0 THEN [stack |-> <<>>, active |-> {}, done |-> {}, cycles |-> {}]
             ELSE Visit(g, after[n - 1])
<1>4. after = [n \in 0 .. K |-> IF n = 0 THEN first ELSE Step(after[n - 1])]
  BY <1>3, Zenon DEF VisitBound, CycleStart
<1>5. FindCycles(g) = after[K].cycles
  BY Zenon DEF FindCycles, VisitBound
<1> HIDE DEF after, first, Step, K
<1>6. K \in Nat
  BY DEF K
<1>7. after[0] = first /\ \A n \in 1 .. K : after[n] = Step(after[n - 1])
  BY <1>4, <1>6
<1> QED BY <1>5, <1>7, Zenon DEF first, Step, K

(* The stack once the next prerequisite of the top is taken. *)
Advanced(st) == Append(Front(st), <<Last(st)[1], Tail(Last(st)[2])>>)

At(stack, active, done, cycles) ==
    [stack |-> stack, active |-> active, done |-> done, cycles |-> cycles]

(* A state of the search is its four fields. *)
LEMMA AtIs ==
  ASSUME NEW r, DOMAIN r = {"stack", "active", "done", "cycles"}, r = [k \in DOMAIN r |-> r[k]]
  PROVE  r = At(r["stack"], r["active"], r["done"], r["cycles"])
<1> DEFINE a == At(r["stack"], r["active"], r["done"], r["cycles"])
           F == {"stack", "active", "done", "cycles"}
<1>1. DOMAIN a = F /\ a = [k \in DOMAIN a |-> a[k]]
  BY DEF At
<1>2. a["stack"] = r["stack"] /\ a["active"] = r["active"] /\ a["done"] = r["done"] /\ a["cycles"] = r["cycles"]
  BY DEF At
<1>3. \A k \in F : r[k] = a[k]
  <2> HIDE DEF a
  <2> QED BY <1>2
<1> HIDE DEF a, F
<1>4. a = [k \in F |-> a[k]] /\ r = [k \in F |-> r[k]]
  BY <1>1 DEF F
<1>5. [k \in F |-> a[k]] = [k \in F |-> r[k]]
  BY <1>3
<1>6. a = r
  BY <1>4, <1>5, Zenon
<1> QED BY <1>6 DEF a

(* What one visit may do. *)
VisitCases(g, stack, active, done, cycles, u) ==
    LET x   == Last(stack)[1]
        p   == Head(Last(stack)[2])
        new == {i \in DOMAIN g : g[i].id \notin active \cup done}
        y   == g[Min(new)].id
    IN  \/ stack = <<>> /\ new = {} /\ u = At(stack, active, done, cycles)
        \/ /\ stack = <<>> /\ new # {}
           /\ u = At(<<<<y, ToVisit(g, y)>>>>, active \cup {y}, done, cycles)
        \/ /\ stack # <<>> /\ Last(stack)[2] = <<>>
           /\ u = At(Front(stack), active \ {x}, done \cup {x}, cycles)
        \/ /\ stack # <<>> /\ Last(stack)[2] # <<>> /\ p \in active
           /\ \E c : u = At(Advanced(stack), active, done, c) /\ c # {}
        \/ /\ stack # <<>> /\ Last(stack)[2] # <<>> /\ p \notin active /\ p \in done
           /\ u = At(Advanced(stack), active, done, cycles)
        \/ /\ stack # <<>> /\ Last(stack)[2] # <<>> /\ p \notin active \cup done
           /\ u = At(Append(Advanced(stack), <<p, ToVisit(g, p)>>), active \cup {p}, done, cycles)

(* What a visit returns, case by case. *)
LEMMA VisitIs ==
  ASSUME NEW g, NEW stack, NEW active, NEW done, NEW cycles
  PROVE  VisitCases(g, stack, active, done, cycles, Visit(g, At(stack, active, done, cycles)))
<1> DEFINE s == At(stack, active, done, cycles)
           top == Last(stack)
           x == Last(stack)[1]
           p == Head(Last(stack)[2])
           new == {i \in DOMAIN g : g[i].id \notin active \cup done}
           onPath == [i \in DOMAIN stack |-> stack[i][1]]
           from == CHOOSE i \in DOMAIN onPath : onPath[i] = p
           loop == Append(SubSeq(onPath, from, Len(onPath)), p)
           y == g[Min(new)].id
<1>0. s.stack = stack /\ s.active = active /\ s.done = done /\ s.cycles = cycles
  BY DEF At
<1>1. Visit(g, s) =
        IF stack = <<>>
        THEN IF new = {} THEN s
             ELSE [s EXCEPT !.stack = <<<<y, ToVisit(g, y)>>>>, !.active = active \cup {y}]
        ELSE IF top[2] = <<>>
             THEN [s EXCEPT !.stack = Front(stack), !.active = active \ {x}, !.done = done \cup {x}]
        ELSE IF p \in active
             THEN [s EXCEPT !.stack = Advanced(stack), !.cycles = cycles \cup {loop}]
        ELSE IF p \in done
             THEN [s EXCEPT !.stack = Advanced(stack)]
        ELSE [s EXCEPT !.stack = Append(Advanced(stack), <<p, ToVisit(g, p)>>), !.active = active \cup {p}]
  BY <1>0, Zenon DEF Visit, Advanced
<1> DEFINE A == <<<<y, ToVisit(g, y)>>>>
           B == Front(stack)
           C == Advanced(stack)
           D == Append(Advanced(stack), <<p, ToVisit(g, p)>>)
           V == Visit(g, s)
           L == cycles \cup {loop}
<1>2. \A a, b, c, d : /\ [s EXCEPT !.stack = a, !.active = b] = At(a, b, done, cycles)
                      /\ [s EXCEPT !.stack = a, !.active = b, !.done = c] = At(a, b, c, cycles)
                      /\ [s EXCEPT !.stack = a, !.cycles = d] = At(a, active, done, d)
                      /\ [s EXCEPT !.stack = a] = At(a, active, done, cycles)
  <2> SUFFICES ASSUME NEW a, NEW b, NEW c, NEW d
               PROVE  /\ [s EXCEPT !.stack = a, !.active = b] = At(a, b, done, cycles)
                      /\ [s EXCEPT !.stack = a, !.active = b, !.done = c] = At(a, b, c, cycles)
                      /\ [s EXCEPT !.stack = a, !.cycles = d] = At(a, active, done, d)
                      /\ [s EXCEPT !.stack = a] = At(a, active, done, cycles)
    OBVIOUS
  <2>1. [s EXCEPT !.stack = a, !.active = b] = At(a, b, done, cycles)
    <3> DEFINE r == [s EXCEPT !.stack = a, !.active = b]
    <3>1. DOMAIN s = {"stack", "active", "done", "cycles"}
      BY DEF At
    <3>2. DOMAIN r = DOMAIN s /\ r = [k \in DOMAIN r |-> r[k]]
      OBVIOUS
    <3>3. r["stack"] = a /\ r["active"] = b /\ r["done"] = done /\ r["cycles"] = cycles
      BY <1>0, <3>1
    <3> HIDE DEF r, s
    <3>4. r = At(r["stack"], r["active"], r["done"], r["cycles"])
      BY <3>1, <3>2, AtIs
    <3> QED BY <3>3, <3>4 DEF r
  <2>2. [s EXCEPT !.stack = a, !.active = b, !.done = c] = At(a, b, c, cycles)
    <3> DEFINE r == [s EXCEPT !.stack = a, !.active = b, !.done = c]
    <3>1. DOMAIN s = {"stack", "active", "done", "cycles"}
      BY DEF At
    <3>2. DOMAIN r = DOMAIN s /\ r = [k \in DOMAIN r |-> r[k]]
      OBVIOUS
    <3>3. r["stack"] = a /\ r["active"] = b /\ r["done"] = c /\ r["cycles"] = cycles
      BY <1>0, <3>1
    <3> HIDE DEF r, s
    <3>4. r = At(r["stack"], r["active"], r["done"], r["cycles"])
      BY <3>1, <3>2, AtIs
    <3> QED BY <3>3, <3>4 DEF r
  <2>3. [s EXCEPT !.stack = a, !.cycles = d] = At(a, active, done, d)
    <3> DEFINE r == [s EXCEPT !.stack = a, !.cycles = d]
    <3>1. DOMAIN s = {"stack", "active", "done", "cycles"}
      BY DEF At
    <3>2. DOMAIN r = DOMAIN s /\ r = [k \in DOMAIN r |-> r[k]]
      OBVIOUS
    <3>3. r["stack"] = a /\ r["active"] = active /\ r["done"] = done /\ r["cycles"] = d
      BY <1>0, <3>1
    <3> HIDE DEF r, s
    <3>4. r = At(r["stack"], r["active"], r["done"], r["cycles"])
      BY <3>1, <3>2, AtIs
    <3> QED BY <3>3, <3>4 DEF r
  <2>4. [s EXCEPT !.stack = a] = At(a, active, done, cycles)
    BY DEF At
  <2> QED BY <2>1, <2>2, <2>3, <2>4
<1>3. L # {}
  OBVIOUS
<1> HIDE DEF s, top, x, p, new, onPath, from, loop, y, A, B, C, D, V, L
<1>4. V = IF stack = <<>>
        THEN IF new = {} THEN s ELSE [s EXCEPT !.stack = A, !.active = active \cup {y}]
        ELSE IF top[2] = <<>>
             THEN [s EXCEPT !.stack = B, !.active = active \ {x}, !.done = done \cup {x}]
        ELSE IF p \in active THEN [s EXCEPT !.stack = C, !.cycles = L]
        ELSE IF p \in done THEN [s EXCEPT !.stack = C]
        ELSE [s EXCEPT !.stack = D, !.active = active \cup {p}]
  BY <1>1, Zenon DEF A, B, C, D, V, L
<1>5. \/ stack = <<>> /\ new = {} /\ V = s
      \/ stack = <<>> /\ new # {} /\ V = At(A, active \cup {y}, done, cycles)
      \/ stack # <<>> /\ top[2] = <<>> /\ V = At(B, active \ {x}, done \cup {x}, cycles)
      \/ stack # <<>> /\ top[2] # <<>> /\ p \in active /\ \E c : V = At(C, active, done, c) /\ c # {}
      \/ stack # <<>> /\ top[2] # <<>> /\ p \notin active /\ p \in done /\ V = At(C, active, done, cycles)
      \/ stack # <<>> /\ top[2] # <<>> /\ p \notin active \cup done /\ V = At(D, active \cup {p}, done, cycles)
  <2>1. CASE stack = <<>> /\ new = {}
    BY <1>4, <2>1
  <2>2. CASE stack = <<>> /\ new # {}
    BY <1>2, <1>4, <2>2
  <2>3. CASE stack # <<>> /\ top[2] = <<>>
    BY <1>2, <1>4, <2>3
  <2>4. CASE stack # <<>> /\ top[2] # <<>> /\ p \in active
    <3>1. V = At(C, active, done, L)
      BY <1>2, <1>4, <2>4
    <3> QED BY <1>3, <2>4, <3>1
  <2>5. CASE stack # <<>> /\ top[2] # <<>> /\ p \notin active /\ p \in done
    BY <1>2, <1>4, <2>5
  <2>6. CASE stack # <<>> /\ top[2] # <<>> /\ p \notin active /\ p \notin done
    BY <1>2, <1>4, <2>6
  <2> QED BY <2>1, <2>2, <2>3, <2>4, <2>5, <2>6
<1> QED BY <1>5, Zenon DEF VisitCases, A, B, C, D, V, s, top, x, p, new, y

-----------------------------------------------------------------------------
(* One visit *)

(* A stack of ids, each with ids still to visit. *)
Stacks(g) == Seq(IdSet(g) \X Seq(IdSet(g)))

Depth(s) == Len(s.stack)
Node(s, i) == s.stack[i][1]
Rest(s, i) == s.stack[i][2]

(* The stacks of s and u agree below n. *)
SameBelow(s, u, n) == \A i \in 1 .. n : i < n => u.stack[i] = s.stack[i]

(* The visits there are. *)
Ends(g, s, u) == Depth(s) = 0 /\ IdSet(g) \subseteq s.active \cup s.done /\ u = s

Opens(g, s, u, x) ==
    /\ Depth(s) = 0 /\ x \in IdSet(g) /\ x \notin s.active \cup s.done
    /\ Depth(u) = 1 /\ Node(u, 1) = x /\ Rest(u, 1) = ToVisit(g, x)
    /\ u.active = s.active \cup {x} /\ u.done = s.done /\ u.cycles = s.cycles

Closes(s, u, n) ==
    /\ n = Depth(s) /\ n > 0 /\ Rest(s, n) = <<>>
    /\ Depth(u) = n - 1 /\ SameBelow(s, u, n)
    /\ u.active = s.active \ {Node(s, n)} /\ u.done = s.done \cup {Node(s, n)}
    /\ u.cycles = s.cycles

Advances(s, u, n) ==
    /\ n = Depth(s) /\ n > 0 /\ Rest(s, n) # <<>>
    /\ SameBelow(s, u, n) /\ Node(u, n) = Node(s, n) /\ Rest(u, n) = Tail(Rest(s, n))
    /\ u.done = s.done

Follows(s, u, n) ==
    /\ Advances(s, u, n) /\ Depth(u) = n /\ u.active = s.active
    /\ Head(Rest(s, n)) \in s.active \cup s.done
    /\ Head(Rest(s, n)) \in s.active => u.cycles # {}
    /\ Head(Rest(s, n)) \notin s.active => u.cycles = s.cycles

Pushes(g, s, u, n) ==
    /\ Advances(s, u, n) /\ Depth(u) = n + 1
    /\ Head(Rest(s, n)) \notin s.active \cup s.done
    /\ Node(u, n + 1) = Head(Rest(s, n)) /\ Rest(u, n + 1) = ToVisit(g, Head(Rest(s, n)))
    /\ u.active = s.active \cup {Head(Rest(s, n))}
    /\ u.cycles = s.cycles

(* The top of a stack, and what is below it. *)
LEMMA FrontIs ==
  ASSUME NEW X, NEW st \in Seq(X), st # <<>>
  PROVE  /\ Len(st) \in Nat /\ Len(st) > 0 /\ Last(st) = st[Len(st)] /\ Last(st) \in X
         /\ Front(st) \in Seq(X) /\ Len(Front(st)) = Len(st) - 1
         /\ \A i \in 1 .. Len(st) : i < Len(st) => Front(st)[i] = st[i]
<1> DEFINE n == Len(st)
<1>1. n \in Nat /\ \A i \in 1 .. n : st[i] \in X
  BY LenProperties, ElementOfSeq
<1>2. n > 0
  BY EmptySeq, <1>1
<1>3. Last(st) = st[n]
  BY DEF Last
<1> HIDE DEF n
<1>4. 1 \in Int /\ n - 1 \in Int /\ \A i \in 1 .. n - 1 : st[i] \in X
  BY <1>1
<1> DEFINE k == n - 1
<1>5. k \in Int /\ k >= 0
  BY <1>1, <1>2
<1>6. \A i \in 1 .. k : st[i] \in X
  BY <1>4
<1> HIDE DEF k
<1>7. /\ SubSeq(st, 1, k) \in Seq(X)
      /\ Len(SubSeq(st, 1, k)) = IF 1 <= k THEN k - 1 + 1 ELSE 0
      /\ \A i \in 1 .. k - 1 + 1 : SubSeq(st, 1, k)[i] = st[1 + i - 1]
  BY <1>4, <1>5, <1>6, SubSeqProperties
<1>8. Front(st) = SubSeq(st, 1, k)
  BY DEF Front, k, n
<1> DEFINE f == Front(st)
<1>9. f \in Seq(X) /\ Len(f) = k /\ \A i \in 1 .. k : f[i] = st[i]
  <2> HIDE DEF f
  <2>1. \A i \in 1 .. k : i \in 1 .. k - 1 + 1 /\ 1 + i - 1 = i
    BY <1>5
  <2>2. (IF 1 <= k THEN k - 1 + 1 ELSE 0) = k
    BY <1>5
  <2> QED BY <1>7, <1>8, <2>1, <2>2 DEF f
<1> HIDE DEF f
<1>10. \A i \in 1 .. n : i < n => i \in 1 .. k
  BY <1>1 DEF k
<1> QED BY <1>1, <1>2, <1>3, <1>9, <1>10 DEF f, k, n

(* A stack whose top has one id less to visit. *)
LEMMA AdvancedIs ==
  ASSUME NEW I, NEW st \in Seq(I \X Seq(I)), st # <<>>, Last(st)[2] # <<>>
  PROVE  /\ Advanced(st) \in Seq(I \X Seq(I)) /\ Len(Advanced(st)) = Len(st)
         /\ \A i \in 1 .. Len(st) : i < Len(st) => Advanced(st)[i] = st[i]
         /\ Advanced(st)[Len(st)] = <<st[Len(st)][1], Tail(st[Len(st)][2])>>
         /\ st[Len(st)][1] \in I /\ st[Len(st)][2] \in Seq(I) /\ Head(st[Len(st)][2]) \in I
<1> DEFINE X == I \X Seq(I)
           n == Len(st)
           f == Front(st)
           top == <<Last(st)[1], Tail(Last(st)[2])>>
<1>1. /\ n \in Nat /\ n > 0 /\ Last(st) = st[n] /\ Last(st) \in X
      /\ f \in Seq(X) /\ Len(f) = n - 1
      /\ \A i \in 1 .. n : i < n => f[i] = st[i]
  BY FrontIs
<1>2. Last(st)[1] \in I /\ Last(st)[2] \in Seq(I)
  BY <1>1
<1>3. Head(Last(st)[2]) \in I /\ Tail(Last(st)[2]) \in Seq(I)
  BY <1>2, HeadTailProperties
<1>4. top \in X
  BY <1>2, <1>3
<1> HIDE DEF X, f, top, n
<1> DEFINE a == Append(f, top)
<1>5. a \in Seq(X) /\ Len(a) = (n - 1) + 1 /\ a[(n - 1) + 1] = top /\ \A i \in 1 .. n - 1 : a[i] = f[i]
  BY <1>1, <1>4, AppendProperties
<1> HIDE DEF a
<1>6. a \in Seq(X) /\ Len(a) = n /\ a[n] = top /\ \A i \in 1 .. n : i < n => a[i] = f[i]
  BY <1>1, <1>5
<1>7. Advanced(st) = a
  BY DEF Advanced, a, f, top
<1>8. top = <<st[n][1], Tail(st[n][2])>>
  BY <1>1 DEF top
<1>9. \A i \in 1 .. n : i < n => a[i] = st[i]
  BY <1>1, <1>6
<1> QED BY <1>1, <1>2, <1>3, <1>6, <1>7, <1>8, <1>9 DEF n, X

(* Each visit ends the search, opens a root, closes an id, follows an edge or pushes its end. *)
LEMMA VisitTurns ==
  ASSUME NEW g, IsGraph(g), UniqueIds(g), KnownPrerequisites(g), NEW s,
         s = At(s.stack, s.active, s.done, s.cycles), s.stack \in Stacks(g)
  PROVE  LET u == Visit(g, s)
         IN  /\ u = At(u.stack, u.active, u.done, u.cycles) /\ u.stack \in Stacks(g)
             /\ \/ Ends(g, s, u)
                \/ \E x : Opens(g, s, u, x)
                \/ \E n : Closes(s, u, n)
                \/ \E n : Follows(s, u, n)
                \/ \E n : Pushes(g, s, u, n)
<1> DEFINE st == s.stack
           n == Len(st)
           I == IdSet(g)
           X == I \X Seq(I)
           u == Visit(g, s)
           x == Last(st)[1]
           p == Head(Last(st)[2])
           new == {i \in DOMAIN g : g[i].id \notin s.active \cup s.done}
           y == g[Min(new)].id
<1> HIDE DEF u
<1>0. \A a, b, c, d : /\ At(a, b, c, d).stack = a /\ At(a, b, c, d).active = b
                      /\ At(a, b, c, d).done = c /\ At(a, b, c, d).cycles = d
  BY DEF At
<1>1. \/ st = <<>> /\ new = {} /\ u = s
      \/ st = <<>> /\ new # {} /\ u = At(<<<<y, ToVisit(g, y)>>>>, s.active \cup {y}, s.done, s.cycles)
      \/ /\ st # <<>> /\ Last(st)[2] = <<>>
         /\ u = At(Front(st), s.active \ {x}, s.done \cup {x}, s.cycles)
      \/ /\ st # <<>> /\ Last(st)[2] # <<>> /\ p \in s.active
         /\ \E c : u = At(Advanced(st), s.active, s.done, c) /\ c # {}
      \/ /\ st # <<>> /\ Last(st)[2] # <<>> /\ p \notin s.active /\ p \in s.done
         /\ u = At(Advanced(st), s.active, s.done, s.cycles)
      \/ /\ st # <<>> /\ Last(st)[2] # <<>> /\ p \notin s.active \cup s.done
         /\ u = At(Append(Advanced(st), <<p, ToVisit(g, p)>>), s.active \cup {p}, s.done, s.cycles)
  <2> DEFINE r == At(s.stack, s.active, s.done, s.cycles)
             v == Visit(g, r)
  <2>1. VisitCases(g, s.stack, s.active, s.done, s.cycles, v)
    BY VisitIs, Zenon
  <2>2. s = r /\ u = v
    BY Zenon DEF u
  <2>3. VisitCases(g, s.stack, s.active, s.done, s.cycles, u)
    BY <2>1, <2>2, Zenon
  <2> HIDE DEF u
  <2> QED BY <2>2, <2>3, Zenon DEF VisitCases, r
<1>2. st \in Seq(X)
  BY DEF Stacks
<1> HIDE DEF st, x, p, y, new, X
<1>3. CASE st = <<>> /\ new = {} /\ u = s
  <2>1. Depth(s) = 0
    BY <1>3, EmptySeq DEF Depth, st
  <2>2. I \subseteq s.active \cup s.done
    BY <1>3 DEF new, IdSet
  <2> QED BY <1>3, <2>1, <2>2 DEF Ends, u
<1>4. CASE st = <<>> /\ new # {} /\ u = At(<<<<y, ToVisit(g, y)>>>>, s.active \cup {y}, s.done, s.cycles)
  <2>1. Depth(s) = 0
    BY <1>4, EmptySeq DEF Depth, st
  <2>2. y \in I /\ y \notin s.active \cup s.done
    <3>1. new \subseteq Int /\ new \subseteq DOMAIN g /\ IsFiniteSet(new)
      <4>1. new \subseteq 1 .. Len(g) /\ Len(g) \in Nat /\ DOMAIN g = 1 .. Len(g)
        BY GraphIs DEF new
      <4>1a. new \subseteq Int /\ new \subseteq DOMAIN g
        BY <4>1
      <4>2. IsFiniteSet(1 .. Len(g))
        <5>1. 1 \in Int /\ Len(g) \in Int
          BY <4>1
        <5> QED BY <5>1, FS_Interval
      <4> QED BY <4>1, <4>1a, <4>2, FS_Subset
    <3>2. Min(new) \in new
      BY <1>4, <3>1, MinIs
    <3> QED BY <3>1, <3>2 DEF new, y, IdSet
  <2>3. ToVisit(g, y) \in Seq(I)
    BY <2>2, ToVisitIs
  <2> DEFINE e == <<y, ToVisit(g, y)>>
             z == <<e>>
  <2>4. e \in X /\ e[1] = y /\ e[2] = ToVisit(g, y)
    BY <2>2, <2>3 DEF X
  <2> HIDE DEF e
  <2>5. z \in Seq(X) /\ Len(z) = 1 /\ z[1] = e
    BY <2>4
  <2>6. u = At(z, s.active \cup {y}, s.done, s.cycles)
    BY <1>4 DEF e
  <2> HIDE DEF z
  <2>7. u.stack = z /\ u.active = s.active \cup {y} /\ u.done = s.done /\ u.cycles = s.cycles
    BY <1>0, <2>6
  <2>8. Opens(g, s, u, y)
    BY <2>1, <2>2, <2>4, <2>5, <2>7 DEF Opens, Depth, Node, Rest
  <2>9. u = At(u.stack, u.active, u.done, u.cycles) /\ u.stack \in Stacks(g)
    BY <2>5, <2>6, <2>7 DEF Stacks, X
  <2> QED BY <2>8, <2>9 DEF u
<1>5. CASE /\ st # <<>> /\ Last(st)[2] = <<>>
           /\ u = At(Front(st), s.active \ {x}, s.done \cup {x}, s.cycles)
  <2>1. /\ n \in Nat /\ n > 0 /\ Last(st) = st[n] /\ Last(st) \in X
        /\ Front(st) \in Seq(X) /\ Len(Front(st)) = n - 1
        /\ \A i \in 1 .. n : i < n => Front(st)[i] = st[i]
    BY <1>2, <1>5, FrontIs
  <2>2. u.stack = Front(st) /\ u.active = s.active \ {x} /\ u.done = s.done \cup {x} /\ u.cycles = s.cycles
    BY <1>0, <1>5
  <2>3. Depth(s) = n /\ Rest(s, n) = <<>> /\ x = Node(s, n)
    BY <1>5, <2>1 DEF Depth, Rest, Node, st, x
  <2>4. Depth(u) = n - 1 /\ SameBelow(s, u, n)
    BY <2>1, <2>2 DEF Depth, SameBelow, st
  <2>5. Closes(s, u, n)
    BY <2>1, <2>2, <2>3, <2>4 DEF Closes
  <2>6. u = At(u.stack, u.active, u.done, u.cycles) /\ u.stack \in Stacks(g)
    BY <1>5, <2>1, <2>2 DEF Stacks, X
  <2> QED BY <2>5, <2>6 DEF u
<1>6. ASSUME st # <<>>, Last(st)[2] # <<>>
      PROVE  /\ n \in Nat /\ n > 0 /\ n = Depth(s) /\ Rest(s, n) # <<>> /\ p = Head(Rest(s, n)) /\ p \in I
             /\ Advanced(st) \in Seq(X) /\ Len(Advanced(st)) = n
             /\ \A i \in 1 .. n : i < n => Advanced(st)[i] = st[i]
             /\ Advanced(st)[n] = <<Node(s, n), Tail(Rest(s, n))>>
  <2>1. n \in Nat /\ n > 0 /\ Last(st) = st[n]
    BY <1>2, <1>6, FrontIs
  <2>2. /\ Advanced(st) \in Seq(I \X Seq(I)) /\ Len(Advanced(st)) = n
        /\ \A i \in 1 .. n : i < n => Advanced(st)[i] = st[i]
        /\ Advanced(st)[n] = <<st[n][1], Tail(st[n][2])>>
        /\ Head(st[n][2]) \in I
    BY <1>2, <1>6, AdvancedIs DEF X
  <2>3. n = Depth(s) /\ Rest(s, n) = st[n][2] /\ Node(s, n) = st[n][1]
    BY DEF Depth, Rest, Node, st
  <2> QED BY <1>6, <2>1, <2>2, <2>3 DEF p, X
<1>7. ASSUME NEW c, st # <<>>, Last(st)[2] # <<>>, u = At(Advanced(st), s.active, s.done, c),
             p \in s.active \cup s.done, p \in s.active => c # {}, p \notin s.active => c = s.cycles
      PROVE  Follows(s, u, n) /\ u = At(u.stack, u.active, u.done, u.cycles) /\ u.stack \in Stacks(g)
  <2>1. u.stack = Advanced(st) /\ u.active = s.active /\ u.done = s.done /\ u.cycles = c
    BY <1>0, <1>7
  <2>2. Depth(u) = n /\ SameBelow(s, u, n) /\ Node(u, n) = Node(s, n) /\ Rest(u, n) = Tail(Rest(s, n))
    <3>1. SameBelow(s, u, n)
      BY <1>6, <1>7, <2>1 DEF SameBelow, st
    <3>2. Depth(u) = n
      BY <1>6, <1>7, <2>1 DEF Depth
    <3>3. u.stack[n] = <<Node(s, n), Tail(Rest(s, n))>>
      BY <1>6, <1>7, <2>1
    <3>4. Node(u, n) = Node(s, n) /\ Rest(u, n) = Tail(Rest(s, n))
      <4> DEFINE a == Node(s, n)
                 b == Tail(Rest(s, n))
      <4>1. u.stack[n] = <<a, b>>
        BY <3>3
      <4> HIDE DEF a, b
      <4>2. u.stack[n][1] = a /\ u.stack[n][2] = b
        BY <4>1
      <4> QED BY <4>2 DEF Node, Rest, a, b
    <3> QED BY <3>1, <3>2, <3>4
  <2>3. Follows(s, u, n)
    BY <1>6, <1>7, <2>1, <2>2 DEF Follows, Advances
  <2> QED BY <1>6, <1>7, <2>1, <2>3 DEF Stacks, X
<1>8. ASSUME st # <<>>, Last(st)[2] # <<>>, p \notin s.active \cup s.done,
             u = At(Append(Advanced(st), <<p, ToVisit(g, p)>>), s.active \cup {p}, s.done, s.cycles)
      PROVE  Pushes(g, s, u, n) /\ u = At(u.stack, u.active, u.done, u.cycles) /\ u.stack \in Stacks(g)
  <2> DEFINE e == <<p, ToVisit(g, p)>>
             a == Advanced(st)
             z == Append(a, e)
  <2>0. u = At(z, s.active \cup {p}, s.done, s.cycles)
    BY <1>8
  <2>1. u.stack = z /\ u.active = s.active \cup {p} /\ u.done = s.done /\ u.cycles = s.cycles
    <3> HIDE DEF z
    <3> QED BY <1>0, <2>0
  <2>2. e \in X /\ e[1] = p /\ e[2] = ToVisit(g, p)
    <3>1. p \in I /\ ToVisit(g, p) \in Seq(I)
      BY <1>6, <1>8, ToVisitIs
    <3> QED BY <3>1 DEF X
  <2> HIDE DEF e
  <2>3. a \in Seq(X) /\ Len(a) = n /\ n \in Nat /\ n > 0
    BY <1>6, <1>8
  <2>4. z \in Seq(X) /\ Len(z) = n + 1 /\ z[n + 1] = e /\ \A i \in 1 .. n : z[i] = a[i]
    <3> HIDE DEF a, n
    <3> QED BY <2>2, <2>3, AppendProperties
  <2> HIDE DEF z
  <2>5. /\ SameBelow(s, u, n) /\ Depth(u) = n + 1
        /\ Node(u, n + 1) = p /\ Rest(u, n + 1) = ToVisit(g, p)
    <3>1. SameBelow(s, u, n)
      BY <1>6, <1>8, <2>1, <2>4 DEF SameBelow, st
    <3> QED BY <2>1, <2>2, <2>4, <3>1 DEF Depth, Node, Rest
  <2>6. Node(u, n) = Node(s, n) /\ Rest(u, n) = Tail(Rest(s, n))
    <3> DEFINE b == Node(s, n)
               c == Tail(Rest(s, n))
    <3>1. n \in 1 .. n
      BY <2>3
    <3>2. u.stack[n] = <<b, c>>
      BY <1>6, <1>8, <2>1, <2>4, <3>1
    <3> HIDE DEF b, c
    <3>3. u.stack[n][1] = b /\ u.stack[n][2] = c
      BY <3>2
    <3> QED BY <3>3 DEF Node, Rest, b, c
  <2>7. Pushes(g, s, u, n)
    BY <1>6, <1>8, <2>1, <2>5, <2>6 DEF Pushes, Advances
  <2>8. u = At(u.stack, u.active, u.done, u.cycles)
    BY <1>8, <2>1 DEF z, a, e
  <2> QED BY <2>1, <2>4, <2>7, <2>8 DEF Stacks, X
<1> HIDE DEF n
<1>9. \/ Ends(g, s, u)
      \/ \E k : Opens(g, s, u, k)
      \/ \E k : Closes(s, u, k)
      \/ \E k : Follows(s, u, k)
      \/ \E k : Pushes(g, s, u, k)
  BY <1>1, <1>3, <1>4, <1>5, <1>7, <1>8 DEF u
<1>10. u = At(u.stack, u.active, u.done, u.cycles) /\ u.stack \in Stacks(g)
  BY <1>1, <1>3, <1>4, <1>5, <1>7, <1>8 DEF u
<1> QED BY <1>9, <1>10 DEF u

-----------------------------------------------------------------------------
(* The path of the search *)

(* The graphs in which the search is of interest. *)
Named(g) == IsGraph(g) /\ UniqueIds(g) /\ KnownPrerequisites(g)

(* The search holds a path, of ids that are neither closed nor on it twice, each with
   prerequisites of its own still to visit. *)
Walk(g, s) ==
    /\ s = At(s.stack, s.active, s.done, s.cycles) /\ s.stack \in Stacks(g)
    /\ s.done \subseteq IdSet(g) /\ s.active \subseteq IdSet(g) /\ s.active \cap s.done = {}
    /\ \A x : x \in s.active <=> \E i \in 1 .. Depth(s) : Node(s, i) = x
    /\ \A i, j \in 1 .. Depth(s) : Node(s, i) = Node(s, j) => i = j
    /\ \A i \in 1 .. Depth(s) : /\ ToSet(Rest(s, i)) \subseteq Prerequisites(Find(g, Node(s, i)))
                                /\ IsInjective(Rest(s, i)) /\ Rest(s, i) \in Seq(IdSet(g))

(* The path that a stack holds. *)
LEMMA StackIs ==
  ASSUME NEW g, NEW s, s.stack \in Stacks(g)
  PROVE  /\ Depth(s) \in Nat
         /\ \A i \in 1 .. Depth(s) : Node(s, i) \in IdSet(g) /\ Rest(s, i) \in Seq(IdSet(g))
<1> DEFINE X == IdSet(g) \X Seq(IdSet(g))
<1>1. Len(s.stack) \in Nat
  BY LenProperties DEF Stacks
<1>2. \A i \in 1 .. Len(s.stack) : s.stack[i] \in X
  BY ElementOfSeq DEF Stacks
<1>3. \A e \in X : e[1] \in IdSet(g) /\ e[2] \in Seq(IdSet(g))
  OBVIOUS
<1> HIDE DEF X
<1> QED BY <1>1, <1>2, <1>3 DEF Depth, Node, Rest

(* What an advance does to the path. *)
LEMMA AdvanceIs ==
  ASSUME NEW g, NEW s, Walk(g, s), NEW u, NEW n, Advances(s, u, n)
  PROVE  /\ n \in Nat /\ n > 0 /\ n = Depth(s)
         /\ \A i \in 1 .. n : Node(u, i) = Node(s, i)
         /\ \A i \in 1 .. n : i < n => Rest(u, i) = Rest(s, i)
         /\ Rest(u, n) = Tail(Rest(s, n))
         /\ ToSet(Rest(s, n)) = {Head(Rest(s, n))} \cup ToSet(Rest(u, n))
         /\ Head(Rest(s, n)) \notin ToSet(Rest(u, n)) /\ IsInjective(Rest(u, n))
         /\ Rest(u, n) \in Seq(IdSet(g))
<1>1. n = Depth(s) /\ n > 0 /\ Rest(s, n) # <<>> /\ n \in Nat
  BY StackIs DEF Advances, Walk
<1>2. n \in 1 .. n
  BY <1>1
<1>3. \A i \in 1 .. n : Node(u, i) = Node(s, i)
  <2> SUFFICES ASSUME NEW i \in 1 .. n PROVE Node(u, i) = Node(s, i)
    OBVIOUS
  <2>1. CASE i = n
    BY <2>1 DEF Advances
  <2>2. CASE i < n
    BY <2>2 DEF Advances, SameBelow, Node
  <2> QED BY <1>1, <2>1, <2>2
<1>4. \A i \in 1 .. n : i < n => Rest(u, i) = Rest(s, i)
  BY DEF Advances, SameBelow, Rest
<1>5. Rest(u, n) = Tail(Rest(s, n))
  BY DEF Advances
<1>6. Rest(s, n) \in Seq(IdSet(g)) /\ IsInjective(Rest(s, n))
  BY <1>1, <1>2 DEF Walk
<1> DEFINE r == Rest(s, n)
<1> HIDE DEF r
<1>7. /\ ToSet(r) = {Head(r)} \cup ToSet(Tail(r))
      /\ IsInjective(Tail(r)) /\ Head(r) \notin ToSet(Tail(r)) /\ Tail(r) \in Seq(IdSet(g))
  BY <1>1, <1>6, HeadSet DEF r
<1> QED BY <1>1, <1>3, <1>4, <1>5, <1>7 DEF r

(* A visit keeps the path sound. *)
LEMMA WalkKeeps ==
  ASSUME NEW g, Named(g), NEW s, Walk(g, s)
  PROVE  Walk(g, Visit(g, s))
<1> DEFINE u == Visit(g, s)
           I == IdSet(g)
           Pre(x) == Prerequisites(Find(g, x))
<1>1. /\ u = At(u.stack, u.active, u.done, u.cycles) /\ u.stack \in Stacks(g)
      /\ \/ Ends(g, s, u)
         \/ \E x : Opens(g, s, u, x)
         \/ \E n : Closes(s, u, n)
         \/ \E n : Follows(s, u, n)
         \/ \E n : Pushes(g, s, u, n)
  BY VisitTurns DEF Named, Walk
<1> HIDE DEF u
<1>2. /\ s.done \subseteq I /\ s.active \subseteq I /\ s.active \cap s.done = {}
      /\ \A x : x \in s.active <=> \E i \in 1 .. Depth(s) : Node(s, i) = x
      /\ \A i, j \in 1 .. Depth(s) : Node(s, i) = Node(s, j) => i = j
      /\ \A i \in 1 .. Depth(s) : /\ ToSet(Rest(s, i)) \subseteq Pre(Node(s, i))
                                  /\ IsInjective(Rest(s, i)) /\ Rest(s, i) \in Seq(I)
  BY DEF Walk
<1>3. Depth(s) \in Nat
  BY StackIs DEF Walk
<1>4. \A x \in I : ToVisit(g, x) \in Seq(I) /\ ToSet(ToVisit(g, x)) = Pre(x) /\ IsInjective(ToVisit(g, x))
  BY ToVisitIs DEF Named
<1> DEFINE Kept1 == u.done \subseteq I /\ u.active \subseteq I /\ u.active \cap u.done = {}
           Kept2 == \A x : x \in u.active <=> \E i \in 1 .. Depth(u) : Node(u, i) = x
           Kept3 == \A i, j \in 1 .. Depth(u) : Node(u, i) = Node(u, j) => i = j
           Kept4 == \A i \in 1 .. Depth(u) : /\ ToSet(Rest(u, i)) \subseteq Pre(Node(u, i))
                                             /\ IsInjective(Rest(u, i)) /\ Rest(u, i) \in Seq(I)
<1> HIDE DEF Pre, I
<1>5. ASSUME Ends(g, s, u) PROVE Kept1 /\ Kept2 /\ Kept3 /\ Kept4
  <2>1. u = s
    BY <1>5 DEF Ends
  <2> QED BY <1>2, <2>1
<1>6. ASSUME NEW x, Opens(g, s, u, x) PROVE Kept1 /\ Kept2 /\ Kept3 /\ Kept4
  <2>1. /\ Depth(s) = 0 /\ x \in I /\ x \notin s.active \cup s.done
        /\ Depth(u) = 1 /\ Node(u, 1) = x /\ Rest(u, 1) = ToVisit(g, x)
        /\ u.active = s.active \cup {x} /\ u.done = s.done
    BY <1>6 DEF Opens, I
  <2>2. s.active = {}
    BY <1>2, <2>1
  <2>3. 1 .. Depth(u) = {1}
    BY <2>1
  <2>4. Kept1
    BY <1>2, <2>1
  <2>5. Kept2 /\ Kept3
    BY <2>1, <2>2, <2>3
  <2>6. Kept4
    BY <1>4, <2>1, <2>3
  <2> QED BY <2>4, <2>5, <2>6
<1>7. ASSUME NEW n, Closes(s, u, n) PROVE Kept1 /\ Kept2 /\ Kept3 /\ Kept4
  <2>1. /\ n = Depth(s) /\ n > 0 /\ Depth(u) = n - 1
        /\ u.active = s.active \ {Node(s, n)} /\ u.done = s.done \cup {Node(s, n)}
    BY <1>7 DEF Closes
  <2>2. \A i \in 1 .. Depth(u) : /\ i \in 1 .. Depth(s) /\ i # n
                                 /\ Node(u, i) = Node(s, i) /\ Rest(u, i) = Rest(s, i)
    <3>1. \A i \in 1 .. Depth(u) : i \in 1 .. n /\ i < n
      BY <1>3, <2>1
    <3> QED BY <1>7, <2>1, <3>1 DEF Closes, SameBelow, Node, Rest
  <2>3. n \in 1 .. Depth(s) /\ \A i \in 1 .. Depth(s) : i # n => i \in 1 .. Depth(u)
    BY <1>3, <2>1
  <2>4. Node(s, n) \in s.active
    BY <1>2, <2>3
  <2>5. Kept1
    BY <1>2, <2>1, <2>4
  <2>6. Kept2
    <3> SUFFICES ASSUME NEW x PROVE x \in u.active <=> \E i \in 1 .. Depth(u) : Node(u, i) = x
      OBVIOUS
    <3>1. ASSUME x \in u.active PROVE \E i \in 1 .. Depth(u) : Node(u, i) = x
      <4>1. x \in s.active /\ x # Node(s, n)
        BY <2>1, <3>1
      <4>2. PICK i \in 1 .. Depth(s) : Node(s, i) = x
        BY <1>2, <4>1
      <4> QED BY <2>2, <2>3, <4>1, <4>2
    <3>2. ASSUME NEW i \in 1 .. Depth(u), Node(u, i) = x PROVE x \in u.active
      <4>1. i \in 1 .. Depth(s) /\ i # n /\ Node(s, i) = x
        BY <2>2, <3>2
      <4>2. x # Node(s, n) /\ x \in s.active
        BY <1>2, <2>3, <4>1
      <4> QED BY <2>1, <4>2
    <3> QED BY <3>1, <3>2
  <2>7. Kept3
    BY <1>2, <2>2
  <2>8. Kept4
    BY <1>2, <2>2
  <2> QED BY <2>5, <2>6, <2>7, <2>8
<1>8. ASSUME NEW n, Follows(s, u, n) PROVE Kept1 /\ Kept2 /\ Kept3 /\ Kept4
  <2>1. Advances(s, u, n) /\ Depth(u) = n /\ u.active = s.active /\ u.done = s.done
    BY <1>8 DEF Follows, Advances
  <2>2. /\ n \in Nat /\ n > 0 /\ n = Depth(s)
        /\ \A i \in 1 .. n : Node(u, i) = Node(s, i)
        /\ \A i \in 1 .. n : i < n => Rest(u, i) = Rest(s, i)
        /\ ToSet(Rest(s, n)) = {Head(Rest(s, n))} \cup ToSet(Rest(u, n))
        /\ IsInjective(Rest(u, n)) /\ Rest(u, n) \in Seq(I)
    BY <2>1, AdvanceIs DEF I
  <2>3. Kept1 /\ Kept2 /\ Kept3
    BY <1>2, <2>1, <2>2
  <2>4. Kept4
    <3> SUFFICES ASSUME NEW i \in 1 .. n
                 PROVE  /\ ToSet(Rest(u, i)) \subseteq Pre(Node(u, i))
                        /\ IsInjective(Rest(u, i)) /\ Rest(u, i) \in Seq(I)
      BY <2>1
    <3>1. CASE i = n
      BY <1>2, <2>2, <3>1
    <3>2. CASE i < n
      BY <1>2, <2>2, <3>2
    <3> QED BY <2>2, <3>1, <3>2
  <2> QED BY <2>3, <2>4
<1>9. ASSUME NEW n, Pushes(g, s, u, n) PROVE Kept1 /\ Kept2 /\ Kept3 /\ Kept4
  <2> DEFINE p == Head(Rest(s, n))
  <2>1. /\ Advances(s, u, n) /\ Depth(u) = n + 1 /\ u.active = s.active \cup {p} /\ u.done = s.done
        /\ p \notin s.active \cup s.done /\ Node(u, n + 1) = p /\ Rest(u, n + 1) = ToVisit(g, p)
    BY <1>9 DEF Pushes, Advances
  <2>2. /\ n \in Nat /\ n > 0 /\ n = Depth(s)
        /\ \A i \in 1 .. n : Node(u, i) = Node(s, i)
        /\ \A i \in 1 .. n : i < n => Rest(u, i) = Rest(s, i)
        /\ ToSet(Rest(s, n)) = {p} \cup ToSet(Rest(u, n))
        /\ IsInjective(Rest(u, n)) /\ Rest(u, n) \in Seq(I)
    BY <2>1, AdvanceIs DEF I
  <2> HIDE DEF p
  <2>3. p \in I
    <3>1. Rest(s, n) \in Seq(I) /\ n \in 1 .. Depth(s)
      BY <1>2, <2>2
    <3>2. ToSet(Rest(s, n)) \subseteq I
      BY <3>1, FiniteSeqSet
    <3> QED BY <2>2, <3>2
  <2>4. \A i \in 1 .. n + 1 : i \in 1 .. n \/ i = n + 1
    BY <2>2
  <2>5. 1 .. n \subseteq 1 .. n + 1 /\ n + 1 \in 1 .. n + 1
    BY <2>2
  <2>6. Kept1
    BY <1>2, <2>1, <2>3
  <2>7. Kept2
    <3> SUFFICES ASSUME NEW x PROVE x \in u.active <=> \E i \in 1 .. n + 1 : Node(u, i) = x
      BY <2>1
    <3> QED BY <1>2, <2>1, <2>2, <2>4, <2>5
  <2>8. Kept3
    <3>1. \A i \in 1 .. n : Node(u, i) # p
      BY <1>2, <2>1, <2>2
    <3> QED BY <1>2, <2>1, <2>2, <2>4, <3>1
  <2>9. Kept4
    <3> SUFFICES ASSUME NEW i \in 1 .. n + 1
                 PROVE  /\ ToSet(Rest(u, i)) \subseteq Pre(Node(u, i))
                        /\ IsInjective(Rest(u, i)) /\ Rest(u, i) \in Seq(I)
      BY <2>1
    <3>1. CASE i = n + 1
      BY <1>4, <2>1, <2>3, <3>1
    <3>2. CASE i = n
      <4>1. i \in 1 .. n /\ i \in 1 .. Depth(s)
        BY <2>2, <3>2
      <4> QED BY <1>2, <2>2, <3>2, <4>1
    <3>3. CASE i \in 1 .. n /\ i < n
      BY <1>2, <2>2, <3>3
    <3> QED BY <2>2, <2>4, <3>1, <3>2, <3>3
  <2> QED BY <2>6, <2>7, <2>8, <2>9
<1>10. Kept1 /\ Kept2 /\ Kept3 /\ Kept4
  <2> HIDE DEF Kept1, Kept2, Kept3, Kept4
  <2> QED BY <1>1, <1>5, <1>6, <1>7, <1>8, <1>9
<1> QED BY <1>1, <1>10 DEF Walk, u, I, Pre

(* With ranks, the path goes down: it never meets itself. *)
Descends(depth, s) ==
    /\ \A i, j \in 1 .. Depth(s) : i < j => depth[Node(s, j)] < depth[Node(s, i)]
    /\ s.cycles = {}

(* Where ids have depths, a visit descends and closes no loop. *)
LEMMA DescendsKeeps ==
  ASSUME NEW g, Named(g), NEW depth, Ranks(g, depth), NEW s, Walk(g, s), Descends(depth, s)
  PROVE  Descends(depth, Visit(g, s))
<1> DEFINE u == Visit(g, s)
           I == IdSet(g)
<1>1. /\ \/ Ends(g, s, u)
         \/ \E x : Opens(g, s, u, x)
         \/ \E n : Closes(s, u, n)
         \/ \E n : Follows(s, u, n)
         \/ \E n : Pushes(g, s, u, n)
  BY VisitTurns DEF Named, Walk
<1>a. Walk(g, u)
  BY WalkKeeps
<1> HIDE DEF u
<1>2. Depth(s) \in Nat /\ \A i \in 1 .. Depth(s) : Node(s, i) \in I
  BY StackIs DEF Walk
<1>3. \A x \in I : depth[x] \in Nat /\ \A p \in Prerequisites(Find(g, x)) : p \in I /\ depth[p] < depth[x]
  BY KnownIds DEF Named, Ranks
<1>4. ASSUME NEW n, Advances(s, u, n)
      PROVE  /\ n \in Nat /\ n > 0 /\ n = Depth(s)
             /\ \A i \in 1 .. n : Node(u, i) = Node(s, i)
             /\ Head(Rest(s, n)) \in I
             /\ \A i \in 1 .. n : depth[Head(Rest(s, n))] < depth[Node(s, i)]
  <2> DEFINE p == Head(Rest(s, n))
  <2>1. /\ n \in Nat /\ n > 0 /\ n = Depth(s)
        /\ \A i \in 1 .. n : Node(u, i) = Node(s, i)
        /\ p \in ToSet(Rest(s, n))
    BY <1>4, AdvanceIs
  <2> HIDE DEF p
  <2>2. n \in 1 .. n
    BY <2>1
  <2>3. p \in Prerequisites(Find(g, Node(s, n)))
    BY <2>1, <2>2 DEF Walk
  <2>4. p \in I /\ depth[p] < depth[Node(s, n)] /\ depth[p] \in Nat
    BY <1>2, <1>3, <2>1, <2>2, <2>3
  <2>5. ASSUME NEW i \in 1 .. n PROVE depth[p] < depth[Node(s, i)]
    <3>1. i = n \/ i < n
      BY <2>1
    <3>2. depth[Node(s, i)] \in Nat /\ depth[Node(s, n)] \in Nat
      BY <1>2, <1>3, <2>1, <2>2
    <3>3. i < n => depth[Node(s, n)] < depth[Node(s, i)]
      BY <2>1, <2>2 DEF Descends
    <3> QED BY <2>4, <3>1, <3>2, <3>3
  <2> QED BY <2>1, <2>4, <2>5 DEF p
<1>5. ASSUME Ends(g, s, u) PROVE Descends(depth, u)
  BY <1>5 DEF Ends
<1>6. ASSUME NEW x, Opens(g, s, u, x) PROVE Descends(depth, u)
  <2>1. Depth(u) = 1 /\ u.cycles = s.cycles
    BY <1>6 DEF Opens
  <2>2. \A i, j \in 1 .. 1 : ~ (i < j)
    OBVIOUS
  <2> QED BY <2>1, <2>2 DEF Descends
<1>7. ASSUME NEW n, Closes(s, u, n) PROVE Descends(depth, u)
  <2>1. n = Depth(s) /\ n > 0 /\ Depth(u) = n - 1 /\ u.cycles = s.cycles
    BY <1>7 DEF Closes
  <2>2. \A i \in 1 .. Depth(u) : i \in 1 .. Depth(s) /\ Node(u, i) = Node(s, i)
    <3>1. \A i \in 1 .. Depth(u) : i \in 1 .. n /\ i < n
      BY <1>2, <2>1
    <3> QED BY <1>7, <2>1, <3>1 DEF Closes, SameBelow, Node
  <2> QED BY <2>1, <2>2 DEF Descends
<1>8. ASSUME NEW n, Follows(s, u, n) PROVE Descends(depth, u)
  <2> DEFINE p == Head(Rest(s, n))
  <2>1. /\ Advances(s, u, n) /\ Depth(u) = n
        /\ p \notin s.active => u.cycles = s.cycles
    BY <1>8 DEF Follows
  <2>2. /\ n \in Nat /\ n > 0 /\ n = Depth(s)
        /\ \A i \in 1 .. n : Node(u, i) = Node(s, i)
        /\ p \in I /\ \A i \in 1 .. n : depth[p] < depth[Node(s, i)]
    BY <1>4, <2>1
  <2> HIDE DEF p
  <2>3. ASSUME p \in s.active PROVE FALSE
    <3>1. PICK i \in 1 .. n : Node(s, i) = p
      BY <2>2, <2>3 DEF Walk
    <3>2. depth[p] < depth[p] /\ depth[p] \in Nat
      BY <1>3, <2>2, <3>1
    <3> QED BY <3>2
  <2> QED BY <2>1, <2>2, <2>3 DEF Descends
<1>9. ASSUME NEW n, Pushes(g, s, u, n) PROVE Descends(depth, u)
  <2> DEFINE p == Head(Rest(s, n))
  <2>1. /\ Advances(s, u, n) /\ Depth(u) = n + 1 /\ Node(u, n + 1) = p /\ u.cycles = s.cycles
    BY <1>9 DEF Pushes
  <2>2. /\ n \in Nat /\ n > 0 /\ n = Depth(s)
        /\ \A i \in 1 .. n : Node(u, i) = Node(s, i)
        /\ p \in I /\ \A i \in 1 .. n : depth[p] < depth[Node(s, i)]
    BY <1>4, <2>1
  <2> HIDE DEF p
  <2>3. \A i, j \in 1 .. n + 1 : i < j => i \in 1 .. n /\ (j \in 1 .. n \/ j = n + 1)
    BY <2>2
  <2> QED BY <2>1, <2>2, <2>3 DEF Descends
<1>10. Descends(depth, u)
  BY <1>1, <1>5, <1>6, <1>7, <1>8, <1>9
<1> QED BY <1>10 DEF u

-----------------------------------------------------------------------------
(* Every visit makes progress *)

(* A set with an element more is larger. *)
LEMMA StrictlyMore ==
  ASSUME NEW S, IsFiniteSet(S), NEW T, T \subseteq S, NEW x \in S, x \notin T
  PROVE  Cardinality(T) \in Nat /\ Cardinality(S) \in Nat /\ Cardinality(T) + 1 <= Cardinality(S)
<1>1. IsFiniteSet(T)
  BY FS_Subset
<1>2. IsFiniteSet(T \cup {x})
  BY <1>1, FS_AddElement
<1>3. Cardinality(T \cup {x}) = Cardinality(T) + 1
  BY <1>1, FS_AddElement
<1>4. Cardinality(T \cup {x}) <= Cardinality(S)
  <2>1. T \cup {x} \subseteq S
    OBVIOUS
  <2> QED BY <2>1, FS_Subset
<1>5. Cardinality(T) \in Nat /\ Cardinality(S) \in Nat
  BY <1>1, FS_CardinalityType
<1> QED BY <1>3, <1>4, <1>5

(* A subset is no larger. *)
LEMMA NoFewer ==
  ASSUME NEW S, IsFiniteSet(S), NEW T, T \subseteq S
  PROVE  Cardinality(T) \in Nat /\ Cardinality(S) \in Nat /\ Cardinality(T) <= Cardinality(S)
<1>1. IsFiniteSet(T) /\ Cardinality(T) <= Cardinality(S)
  BY FS_Subset
<1> QED BY <1>1, FS_CardinalityType

(* The edges that the search has followed. *)
Followed(g, s) ==
    {e \in IdSet(g) \X IdSet(g) :
        /\ e[2] \in Prerequisites(Find(g, e[1]))
        /\ \/ e[1] \in s.done
           \/ \E i \in 1 .. Depth(s) : Node(s, i) = e[1] /\ e[2] \notin ToSet(Rest(s, i))}

Measure(g, s) ==
    Cardinality(s.done) + Cardinality(s.active \cup s.done) + Cardinality(Followed(g, s))

(* Every visit but the last ones gets further. *)
LEMMA MeasureGrows ==
  ASSUME NEW g, Named(g), NEW s, Walk(g, s)
  PROVE  /\ Measure(g, s) \in Nat /\ Measure(g, Visit(g, s)) \in Nat
         /\ Ends(g, s, Visit(g, s)) \/ Measure(g, s) + 1 <= Measure(g, Visit(g, s))
<1> DEFINE u == Visit(g, s)
           I == IdSet(g)
           A(r) == r.active \cup r.done
           F(r) == Followed(g, r)
<1>1. /\ \/ Ends(g, s, u)
         \/ \E x : Opens(g, s, u, x)
         \/ \E n : Closes(s, u, n)
         \/ \E n : Follows(s, u, n)
         \/ \E n : Pushes(g, s, u, n)
  BY VisitTurns DEF Named, Walk
<1>2. Walk(g, u)
  BY WalkKeeps
<1> HIDE DEF u
<1>3. IsFiniteSet(I)
  BY GraphIs DEF Named
<1>4. ASSUME NEW r, Walk(g, r)
      PROVE  /\ r.done \subseteq I /\ A(r) \subseteq I /\ IsFiniteSet(r.done) /\ IsFiniteSet(A(r))
             /\ IsFiniteSet(F(r))
             /\ Cardinality(r.done) \in Nat /\ Cardinality(A(r)) \in Nat /\ Cardinality(F(r)) \in Nat
  <2>1. r.done \subseteq I /\ A(r) \subseteq I
    BY <1>4 DEF Walk
  <2>2. IsFiniteSet(I \X I)
    BY <1>3, FS_Product
  <2>3. F(r) \subseteq I \X I
    BY DEF Followed
  <2>4. IsFiniteSet(r.done) /\ IsFiniteSet(A(r)) /\ IsFiniteSet(F(r))
    <3> HIDE DEF A, F, I
    <3> QED BY <1>3, <2>1, <2>2, <2>3, FS_Subset
  <2> HIDE DEF A, F, I
  <2> QED BY <2>1, <2>4, FS_CardinalityType
<1>5. \A r : Measure(g, r) = Cardinality(r.done) + Cardinality(A(r)) + Cardinality(F(r))
  BY DEF Measure
<1> HIDE DEF A, F
<1>6. ASSUME s.done \subseteq u.done, A(s) \subseteq A(u), F(s) \subseteq F(u),
             \/ \E x \in u.done : x \notin s.done
             \/ \E x \in A(u) : x \notin A(s)
             \/ \E x \in F(u) : x \notin F(s)
      PROVE  Measure(g, s) + 1 <= Measure(g, u)
  <2> DEFINE a == Cardinality(s.done)
             b == Cardinality(A(s))
             c == Cardinality(F(s))
             d == Cardinality(u.done)
             e == Cardinality(A(u))
             f == Cardinality(F(u))
  <2>1. a <= d /\ b <= e /\ c <= f
    BY <1>2, <1>4, <1>6, NoFewer
  <2>2. a + 1 <= d \/ b + 1 <= e \/ c + 1 <= f
    <3>1. CASE \E x \in u.done : x \notin s.done
      BY <1>2, <1>4, <1>6, <3>1, StrictlyMore
    <3>2. CASE \E x \in A(u) : x \notin A(s)
      BY <1>2, <1>4, <1>6, <3>2, StrictlyMore
    <3>3. CASE \E x \in F(u) : x \notin F(s)
      BY <1>2, <1>4, <1>6, <3>3, StrictlyMore
    <3> QED BY <1>6, <3>1, <3>2, <3>3
  <2>3. a \in Nat /\ b \in Nat /\ c \in Nat /\ d \in Nat /\ e \in Nat /\ f \in Nat
    BY <1>2, <1>4
  <2>4. Measure(g, s) = a + b + c /\ Measure(g, u) = d + e + f
    BY <1>5
  <2> HIDE DEF a, b, c, d, e, f
  <2> QED BY <2>1, <2>2, <2>3, <2>4
<1>7. ASSUME NEW n, Advances(s, u, n), \A i \in 1 .. Depth(s) : i \in 1 .. Depth(u)
      PROVE  F(s) \subseteq F(u) /\ \E e \in F(u) : e \notin F(s)
  <2> DEFINE p == Head(Rest(s, n))
             x == Node(s, n)
             e == <<x, p>>
  <2>1. /\ n \in Nat /\ n > 0 /\ n = Depth(s)
        /\ \A i \in 1 .. n : Node(u, i) = Node(s, i)
        /\ \A i \in 1 .. n : i < n => Rest(u, i) = Rest(s, i)
        /\ ToSet(Rest(s, n)) = {p} \cup ToSet(Rest(u, n)) /\ p \notin ToSet(Rest(u, n))
    BY <1>7, AdvanceIs
  <2>2. u.done = s.done
    BY <1>7 DEF Advances
  <2>3. n \in 1 .. n /\ n \in 1 .. Depth(u)
    BY <1>7, <2>1
  <2>4. x \in I /\ x \in s.active /\ p \in I /\ p \in Prerequisites(Find(g, x)) /\ x \notin s.done
    <3>1. x \in I /\ Rest(s, n) \in Seq(I)
      BY <2>1, <2>3, StackIs DEF Walk
    <3>2. p \in I
      BY <2>1, <3>1, FiniteSeqSet
    <3>3. x \in s.active /\ x \notin s.done
      BY <2>1, <2>3 DEF Walk
    <3>4. p \in Prerequisites(Find(g, x))
      BY <2>1, <2>3 DEF Walk
    <3> QED BY <3>1, <3>2, <3>3, <3>4
  <2> HIDE DEF p, x
  <2>5. e \in F(u)
    <3>1. Node(u, n) = x
      BY <2>1, <2>3 DEF x
    <3> QED BY <2>1, <2>3, <2>4, <3>1 DEF F, Followed
  <2>6. e \notin F(s)
    <3>1. ASSUME NEW i \in 1 .. Depth(s), Node(s, i) = x PROVE p \in ToSet(Rest(s, i))
      <4>1. i = n
        BY <2>1, <2>3, <3>1 DEF Walk, x
      <4> QED BY <2>1, <4>1
    <3> QED BY <2>4, <3>1 DEF F, Followed
  <2>7. ASSUME NEW h \in F(s) PROVE h \in F(u)
    <3>1. /\ h \in I \X I /\ h[2] \in Prerequisites(Find(g, h[1]))
          /\ \/ h[1] \in s.done
             \/ \E i \in 1 .. Depth(s) : Node(s, i) = h[1] /\ h[2] \notin ToSet(Rest(s, i))
      BY <2>7 DEF F, Followed
    <3>2. CASE h[1] \in s.done
      BY <2>2, <3>1, <3>2 DEF F, Followed
    <3>3. ASSUME NEW i \in 1 .. Depth(s), Node(s, i) = h[1], h[2] \notin ToSet(Rest(s, i))
          PROVE  h \in F(u)
      <4>1. ToSet(Rest(u, i)) \subseteq ToSet(Rest(s, i))
        BY <2>1
      <4>2. i \in 1 .. Depth(u) /\ Node(u, i) = h[1] /\ h[2] \notin ToSet(Rest(u, i))
        BY <1>7, <2>1, <3>3, <4>1
      <4> QED BY <3>1, <4>2 DEF F, Followed
    <3> QED BY <3>1, <3>2, <3>3
  <2> QED BY <2>5, <2>6, <2>7
<1>8. ASSUME NEW x, Opens(g, s, u, x) PROVE Measure(g, s) + 1 <= Measure(g, u)
  <2>1. /\ Depth(s) = 0 /\ x \notin s.active \cup s.done
        /\ u.active = s.active \cup {x} /\ u.done = s.done
    BY <1>8 DEF Opens
  <2>2. F(s) \subseteq F(u)
    BY <2>1 DEF F, Followed
  <2>3. A(s) \subseteq A(u) /\ x \in A(u) /\ x \notin A(s)
    BY <2>1 DEF A
  <2> QED BY <1>6, <2>1, <2>2, <2>3
<1>9. ASSUME NEW n, Closes(s, u, n) PROVE Measure(g, s) + 1 <= Measure(g, u)
  <2>1. /\ n = Depth(s) /\ n > 0 /\ Depth(u) = n - 1 /\ Rest(s, n) = <<>>
        /\ u.active = s.active \ {Node(s, n)} /\ u.done = s.done \cup {Node(s, n)}
    BY <1>9 DEF Closes
  <2>2. Depth(s) \in Nat
    BY StackIs DEF Walk
  <2>3. \A i \in 1 .. Depth(s) : i # n => /\ i \in 1 .. Depth(u)
                                         /\ Node(u, i) = Node(s, i) /\ Rest(u, i) = Rest(s, i)
    <3>1. \A i \in 1 .. Depth(s) : i # n => i \in 1 .. Depth(u) /\ i \in 1 .. n /\ i < n
      BY <2>1, <2>2
    <3> QED BY <1>9, <3>1 DEF Closes, SameBelow, Node, Rest
  <2>4. Node(s, n) \in s.active /\ Node(s, n) \notin s.done
    <3>1. n \in 1 .. Depth(s)
      BY <2>1, <2>2
    <3> QED BY <3>1 DEF Walk
  <2>5. A(s) \subseteq A(u) /\ s.done \subseteq u.done /\ Node(s, n) \in u.done
    BY <2>1 DEF A
  <2>6. ASSUME NEW h \in F(s) PROVE h \in F(u)
    <3>1. /\ h \in I \X I /\ h[2] \in Prerequisites(Find(g, h[1]))
          /\ \/ h[1] \in s.done
             \/ \E i \in 1 .. Depth(s) : Node(s, i) = h[1] /\ h[2] \notin ToSet(Rest(s, i))
      BY <2>6 DEF F, Followed
    <3>2. h[1] \in u.done \/ \E i \in 1 .. Depth(u) : Node(u, i) = h[1] /\ h[2] \notin ToSet(Rest(u, i))
      <4>1. CASE h[1] \in s.done
        BY <2>5, <4>1
      <4>2. ASSUME NEW i \in 1 .. Depth(s), Node(s, i) = h[1], h[2] \notin ToSet(Rest(s, i))
            PROVE  h[1] \in u.done \/ \E j \in 1 .. Depth(u) : Node(u, j) = h[1] /\ h[2] \notin ToSet(Rest(u, j))
        <5>1. CASE i = n
          BY <2>5, <4>2, <5>1
        <5>2. CASE i # n
          BY <2>3, <4>2, <5>2
        <5> QED BY <5>1, <5>2
      <4> QED BY <3>1, <4>1, <4>2
    <3> QED BY <3>1, <3>2 DEF F, Followed
  <2>7. F(s) \subseteq F(u)
    BY <2>6
  <2> QED BY <1>6, <2>4, <2>5, <2>7
<1>10. ASSUME NEW n, Follows(s, u, n) PROVE Measure(g, s) + 1 <= Measure(g, u)
  <2>1. Advances(s, u, n) /\ Depth(u) = n /\ Depth(s) = n /\ u.active = s.active /\ u.done = s.done
    BY <1>10 DEF Follows, Advances
  <2>2. A(s) \subseteq A(u) /\ s.done \subseteq u.done
    BY <2>1 DEF A
  <2> QED BY <1>6, <1>7, <2>1, <2>2
<1>11. ASSUME NEW n, Pushes(g, s, u, n) PROVE Measure(g, s) + 1 <= Measure(g, u)
  <2>1. /\ Advances(s, u, n) /\ Depth(u) = n + 1 /\ Depth(s) = n
        /\ u.active = s.active \cup {Head(Rest(s, n))} /\ u.done = s.done
    BY <1>11 DEF Pushes, Advances
  <2>2. A(s) \subseteq A(u) /\ s.done \subseteq u.done
    BY <2>1 DEF A
  <2>3. Depth(s) \in Nat
    BY StackIs DEF Walk
  <2>4. \A i \in 1 .. Depth(s) : i \in 1 .. Depth(u)
    BY <2>1, <2>3
  <2> QED BY <1>6, <1>7, <2>1, <2>2, <2>4
<1>12. Measure(g, s) \in Nat /\ Measure(g, u) \in Nat
  BY <1>2, <1>4, <1>5
<1> QED BY <1>1, <1>8, <1>9, <1>10, <1>11, <1>12 DEF u

-----------------------------------------------------------------------------
(* What is closed is popped *)

(* Kahn's algorithm pops, in one more step, whatever only waits for what it has popped. *)
LEMMA PoppedGrows ==
  ASSUME NEW g, Named(g)
  PROVE  \E popped : /\ Popped(g) = popped[Len(g)]
                     /\ \A n \in 0 .. Len(g) : popped[n] \subseteq IdSet(g)
                     /\ \A n \in 1 .. Len(g) : popped[n - 1] \subseteq popped[n]
                     /\ \A n \in 1 .. Len(g) : \A x \in IdSet(g) :
                           Prerequisites(Find(g, x)) \subseteq popped[n - 1] => x \in popped[n]
<1> DEFINE N == Len(g)
           Step(S) == {g[i].id : i \in {j \in DOMAIN g : Prerequisites(g[j]) \subseteq S}}
<1>0. N \in Nat
  BY GraphIs DEF Named
<1>1. PICK popped : PoppedSteps(g, popped) /\ Popped(g) = popped[N]
  BY <1>0, PoppedUnfolds
<1>2. popped[0] = {} /\ \A n \in 1 .. N : popped[n] = Step(popped[n - 1])
  <2> HIDE DEF N
  <2> DEFINE none == {}
  <2>1. popped = [n \in 0 .. N |-> IF n = 0 THEN none ELSE Step(popped[n - 1])]
    BY <1>1, Zenon DEF PoppedSteps, N
  <2> HIDE DEF none, Step
  <2>2. popped[0] = none /\ \A n \in 1 .. N : popped[n] = Step(popped[n - 1])
    BY <1>0, <2>1
  <2> QED BY <2>2, Zenon DEF none
<1>3. \A S : Step(S) \subseteq IdSet(g)
  BY DEF IdSet
<1>4. \A S, T : S \subseteq T => Step(S) \subseteq Step(T)
  OBVIOUS
<1>5. \A x \in IdSet(g) : \A S : Prerequisites(Find(g, x)) \subseteq S => x \in Step(S)
  BY FindIs DEF Named
<1> HIDE DEF Step, N
<1> DEFINE G == {n \in Nat : n + 1 <= N => popped[n] \subseteq popped[n + 1]}
<1>6. 0 \in G
  BY <1>2
<1>7. ASSUME NEW n \in Nat, n \in G PROVE n + 1 \in G
  <2> SUFFICES ASSUME (n + 1) + 1 <= N PROVE popped[n + 1] \subseteq popped[(n + 1) + 1]
    OBVIOUS
  <2>1. n + 1 \in 1 .. N /\ (n + 1) + 1 \in 1 .. N /\ (n + 1) - 1 = n /\ ((n + 1) + 1) - 1 = n + 1 /\ n + 1 <= N
    BY <1>0
  <2>2. popped[n] \subseteq popped[n + 1]
    BY <1>7, <2>1
  <2>3. popped[n + 1] = Step(popped[n])
    BY <1>2, <2>1
  <2>4. popped[(n + 1) + 1] = Step(popped[n + 1])
    BY <1>2, <2>1
  <2> QED BY <1>4, <2>2, <2>3, <2>4
<1>8. Nat \subseteq G
  <2> HIDE DEF G
  <2> QED BY <1>6, <1>7, Upward
<1>9. \A n \in 1 .. N : popped[n - 1] \subseteq popped[n]
  <2> SUFFICES ASSUME NEW n \in 1 .. N PROVE popped[n - 1] \subseteq popped[n]
    OBVIOUS
  <2>1. n - 1 \in Nat /\ (n - 1) + 1 = n /\ n <= N
    BY <1>0
  <2>2. n - 1 \in G
    BY <1>8, <2>1
  <2> QED BY <2>1, <2>2
<1>10. \A n \in 0 .. N : popped[n] \subseteq IdSet(g)
  <2> SUFFICES ASSUME NEW n \in 0 .. N PROVE popped[n] \subseteq IdSet(g)
    OBVIOUS
  <2>1. n = 0 \/ n \in 1 .. N
    BY <1>0
  <2> QED BY <1>2, <1>3, <2>1
<1>11. \A n \in 1 .. N : \A x \in IdSet(g) : Prerequisites(Find(g, x)) \subseteq popped[n - 1] => x \in popped[n]
  BY <1>2, <1>5
<1>12. Popped(g) = popped[N]
  BY <1>1
<1> QED BY <1>9, <1>10, <1>11, <1>12 DEF N

(* What a path entry waits for is closed, still to visit, or next on the path; and what
   is closed can be popped. *)
Covered(g, s, popped) ==
    /\ \A i \in 1 .. Depth(s) : \A p \in Prerequisites(Find(g, Node(s, i))) :
          \/ p \in s.done \/ p \in ToSet(Rest(s, i))
          \/ i + 1 \in 1 .. Depth(s) /\ Node(s, i + 1) = p
    /\ s.done \subseteq popped[Cardinality(s.done)]

(* While no loop is found, what the search closes is popped. *)
LEMMA CoveredKeeps ==
  ASSUME NEW g, Named(g), NEW popped,
         \A n \in 1 .. Len(g) : popped[n - 1] \subseteq popped[n],
         \A n \in 1 .. Len(g) : \A x \in IdSet(g) :
            Prerequisites(Find(g, x)) \subseteq popped[n - 1] => x \in popped[n],
         NEW s, Walk(g, s), Visit(g, s).cycles = {}, s.cycles = {} => Covered(g, s, popped)
  PROVE  Covered(g, Visit(g, s), popped)
<1> DEFINE u == Visit(g, s)
           I == IdSet(g)
           Pre(x) == Prerequisites(Find(g, x))
           Fine(i) == \A p \in Pre(Node(u, i)) :
                         \/ p \in u.done \/ p \in ToSet(Rest(u, i))
                         \/ i + 1 \in 1 .. Depth(u) /\ Node(u, i + 1) = p
           Low == u.done \subseteq popped[Cardinality(u.done)]
<1>1. /\ \/ Ends(g, s, u)
         \/ \E x : Opens(g, s, u, x)
         \/ \E n : Closes(s, u, n)
         \/ \E n : Follows(s, u, n)
         \/ \E n : Pushes(g, s, u, n)
  BY VisitTurns DEF Named, Walk
<1>2. s.cycles = {}
  <2> HIDE DEF u
  <2>1. u.cycles = {}
    BY DEF u
  <2> QED BY <1>1, <2>1 DEF Ends, Opens, Closes, Follows, Pushes
<1>3. /\ \A i \in 1 .. Depth(s) : \A p \in Pre(Node(s, i)) :
            \/ p \in s.done \/ p \in ToSet(Rest(s, i))
            \/ i + 1 \in 1 .. Depth(s) /\ Node(s, i + 1) = p
      /\ s.done \subseteq popped[Cardinality(s.done)]
  BY <1>2 DEF Covered
<1>4. Depth(s) \in Nat /\ \A i \in 1 .. Depth(s) : Node(s, i) \in I
  BY StackIs DEF Walk
<1>5. \A x \in I : ToSet(ToVisit(g, x)) = Pre(x)
  BY ToVisitIs DEF Named
<1>6. u.cycles = {}
  OBVIOUS
<1> HIDE DEF u, Pre
<1>7. ASSUME Ends(g, s, u) PROVE Low /\ \A i \in 1 .. Depth(u) : Fine(i)
  <2>1. u = s
    BY <1>7 DEF Ends
  <2> QED BY <1>3, <2>1
<1>8. ASSUME NEW x, Opens(g, s, u, x) PROVE Low /\ \A i \in 1 .. Depth(u) : Fine(i)
  <2>1. Depth(u) = 1 /\ Node(u, 1) = x /\ Rest(u, 1) = ToVisit(g, x) /\ x \in I /\ u.done = s.done
    BY <1>8 DEF Opens
  <2>2. Fine(1)
    BY <1>5, <2>1
  <2>3. \A i \in 1 .. Depth(u) : i = 1
    BY <2>1
  <2> HIDE DEF Fine
  <2> QED BY <1>3, <2>1, <2>2, <2>3
<1>9. ASSUME NEW n, Closes(s, u, n) PROVE Low /\ \A i \in 1 .. Depth(u) : Fine(i)
  <2> DEFINE x == Node(s, n)
             k == Cardinality(s.done)
  <2>1. /\ n = Depth(s) /\ n > 0 /\ Depth(u) = n - 1 /\ Rest(s, n) = <<>> /\ u.done = s.done \cup {x}
    BY <1>9 DEF Closes
  <2>2. \A i \in 1 .. Depth(u) : /\ i \in 1 .. Depth(s) /\ i + 1 \in 1 .. Depth(s)
                                 /\ (i + 1 = n \/ (i + 1 \in 1 .. Depth(u) /\ Node(u, i + 1) = Node(s, i + 1)))
                                 /\ Node(u, i) = Node(s, i) /\ Rest(u, i) = Rest(s, i)
    <3>1. \A i \in 1 .. Depth(u) : i \in 1 .. n /\ i < n /\ i + 1 \in 1 .. n
             /\ (i + 1 = n \/ (i + 1 < n /\ i + 1 \in 1 .. Depth(u)))
      BY <1>4, <2>1
    <3> QED BY <1>9, <2>1, <3>1 DEF Closes, SameBelow, Node, Rest
  <2>3. n \in 1 .. Depth(s) /\ ~ (n + 1 \in 1 .. Depth(s))
    BY <1>4, <2>1
  <2>4. ToSet(Rest(s, n)) = {}
    BY <2>1 DEF ToSet
  <2>5. Pre(x) \subseteq s.done
    BY <1>3, <2>3, <2>4
  <2>6. x \in I /\ x \notin s.done /\ s.done \subseteq I
    BY <1>4, <2>3 DEF Walk
  <2>7. IsFiniteSet(I) /\ IsFiniteSet(s.done)
    <3>1. IsFiniteSet(I)
      BY GraphIs DEF Named
    <3> QED BY <2>6, <3>1, FS_Subset
  <2>8. Cardinality(u.done) = k + 1 /\ k \in Nat
    <3> HIDE DEF x
    <3> QED BY <2>1, <2>6, <2>7, FS_AddElement, FS_CardinalityType
  <2>9. Cardinality(I) = Len(g) /\ Len(g) \in Nat
    BY GraphIs DEF Named, UniqueIds
  <2>10. k + 1 <= Len(g)
    <3>1. k + 1 <= Cardinality(I)
      BY <2>6, <2>7, StrictlyMore
    <3> HIDE DEF I, k
    <3> QED BY <2>9, <3>1
  <2> HIDE DEF k
  <2>11. k + 1 \in 1 .. Len(g) /\ (k + 1) - 1 = k
    BY <2>8, <2>9, <2>10
  <2>12. popped[k] \subseteq popped[k + 1]
    BY <2>11
  <2>13. x \in popped[k + 1]
    <3>1. Pre(x) \subseteq popped[k]
      BY <1>3, <2>5 DEF k
    <3> QED BY <2>6, <2>11, <3>1 DEF Pre
  <2>14. Low
    BY <1>3, <2>1, <2>8, <2>12, <2>13 DEF k
  <2>15. ASSUME NEW i \in 1 .. Depth(u), NEW p \in Pre(Node(u, i))
         PROVE  \/ p \in u.done \/ p \in ToSet(Rest(u, i))
                \/ i + 1 \in 1 .. Depth(u) /\ Node(u, i + 1) = p
    <3>1. \/ p \in s.done \/ p \in ToSet(Rest(s, i))
          \/ i + 1 \in 1 .. Depth(s) /\ Node(s, i + 1) = p
      BY <1>3, <2>2
    <3>2. i + 1 = n /\ Node(s, i + 1) = p => p \in u.done
      BY <2>1
    <3> QED BY <2>1, <2>2, <3>1, <3>2
  <2> QED BY <2>14, <2>15
<1>10. ASSUME NEW n, Advances(s, u, n)
       PROVE  /\ Low /\ n \in Nat /\ n = Depth(s)
              /\ \A i \in 1 .. n : i < n => \A p \in Pre(Node(u, i)) :
                    \/ p \in u.done \/ p \in ToSet(Rest(u, i)) \/ (i + 1 \in 1 .. n /\ Node(u, i + 1) = p)
              /\ \A p \in Pre(Node(u, n)) :
                    p \in u.done \/ p \in ToSet(Rest(u, n)) \/ p = Head(Rest(s, n))
  <2>1. /\ n \in Nat /\ n > 0 /\ n = Depth(s)
        /\ \A i \in 1 .. n : Node(u, i) = Node(s, i)
        /\ \A i \in 1 .. n : i < n => Rest(u, i) = Rest(s, i)
        /\ ToSet(Rest(s, n)) = {Head(Rest(s, n))} \cup ToSet(Rest(u, n))
    BY <1>10, AdvanceIs
  <2>2. u.done = s.done
    BY <1>10 DEF Advances
  <2>3. n \in 1 .. n /\ ~ (n + 1 \in 1 .. n)
    BY <2>1
  <2>4. Low
    BY <1>3, <2>2
  <2>5. ASSUME NEW i \in 1 .. n, i < n, NEW p \in Pre(Node(u, i))
        PROVE  \/ p \in u.done \/ p \in ToSet(Rest(u, i)) \/ (i + 1 \in 1 .. n /\ Node(u, i + 1) = p)
    <3>1. i \in 1 .. Depth(s) /\ i + 1 \in 1 .. n /\ Node(u, i) = Node(s, i) /\ Rest(u, i) = Rest(s, i)
      BY <2>1, <2>5
    <3>2. Node(u, i + 1) = Node(s, i + 1)
      BY <2>1, <3>1
    <3>3. \/ p \in s.done \/ p \in ToSet(Rest(s, i))
          \/ i + 1 \in 1 .. Depth(s) /\ Node(s, i + 1) = p
      BY <1>3, <3>1
    <3>4. ToSet(Rest(u, i)) = ToSet(Rest(s, i))
      BY <3>1
    <3> QED BY <2>2, <3>1, <3>2, <3>3, <3>4, Zenon
  <2>6. ASSUME NEW p \in Pre(Node(u, n))
        PROVE  p \in u.done \/ p \in ToSet(Rest(u, n)) \/ p = Head(Rest(s, n))
    BY <1>3, <2>1, <2>2, <2>3
  <2> QED BY <2>1, <2>4, <2>5, <2>6
<1>11. ASSUME NEW n, Follows(s, u, n) PROVE Low /\ \A i \in 1 .. Depth(u) : Fine(i)
  <2>1. Advances(s, u, n) /\ Depth(u) = n /\ u.active = s.active /\ u.done = s.done
    BY <1>11 DEF Follows, Advances
  <2>2. Head(Rest(s, n)) \in s.done
    BY <1>6, <1>11 DEF Follows
  <2>3. ASSUME NEW i \in 1 .. n PROVE Fine(i)
    <3>1. CASE i = n
      BY <1>10, <2>1, <2>2, <3>1
    <3>2. CASE i < n
      BY <1>10, <2>1, <3>2
    <3>3. n \in Nat
      BY <1>10, <2>1
    <3> QED BY <3>1, <3>2, <3>3
  <2> QED BY <1>10, <2>1, <2>3
<1>12. ASSUME NEW n, Pushes(g, s, u, n) PROVE Low /\ \A i \in 1 .. Depth(u) : Fine(i)
  <2> DEFINE p == Head(Rest(s, n))
  <2>1. /\ Advances(s, u, n) /\ Depth(u) = n + 1 /\ u.done = s.done
        /\ Node(u, n + 1) = p /\ Rest(u, n + 1) = ToVisit(g, p)
    BY <1>12 DEF Pushes, Advances
  <2>2. n \in Nat /\ n = Depth(s)
    BY <1>10, <2>1
  <2>3. 1 .. n \subseteq 1 .. Depth(u) /\ n + 1 \in 1 .. Depth(u)
    BY <2>1, <2>2
  <2>4. p \in I
    <3>1. n > 0 /\ n \in 1 .. Depth(s)
      BY <2>1, <2>2 DEF Advances
    <3>2. ToSet(Rest(s, n)) \subseteq I
      <4>1. Rest(s, n) \in Seq(I)
        BY <3>1, StackIs DEF Walk
      <4> QED BY <4>1, FiniteSeqSet
    <3>3. p \in ToSet(Rest(s, n))
      BY <2>1, AdvanceIs
    <3> QED BY <3>2, <3>3
  <2>5. ASSUME NEW i \in 1 .. n + 1 PROVE Fine(i)
    <3>1. CASE i = n + 1
      <4>1. ToSet(Rest(u, i)) = Pre(Node(u, i))
        BY <1>5, <2>1, <2>4, <3>1
      <4> QED BY <4>1
    <3>2. CASE i = n
      <4>1. \A r \in Pre(Node(u, n)) : r \in u.done \/ r \in ToSet(Rest(u, n)) \/ r = p
        BY <1>10, <2>1
      <4> QED BY <2>1, <2>3, <3>2, <4>1
    <3>3. CASE i \in 1 .. n /\ i < n
      BY <1>10, <2>1, <2>3, <3>3
    <3>4. i = n + 1 \/ i = n \/ (i \in 1 .. n /\ i < n)
      BY <2>2
    <3> QED BY <3>1, <3>2, <3>3, <3>4
  <2> QED BY <1>10, <2>1, <2>5
<1>13. Low /\ \A i \in 1 .. Depth(u) : Fine(i)
  <2> HIDE DEF Low, Fine
  <2> QED BY <1>1, <1>7, <1>8, <1>9, <1>11, <1>12
<1> QED BY <1>13 DEF Covered, u, Pre

(* The edges, by their ends. *)
LEMMA FollowedFit ==
  ASSUME NEW g, Named(g), NEW s
  PROVE  /\ IsFiniteSet(Edges(g)) /\ Cardinality(Edges(g)) \in Nat
         /\ IsFiniteSet(Followed(g, s)) /\ Cardinality(Followed(g, s)) <= Cardinality(Edges(g))
<1> DEFINE E == Edges(g)
           h == [e \in E |-> <<e[1].id, e[2]>>]
           T == {h[e] : e \in E}
           Of(i) == {<<g[i], p>> : p \in Prerequisites(g[i])}
           parts == {Of(i) : i \in DOMAIN g}
<1>1. IsFiniteSet(DOMAIN g)
  <2>1. Len(g) \in Nat /\ DOMAIN g = 1 .. Len(g)
    BY GraphIs DEF Named
  <2>2. 1 \in Int /\ Len(g) \in Int
    BY <2>1
  <2> QED BY <2>1, <2>2, FS_Interval
<1>2. ASSUME NEW i \in DOMAIN g PROVE IsFiniteSet(Of(i))
  <2> DEFINE P == Prerequisites(g[i])
             q == [p \in P |-> <<g[i], p>>]
  <2>1. IsFiniteSet(P)
    BY DEF Named, IsGraph, IsDeliverable
  <2> HIDE DEF P
  <2>2. IsFiniteSet({q[p] : p \in P})
    <3> HIDE DEF q
    <3> QED BY <2>1, FiniteImage
  <2>3. {q[p] : p \in P} = {<<g[i], p>> : p \in P}
    OBVIOUS
  <2> QED BY <2>2, <2>3 DEF P
<1>3. IsFiniteSet(parts)
  <2> DEFINE o == [i \in DOMAIN g |-> Of(i)]
  <2>1. {o[i] : i \in DOMAIN g} = parts
    <3> HIDE DEF Of
    <3> QED OBVIOUS
  <2> HIDE DEF o, parts, Of
  <2>2. IsFiniteSet({o[i] : i \in DOMAIN g})
    BY <1>1, FiniteImage
  <2> QED BY <2>1, <2>2
<1>4. IsFiniteSet(E)
  <2>1. E = UNION parts
    BY Zenon DEF Edges
  <2>2. \A S \in parts : IsFiniteSet(S)
    <3> HIDE DEF Of
    <3> QED BY <1>2
  <2> HIDE DEF E, parts
  <2> QED BY <1>3, <2>1, <2>2, FS_UNION
<1>5. h \in Surjection(E, T)
  <2> HIDE DEF E
  <2> QED BY DEF Surjection
<1>6. IsFiniteSet(T) /\ Cardinality(T) <= Cardinality(E)
  <2> HIDE DEF T, h, E
  <2> QED BY <1>4, <1>5, FS_Surjection
<1>7. Followed(g, s) \subseteq T
  <2> SUFFICES ASSUME NEW e \in Followed(g, s) PROVE e \in T
    OBVIOUS
  <2>1. e \in IdSet(g) \X IdSet(g) /\ e[2] \in Prerequisites(Find(g, e[1]))
    BY DEF Followed
  <2>2. PICK i \in DOMAIN g : g[i].id = e[1] /\ Find(g, e[1]) = g[i]
    BY <2>1, FindIs DEF Named
  <2> DEFINE b == <<g[i], e[2]>>
  <2>3. b \in E
    <3>1. b \in Of(i)
      BY <2>1, <2>2
    <3>2. Of(i) \in parts
      <4> HIDE DEF Of
      <4> QED OBVIOUS
    <3>3. E = UNION parts
      BY Zenon DEF Edges
    <3> HIDE DEF E, parts, Of, b
    <3> QED BY <3>1, <3>2, <3>3
  <2>4. h[b] = <<g[i].id, e[2]>>
    <3>1. b[1] = g[i] /\ b[2] = e[2]
      OBVIOUS
    <3> HIDE DEF E, b
    <3> QED BY <2>3, <3>1
  <2>5. h[b] = e
    <3>1. e = <<e[1], e[2]>>
      BY <2>1
    <3> QED BY <2>2, <2>4, <3>1
  <2> HIDE DEF h, E, b
  <2> QED BY <2>3, <2>5
<1> HIDE DEF T, E
<1>8. IsFiniteSet(Followed(g, s)) /\ Cardinality(Followed(g, s)) <= Cardinality(T)
  BY <1>6, <1>7, FS_Subset
<1>9. Cardinality(E) \in Nat /\ Cardinality(T) \in Nat /\ Cardinality(Followed(g, s)) \in Nat
  BY <1>4, <1>6, <1>8, FS_CardinalityType
<1>10. Cardinality(Followed(g, s)) <= Cardinality(E)
  <2> DEFINE a == Cardinality(Followed(g, s))
             b == Cardinality(T)
             c == Cardinality(E)
  <2>1. a <= b /\ b <= c /\ a \in Nat /\ b \in Nat /\ c \in Nat
    BY <1>6, <1>8, <1>9
  <2> HIDE DEF a, b, c
  <2>2. a <= c
    BY <2>1
  <2> QED BY <2>2 DEF a, c
<1> QED BY <1>4, <1>8, <1>9, <1>10 DEF E

-----------------------------------------------------------------------------
(* The search and Kahn's algorithm agree *)

(* The search starts with nothing on the path. *)
LEMMA StartIs ==
  ASSUME NEW g, Named(g)
  PROVE  /\ Walk(g, CycleStart) /\ Depth(CycleStart) = 0
         /\ CycleStart.done = {} /\ CycleStart.cycles = {}
<1> DEFINE s == CycleStart
<1>1. s.stack = <<>> /\ s.active = {} /\ s.done = {} /\ s.cycles = {}
  BY DEF CycleStart
<1>2. s = At(s.stack, s.active, s.done, s.cycles)
  BY <1>1 DEF At, CycleStart
<1> HIDE DEF s
<1>3. <<>> \in Stacks(g)
  BY EmptySeq DEF Stacks
<1>4. Depth(s) = 0 /\ 1 .. 0 = {}
  BY <1>1, EmptySeq DEF Depth
<1>5. s.stack \in Stacks(g)
  BY <1>1, <1>3
<1> QED BY <1>1, <1>2, <1>4, <1>5 DEF Walk, s

(* The depth-first search finds no cycle where Kahn's algorithm pops everything. *)
THEOREM PoppedHasNoCycle ==
  ASSUME NEW g, Named(g), Popped(g) = IdSet(g)
  PROVE  FindCycles(g) = {}
<1> DEFINE K == VisitBound(g)
<1>1. K \in Nat
  <2>1. Len(g) \in Nat /\ Cardinality(Edges(g)) \in Nat
    BY GraphIs, FollowedFit DEF Named
  <2> QED BY <2>1 DEF VisitBound
<1>2. PICK after : /\ after[0] = CycleStart
                   /\ \A n \in 1 .. K : after[n] = Visit(g, after[n - 1])
                   /\ FindCycles(g) = after[K].cycles
  BY <1>1, FindCyclesUnfolds
<1>3. PICK depth : Ranks(g, depth)
  BY PoppedRanks DEF Named
<1> HIDE DEF K
<1> DEFINE G == {n \in Nat : n <= K => Walk(g, after[n]) /\ Descends(depth, after[n])}
<1>4. 0 \in G
  <2>1. Walk(g, CycleStart) /\ Depth(CycleStart) = 0 /\ CycleStart.cycles = {} /\ 1 .. 0 = {}
    BY StartIs
  <2>2. Descends(depth, CycleStart)
    BY <2>1 DEF Descends
  <2> QED BY <1>2, <2>1, <2>2
<1>5. ASSUME NEW n \in Nat, n \in G PROVE n + 1 \in G
  <2> SUFFICES ASSUME n + 1 <= K PROVE Walk(g, after[n + 1]) /\ Descends(depth, after[n + 1])
    OBVIOUS
  <2>1. n + 1 \in 1 .. K /\ (n + 1) - 1 = n /\ n <= K
    BY <1>1
  <2>2. after[n + 1] = Visit(g, after[n])
    BY <1>2, <2>1
  <2>3. Walk(g, after[n]) /\ Descends(depth, after[n])
    BY <1>5, <2>1
  <2> QED BY <1>3, <2>2, <2>3, WalkKeeps, DescendsKeeps
<1>6. K \in G
  <2> HIDE DEF G
  <2> QED BY <1>1, <1>4, <1>5, Upward
<1>7. Descends(depth, after[K])
  BY <1>1, <1>6
<1> QED BY <1>2, <1>7 DEF Descends

(* And where it finds none, everything is popped. *)
THEOREM NoCycleIsPopped ==
  ASSUME NEW g, Named(g), FindCycles(g) = {}
  PROVE  Popped(g) = IdSet(g)
<1> DEFINE K == VisitBound(g)
           I == IdSet(g)
           N == Len(g)
           E == Cardinality(Edges(g))
           Final(s) == Depth(s) = 0 /\ I \subseteq s.active \cup s.done
<1>1. K \in Nat /\ N \in Nat /\ E \in Nat /\ K = 2 * N + E /\ IsFiniteSet(I) /\ Cardinality(I) = N
  <2>1. N \in Nat /\ E \in Nat /\ IsFiniteSet(I) /\ Cardinality(I) = N
    BY GraphIs, FollowedFit DEF Named, UniqueIds
  <2>2. K = 2 * N + E
    BY DEF VisitBound
  <2> HIDE DEF K, N, E
  <2> QED BY <2>1, <2>2
<1>2. PICK after : /\ after[0] = CycleStart
                   /\ \A n \in 1 .. K : after[n] = Visit(g, after[n - 1])
                   /\ FindCycles(g) = after[K].cycles
  BY <1>1, FindCyclesUnfolds
<1>3. PICK popped : /\ Popped(g) = popped[N]
                    /\ \A n \in 0 .. N : popped[n] \subseteq I
                    /\ \A n \in 1 .. N : popped[n - 1] \subseteq popped[n]
                    /\ \A n \in 1 .. N : \A x \in I :
                          Prerequisites(Find(g, x)) \subseteq popped[n - 1] => x \in popped[n]
  BY PoppedGrows
<1> DEFINE Good(n) == /\ Walk(g, after[n])
                      /\ n <= Measure(g, after[n]) \/ Final(after[n])
                      /\ after[n].cycles = {} => Covered(g, after[n], popped)
           G == {n \in Nat : n <= K => Good(n)}
<1> HIDE DEF K, E, Final
<1>4. 0 \in G
  <2>1. /\ Walk(g, CycleStart) /\ Depth(CycleStart) = 0 /\ CycleStart.cycles = {} /\ 1 .. 0 = {}
        /\ CycleStart.done = {}
    BY StartIs
  <2>2. Covered(g, CycleStart, popped)
    BY <2>1 DEF Covered
  <2>3. Measure(g, CycleStart) \in Nat
    BY <2>1, MeasureGrows
  <2>4. 0 <= Measure(g, CycleStart)
    BY <2>3
  <2> QED BY <1>2, <2>1, <2>2, <2>4
<1>5. ASSUME NEW n \in Nat, n \in G PROVE n + 1 \in G
  <2> SUFFICES ASSUME n + 1 <= K PROVE Good(n + 1)
    OBVIOUS
  <2> DEFINE s == after[n]
             u == after[n + 1]
  <2>1. n + 1 \in 1 .. K /\ (n + 1) - 1 = n /\ n <= K
    BY <1>1
  <2>2. u = Visit(g, s)
    BY <1>2, <2>1
  <2>3. Walk(g, s) /\ (n <= Measure(g, s) \/ Final(s)) /\ (s.cycles = {} => Covered(g, s, popped))
    BY <1>5, <2>1
  <2> HIDE DEF s, u
  <2>4. Walk(g, u)
    BY <2>2, <2>3, WalkKeeps
  <2>5. u.cycles = {} => Covered(g, u, popped)
    BY <1>3, <2>2, <2>3, CoveredKeeps
  <2>6. n + 1 <= Measure(g, u) \/ Final(u)
    <3>1. /\ Measure(g, s) \in Nat /\ Measure(g, u) \in Nat
          /\ Ends(g, s, u) \/ Measure(g, s) + 1 <= Measure(g, u)
      BY <2>2, <2>3, MeasureGrows
    <3>2. CASE Ends(g, s, u)
      BY <3>2 DEF Ends, Final
    <3>3. CASE Final(s)
      <4>1. \/ Ends(g, s, u)
            \/ \E x : Opens(g, s, u, x)
            \/ \E k : Closes(s, u, k)
            \/ \E k : Follows(s, u, k)
            \/ \E k : Pushes(g, s, u, k)
        BY <2>2, <2>3, VisitTurns DEF Named, Walk
      <4>2. Depth(s) = 0 /\ I \subseteq s.active \cup s.done
        BY <3>3 DEF Final
      <4>3. Ends(g, s, u)
        BY <4>1, <4>2 DEF Opens, Closes, Follows, Pushes, Advances
      <4> QED BY <3>2, <4>3
    <3>4. CASE n <= Measure(g, s) /\ Measure(g, s) + 1 <= Measure(g, u)
      BY <3>1, <3>4
    <3> QED BY <2>3, <3>1, <3>2, <3>3, <3>4
  <2> QED BY <2>4, <2>5, <2>6 DEF u
<1>6. Good(K)
  <2>1. K \in G
    <3> HIDE DEF G
    <3> QED BY <1>1, <1>4, <1>5, Upward
  <2> HIDE DEF Good
  <2> QED BY <1>1, <2>1
<1> DEFINE s == after[K]
<1>7. Walk(g, s) /\ (K <= Measure(g, s) \/ Final(s)) /\ Covered(g, s, popped)
  BY <1>2, <1>6
<1> HIDE DEF s, Good, G
<1>8. s.done \subseteq I /\ s.active \cup s.done \subseteq I /\ s.done \subseteq popped[Cardinality(s.done)]
  BY <1>7 DEF Walk, Covered
<1>9. s.done = I
  <2>1. CASE Final(s)
    <3>1. Depth(s) = 0 /\ 1 .. 0 = {} /\ I \subseteq s.active \cup s.done
      BY <2>1 DEF Final
    <3>2. s.active = {}
      BY <1>7, <3>1 DEF Walk
    <3> QED BY <1>8, <3>1, <3>2
  <2>2. CASE K <= Measure(g, s)
    <3> DEFINE a == Cardinality(s.done)
               b == Cardinality(s.active \cup s.done)
               c == Cardinality(Followed(g, s))
    <3>1. a \in Nat /\ a <= N
      BY <1>1, <1>8, NoFewer
    <3>2. b \in Nat /\ b <= N
      BY <1>1, <1>8, NoFewer
    <3>3. c \in Nat /\ c <= E
      BY FollowedFit, FS_CardinalityType DEF E
    <3>4. Measure(g, s) = a + b + c
      BY DEF Measure
    <3> HIDE DEF a, b, c, N
    <3>5. a = N
      BY <1>1, <2>2, <3>1, <3>2, <3>3, <3>4
    <3> QED BY <1>1, <1>8, <3>5, FS_Subset DEF a
  <2> QED BY <1>7, <2>1, <2>2
<1>10. I \subseteq Popped(g)
  BY <1>1, <1>3, <1>8, <1>9
<1>11. Popped(g) \subseteq I
  <2>1. N \in 0 .. N
    BY <1>1
  <2> QED BY <1>3, <2>1
<1> QED BY <1>10, <1>11

-----------------------------------------------------------------------------
(* The errors of lint and the rules of a submission *)

(* Where no two places hold the same id, there are as many ids as places. *)
LEMMA DuplicatesAre ==
  ASSUME NEW g, IsGraph(g)
  PROVE  Duplicates(g) = {} <=> UniqueIds(g)
<1> DEFINE D == DOMAIN g
           N == Len(g)
           Of(x) == {i \in D : g[i].id = x}
<1>1. N \in Nat /\ D = 1 .. N /\ \A i \in D : g[i].id \in IdSet(g)
  BY GraphIs
<1>2. IsFiniteSet(D) /\ Cardinality(D) = N
  <2> HIDE DEF N, D
  <2>0. 1 \in Int /\ N \in Int
    BY <1>1
  <2>1. IsFiniteSet(1 .. N) /\ Cardinality(1 .. N) = IF 1 > N THEN 0 ELSE N - 1 + 1
    BY <2>0, FS_Interval
  <2> QED BY <1>1, <2>1
<1>3. Duplicates(g) = {x \in IdSet(g) : Cardinality(Of(x)) > 1}
  BY DEF Duplicates
<1> HIDE DEF D, N
<1>4. ASSUME UniqueIds(g) PROVE Duplicates(g) = {}
  <2> SUFFICES ASSUME NEW x \in IdSet(g), Cardinality(Of(x)) > 1 PROVE FALSE
    BY <1>3
  <2>1. PICK i \in D : g[i].id = x
    BY DEF IdSet, D
  <2>2. Of(x) = {i}
    BY <1>4, <2>1, FindIs DEF D
  <2>3. Cardinality(Of(x)) = 1
    BY <2>2, FS_Singleton, Zenon
  <2> HIDE DEF Of
  <2> QED BY <2>3
<1>5. ASSUME Duplicates(g) = {} PROVE UniqueIds(g)
  <2> DEFINE ids == [i \in D |-> g[i].id]
  <2>1. ASSUME NEW i \in D, NEW j \in D, g[i].id = g[j].id, i # j PROVE FALSE
    <3> DEFINE O == Of(g[i].id)
    <3>1. IsFiniteSet(O) /\ {i, j} \subseteq O
      BY <1>2, <2>1, FS_Subset
    <3>2. Cardinality({i, j}) = 2
      <4>1. IsFiniteSet({i}) /\ Cardinality({i}) = 1
        BY FS_Singleton
      <4>2. Cardinality({i} \cup {j}) = 2
        <5>1. ~ (j \in {i})
          BY <2>1
        <5>2. Cardinality({i} \cup {j}) = IF j \in {i} THEN Cardinality({i}) ELSE Cardinality({i}) + 1
          BY <4>1, FS_AddElement, Zenon
        <5> QED BY <4>1, <5>1, <5>2
      <4>3. {i} \cup {j} = {i, j}
        OBVIOUS
      <4> QED BY <4>2, <4>3
    <3>3. Cardinality({i, j}) <= Cardinality(O) /\ Cardinality(O) \in Nat
      <4> HIDE DEF O
      <4> QED BY <3>1, FS_Subset, FS_CardinalityType
    <3>4. Cardinality(O) > 1
      <4> HIDE DEF O
      <4> QED BY <3>2, <3>3
    <3>5. g[i].id \in IdSet(g)
      BY <1>1
    <3> QED BY <1>3, <1>5, <3>4, <3>5
  <2>2. ids \in Bijection(D, IdSet(g))
    <3>1. ids \in Surjection(D, IdSet(g))
      BY DEF Surjection, IdSet, D
    <3>2. ids \in Injection(D, IdSet(g))
      <4>1. ids \in [D -> IdSet(g)]
        BY <1>1
      <4>2. \A i, j \in D : ids[i] = ids[j] => i = j
        BY <2>1
      <4>3. DOMAIN ids = D
        OBVIOUS
      <4> HIDE DEF ids
      <4> QED BY <4>1, <4>2, <4>3 DEF Injection, IsInjective
    <3> QED BY <3>1, <3>2 DEF Bijection
  <2>3. Cardinality(IdSet(g)) = Cardinality(D)
    BY <1>2, <2>2, FS_Bijection DEF ExistsBijection
  <2> QED BY <1>2, <2>3 DEF UniqueIds, N
<1> QED BY <1>4, <1>5

(* Lint has an error to report exactly when a rule, other than the barrier, is
   broken. *)
Refuses(g) ==
    \/ {START, FINISH} \cap IdSet(g) # {}
    \/ ~ UniqueIds(g)
    \/ \E i \in DOMAIN g : ValueProblem(g[i])
    \/ ~ KnownPrerequisites(g)
    \/ \E i, j \in DOMAIN g : i < j /\ UnorderedClash(g, i, j)
    \/ Popped(g) # IdSet(g)

(* Lint names every prerequisite that is not in the graph. *)
LEMMA UnknownFindingsAre ==
  ASSUME NEW g
  PROVE  UnknownFindings(g) = {} <=> KnownPrerequisites(g)
<1>1. ASSUME NEW i \in DOMAIN g, NEW p \in Prerequisites(g[i]), p \notin IdSet(g)
      PROVE  UnknownFindings(g) # {}
  <2> DEFINE e == <<g[i], p>>
  <2>1. e \in Edges(g) /\ e[2] = p
    BY DEF Edges
  <2> HIDE DEF e
  <2>2. Finding("UNKNOWN_PREREQUISITE", <<e[1].id, e[2]>>) \in UnknownFindings(g)
    BY <1>1, <2>1 DEF UnknownFindings
  <2> QED BY <2>2
<1>2. ASSUME KnownPrerequisites(g), NEW e \in Edges(g) PROVE e[2] \in IdSet(g)
  <2>1. PICK i \in DOMAIN g : \E p \in Prerequisites(g[i]) : e = <<g[i], p>>
    BY <1>2 DEF Edges
  <2> QED BY <1>2, <2>1 DEF KnownPrerequisites
<1>3. KnownPrerequisites(g) => UnknownFindings(g) = {}
  BY <1>2 DEF UnknownFindings
<1> QED BY <1>1, <1>3 DEF KnownPrerequisites

(* And every pair of claims that clashes. *)
LEMMA OverlapFindingsAre ==
  ASSUME NEW g
  PROVE  OverlapFindings(g) = {} <=> \A i, j \in DOMAIN g : i < j => ~ UnorderedClash(g, i, j)
<1> DEFINE K == {ij \in (DOMAIN g) \X (DOMAIN g) : ij[1] < ij[2] /\ UnorderedClash(g, ij[1], ij[2])}
<1>1. OverlapFindings(g) = {Finding("UNORDERED_FILE_OVERLAP", <<g[k[1]].id, g[k[2]].id>>) : k \in K}
  BY DEF OverlapFindings
<1>2. K = {} <=> \A i, j \in DOMAIN g : i < j => ~ UnorderedClash(g, i, j)
  <2>1. ASSUME NEW i \in DOMAIN g, NEW j \in DOMAIN g, i < j, UnorderedClash(g, i, j)
        PROVE  K # {}
    <3>1. <<i, j>> \in K
      BY <2>1
    <3> QED BY <3>1
  <2>2. ASSUME NEW k \in K
        PROVE  k[1] \in DOMAIN g /\ k[2] \in DOMAIN g /\ k[1] < k[2] /\ UnorderedClash(g, k[1], k[2])
    OBVIOUS
  <2> HIDE DEF K
  <2> QED BY <2>1, <2>2
<1> HIDE DEF K
<1>3. OverlapFindings(g) = {} <=> K = {}
  BY <1>1
<1> QED BY <1>2, <1>3

(* It has an error for every rule that is broken, and only then. *)
LEMMA ErrorsAreRefusals ==
  ASSUME NEW g, IsGraph(g)
  PROVE  ErrorFindings(g) = {} <=> ~ Refuses(g)
<1> DEFINE A == EachId("RESERVED_ID", {START, FINISH} \cap IdSet(g))
           B == EachId("DUPLICATE_ID", Duplicates(g))
           V == {i \in DOMAIN g : ValueProblem(g[i])}
           C == {Finding("INVALID_VALUE", <<g[i].id>>) : i \in V}
           L == {Finding("CYCLE", loop) : loop \in FindCycles(g)}
<1>1. ErrorFindings(g) = A \cup B \cup C \cup UnknownFindings(g) \cup L \cup OverlapFindings(g)
  BY Zenon DEF ErrorFindings
<1>2. A = {} <=> {START, FINISH} \cap IdSet(g) = {}
  BY EachIdIs
<1>3. B = {} <=> UniqueIds(g)
  BY EachIdIs, DuplicatesAre
<1>4. C = {} <=> V = {}
  <2> HIDE DEF V
  <2> QED OBVIOUS
<1>5. V = {} <=> ~ \E i \in DOMAIN g : ValueProblem(g[i])
  OBVIOUS
<1>6. L = {} <=> FindCycles(g) = {}
  OBVIOUS
<1>7. Named(g) => (FindCycles(g) = {} <=> Popped(g) = IdSet(g))
  BY PoppedHasNoCycle, NoCycleIsPopped
<1>8. UnknownFindings(g) = {} <=> KnownPrerequisites(g)
  BY UnknownFindingsAre
<1>9. OverlapFindings(g) = {} <=> ~ \E i, j \in DOMAIN g : i < j /\ UnorderedClash(g, i, j)
  BY OverlapFindingsAre
<1> HIDE DEF A, B, C, V, L
<1>10. ErrorFindings(g) = {} <=> /\ A = {} /\ B = {} /\ C = {} /\ UnknownFindings(g) = {}
                                 /\ L = {} /\ OverlapFindings(g) = {}
  BY <1>1
<1> QED BY <1>2, <1>3, <1>4, <1>5, <1>6, <1>7, <1>8, <1>9, <1>10 DEF Refuses, Named

(* So does the whole report. *)
LEMMA LintRefuses ==
  ASSUME NEW g, IsGraph(g)
  PROVE  LintErrors(Lint(g)) = {} <=> Len(g) <= MAX_DELIVERABLES /\ ~ Refuses(g)
<1>1. Len(g) \in Nat /\ MAX_DELIVERABLES \in Nat
  BY NetworkAssumption, GraphIs
<1>2. CASE Len(g) > MAX_DELIVERABLES
  <2> DEFINE f == Finding("TOO_MANY_DELIVERABLES", <<>>)
  <2>1. Lint(g) = {f} /\ f.code = "TOO_MANY_DELIVERABLES"
    BY <1>2, TooManyIs, FindingIs
  <2> HIDE DEF f
  <2>2. f \in LintErrors(Lint(g))
    BY <2>1 DEF LintErrors, Errors
  <2> QED BY <1>1, <1>2, <2>2
<1>3. CASE Len(g) <= MAX_DELIVERABLES
  <2>1. ErrorFindings(g) \subseteq LintErrors(Lint(g))
    BY <1>3, LintIs, ErrorFindingsAre DEF LintErrors
  <2>2. ASSUME NEW f \in LintErrors(Lint(g)) PROVE f \in ErrorFindings(g)
    <3>1. f \in Lint(g) /\ f.code \in Errors
      BY DEF LintErrors
    <3>2. f \notin Remarks(g)
      BY <3>1, RemarksAre DEF RemarkCodes, Errors
    <3>3. f \notin RedundantEdges(g) /\ f \notin FeedsNoMilestone(g)
      BY <3>1, StructureIs DEF Coded, Errors
    <3> QED BY <1>3, <3>1, <3>2, <3>3, LintIs
  <2>3. LintErrors(Lint(g)) = {} <=> ErrorFindings(g) = {}
    BY <2>1, <2>2
  <2> QED BY <1>3, <2>3, ErrorsAreRefusals
<1> QED BY <1>1, <1>2, <1>3

-----------------------------------------------------------------------------
(* A graph without its barriers. *)

Unbarred(g) == [i \in DOMAIN g |-> [g[i] EXCEPT !.barrier = None]]

(* The rest of a deliverable is kept. *)
LEMMA UnbarredIs ==
  ASSUME NEW g, IsGraph(g)
  PROVE  /\ IsGraph(Unbarred(g)) /\ Len(Unbarred(g)) = Len(g) /\ DOMAIN Unbarred(g) = DOMAIN g
         /\ \A i \in DOMAIN g :
              /\ Unbarred(g)[i].id = g[i].id /\ Unbarred(g)[i].pre = g[i].pre
              /\ Unbarred(g)[i].files = g[i].files /\ Unbarred(g)[i].barrier = None
              /\ Unbarred(g)[i].duration = g[i].duration /\ Unbarred(g)[i].effort = g[i].effort
              /\ Unbarred(g)[i].estimate = g[i].estimate
<1> DEFINE New(i) == [g[i] EXCEPT !.barrier = None]
           u == Unbarred(g)
<1>1. Len(g) \in Nat /\ DOMAIN g = 1 .. Len(g) /\ \A i \in DOMAIN g : IsDeliverable(g[i])
  BY GraphIs DEF IsGraph
<1>2. u = [i \in 1 .. Len(g) |-> New(i)]
  BY <1>1 DEF Unbarred
<1>3. \A i \in DOMAIN g : IsDeliverable(New(i))
  BY <1>1, FieldKept
<1>4. ASSUME NEW i \in DOMAIN g
      PROVE  /\ New(i).id = g[i].id /\ New(i).pre = g[i].pre /\ New(i).files = g[i].files
             /\ New(i).barrier = None /\ New(i).duration = g[i].duration
             /\ New(i).effort = g[i].effort /\ New(i).estimate = g[i].estimate
  BY <1>1 DEF IsDeliverable
<1> HIDE DEF New, u
<1>5. Len(u) = Len(g) /\ DOMAIN u = 1 .. Len(g) /\ u = [i \in 1 .. Len(g) |-> u[i]]
      /\ \A i \in 1 .. Len(g) : u[i] = New(i)
  BY <1>1, <1>2
<1>6. IsGraph(u)
  BY <1>1, <1>3, <1>5 DEF IsGraph
<1> QED BY <1>1, <1>4, <1>5, <1>6 DEF u

(* What lint looks at does not depend on the barriers. *)
LEMMA UnbarredRules ==
  ASSUME NEW g, IsGraph(g)
  PROVE  /\ IdSet(Unbarred(g)) = IdSet(g)
         /\ UniqueIds(Unbarred(g)) <=> UniqueIds(g)
         /\ \A i \in DOMAIN g : ValueProblem(Unbarred(g)[i]) <=> ValueProblem(g[i])
         /\ KnownPrerequisites(Unbarred(g)) <=> KnownPrerequisites(g)
         /\ \A i, j \in DOMAIN g : UnorderedClash(Unbarred(g), i, j) <=> UnorderedClash(g, i, j)
         /\ Popped(Unbarred(g)) = Popped(g)
<1> DEFINE u == Unbarred(g)
           D == DOMAIN g
<1>1. /\ IsGraph(u) /\ Len(u) = Len(g) /\ DOMAIN u = D /\ Len(g) \in Nat /\ D = 1 .. Len(g)
      /\ \A i \in D : /\ u[i].id = g[i].id /\ u[i].pre = g[i].pre /\ u[i].files = g[i].files
                      /\ u[i].duration = g[i].duration /\ u[i].effort = g[i].effort
                      /\ u[i].estimate = g[i].estimate
  BY UnbarredIs, GraphIs
<1> HIDE DEF u, D
<1>2. \A i \in D : Prerequisites(u[i]) = Prerequisites(g[i])
  BY <1>1 DEF Prerequisites
<1>3. IdSet(u) = IdSet(g)
  BY <1>1 DEF IdSet, D
<1>4. UniqueIds(u) <=> UniqueIds(g)
  BY <1>1, <1>3 DEF UniqueIds
<1>5. \A i \in D : ValueProblem(u[i]) <=> ValueProblem(g[i])
  BY <1>1, <1>2 DEF ValueProblem
<1>6. KnownPrerequisites(u) <=> KnownPrerequisites(g)
  BY <1>1, <1>2, <1>3 DEF KnownPrerequisites, D
<1>7. \A y : Dependents(u, y) = Dependents(g, y)
  BY <1>1, <1>2 DEF Dependents, D
<1>8. \A x : Reach(u, x) = Reach(g, x)
  BY <1>1, <1>7, ReachSame
<1>9. ASSUME NEW i \in D, NEW j \in D PROVE UnorderedClash(u, i, j) <=> UnorderedClash(g, i, j)
  <2>1. Ordered(u, u[i].id, u[j].id) <=> Ordered(g, g[i].id, g[j].id)
    BY <1>1, <1>8 DEF Ordered
  <2> QED BY <1>1, <2>1 DEF UnorderedClash
<1>10. Popped(u) = Popped(g)
  <2> DEFINE N == Len(g)
             Step(s) == {g[i].id : i \in {j \in D : Prerequisites(g[j]) \subseteq s}}
  <2>1. PICK f : PoppedSteps(g, f) /\ Popped(g) = f[N]
    BY <1>1, PoppedUnfolds
  <2>2. PICK h : PoppedSteps(u, h) /\ Popped(u) = h[N]
    BY <1>1, PoppedUnfolds
  <2>3. f = [n \in 0 .. N |-> IF n = 0 THEN {} ELSE Step(f[n - 1])]
    BY <2>1, Zenon DEF PoppedSteps, D
  <2>4. h = [n \in 0 .. N |-> IF n = 0 THEN {} ELSE Step(h[n - 1])]
    <3> DEFINE StepU(s) == {u[i].id : i \in {j \in DOMAIN u : Prerequisites(u[j]) \subseteq s}}
    <3>1. ASSUME NEW s PROVE StepU(s) = Step(s)
      <4>1. {j \in DOMAIN u : Prerequisites(u[j]) \subseteq s} = {j \in D : Prerequisites(g[j]) \subseteq s}
        BY <1>1, <1>2
      <4> QED BY <1>1, <4>1
    <3>2. h = [n \in 0 .. N |-> IF n = 0 THEN {} ELSE StepU(h[n - 1])]
      BY <1>1, <2>2, Zenon DEF PoppedSteps
    <3> HIDE DEF Step, StepU
    <3> QED BY <3>1, <3>2
  <2> DEFINE G == {n \in Nat : n <= N => f[n] = h[n]}
  <2>5. N \in Nat
    BY <1>1
  <2> HIDE DEF N, Step
  <2>6. 0 \in G
    <3>1. 0 \in 0 .. N
      BY <2>5
    <3> QED BY <2>3, <2>4, <3>1
  <2>7. ASSUME NEW n \in Nat, n \in G PROVE n + 1 \in G
    <3> SUFFICES ASSUME n + 1 <= N PROVE f[n + 1] = h[n + 1]
      OBVIOUS
    <3>1. n + 1 \in 0 .. N /\ n + 1 # 0 /\ (n + 1) - 1 = n /\ n <= N
      BY <2>5
    <3>2. f[n] = h[n]
      BY <2>7, <3>1
    <3>3. f[n + 1] = Step(f[n]) /\ h[n + 1] = Step(h[n])
      BY <2>3, <2>4, <3>1
    <3> QED BY <3>2, <3>3
  <2>8. N \in G
    <3> HIDE DEF G
    <3> QED BY <2>5, <2>6, <2>7, Upward
  <2> QED BY <2>1, <2>2, <2>5, <2>8
<1> QED BY <1>3, <1>4, <1>5, <1>6, <1>9, <1>10 DEF u, D

(* What is then refused breaks one of the other rules. *)
LEMMA UnbarredIsValid ==
  ASSUME NEW g, IsGraph(g)
  PROVE  Valid(Unbarred(g)) <=> Len(g) <= MAX_DELIVERABLES /\ ~ Refuses(g)
<1> DEFINE u == Unbarred(g)
           D == DOMAIN g
<1>1. /\ Len(u) = Len(g) /\ DOMAIN u = D /\ \A i \in D : BarrierDeclared(u[i])
  BY UnbarredIs DEF BarrierDeclared
<1>2. /\ IdSet(u) = IdSet(g)
      /\ UniqueIds(u) <=> UniqueIds(g)
      /\ \A i \in D : ValueProblem(u[i]) <=> ValueProblem(g[i])
      /\ KnownPrerequisites(u) <=> KnownPrerequisites(g)
      /\ \A i, j \in D : UnorderedClash(u, i, j) <=> UnorderedClash(g, i, j)
      /\ Popped(u) = Popped(g)
  BY UnbarredRules
<1> HIDE DEF u, D
<1>3. (\A i \in D : ~ ValueProblem(u[i])) <=> ~ \E i \in D : ValueProblem(g[i])
  BY <1>2, Zenon
<1>4. (\A i, j \in D : i < j => ~ UnorderedClash(u, i, j))
        <=> ~ \E i, j \in D : i < j /\ UnorderedClash(g, i, j)
  BY <1>2, Zenon
<1> DEFINE Clear(h) == \A i, j \in D : i < j => ~ UnorderedClash(h, i, j)
           Fine(h) == \A i \in D : ~ ValueProblem(h[i])
<1>5. Valid(u) <=> /\ Len(u) <= MAX_DELIVERABLES /\ {START, FINISH} \cap IdSet(u) = {}
                   /\ UniqueIds(u) /\ Fine(u) /\ KnownPrerequisites(u)
                   /\ \A i \in D : BarrierDeclared(u[i])
                   /\ Clear(u) /\ Popped(u) = IdSet(u)
  BY <1>1, Zenon DEF Valid
<1>6. Refuses(g) <=> \/ {START, FINISH} \cap IdSet(g) # {} \/ ~ UniqueIds(g)
                     \/ \E i \in D : ValueProblem(g[i])
                     \/ ~ KnownPrerequisites(g)
                     \/ \E i, j \in D : i < j /\ UnorderedClash(g, i, j)
                     \/ Popped(g) # IdSet(g)
  BY Zenon DEF Refuses, D
<1>7. (Fine(u) <=> ~ \E i \in D : ValueProblem(g[i]))
      /\ (Clear(u) <=> ~ \E i, j \in D : i < j /\ UnorderedClash(g, i, j))
  BY <1>3, <1>4
<1> HIDE DEF Fine, Clear
<1> QED BY <1>1, <1>2, <1>5, <1>6, <1>7 DEF u

(* Lint reports an error exactly when a submission is refused. *)
THEOREM LintFindsRefusalsHolds == Spec => []LintFindsRefusals
<1>1. Current => LintFindsRefusals
  <2> SUFFICES ASSUME Current, findings # None
               PROVE  LintErrors(findings) = {} <=> Valid(Unbarred(graph))
    BY DEF LintFindsRefusals, Unbarred
  <2>1. IsGraph(graph) /\ findings = Lint(graph)
    BY DEF Current
  <2> QED BY <2>1, LintRefuses, UnbarredIsValid
<1> QED BY <1>1, CurrentHolds, PTL

-----------------------------------------------------------------------------
(* A leveled plan is feasible *)

(* A leveled plan is a schedule of its nodes. *)
LEMMA LevelIs ==
  ASSUME Current, Leveled
  PROVE  /\ sim.level = ResourceSchedule(graph, caps) /\ IsGraph(graph) /\ caps # None /\ IsClaims(caps)
         /\ sim.level.nodes = Nodes(graph) /\ sim.level.start = Placed(Nodes(graph), caps).start
         /\ sim.level.makespan = Makespan(Nodes(graph), Placed(Nodes(graph), caps))
         /\ sim.level.chain = DrivingChain(Nodes(graph), Placed(Nodes(graph), caps), caps)
         /\ DOMAIN sim.level.load = WorkPools(Nodes(graph))
         /\ \E rank : Levelable(Nodes(graph), caps, rank)
<1>1. IsGraph(graph) /\ IsClaims(caps) /\ sim # None /\ sim.level # None /\ sim = Simulation(graph, caps)
  BY DEF Current, Leveled
<1>2. LintErrors(Lint(graph)) = {} /\ Valid(graph) /\ ~ (caps # None /\ ~ Schedulable(graph, caps))
  BY <1>1 DEF Simulation
<1>3. sim = [lint |-> Lint(graph), cpm |-> ComputeCpm(graph),
             level |-> IF caps = None THEN None ELSE ResourceSchedule(graph, caps)]
  BY <1>1, <1>2 DEF Simulation
<1>4. sim.level = IF caps = None THEN None ELSE ResourceSchedule(graph, caps)
  BY <1>3
<1>5. caps # None /\ sim.level = ResourceSchedule(graph, caps) /\ Schedulable(graph, caps)
  BY <1>1, <1>2, <1>4
<1>6. \E rank : Levelable(Nodes(graph), caps, rank)
  BY <1>1, <1>2, <1>5, NodesAre
<1> DEFINE n == Nodes(graph)
           s == Placed(n, caps)
           chain == DrivingChain(n, s, caps)
           project == MapThenSumSet(LAMBDA k : n[chain[k].node].len, DOMAIN chain)
           feeding == FeedingBuffers(n, {chain[k].node : k \in DOMAIN chain})
<1>7. sim.level = [nodes |-> n, start |-> s.start, makespan |-> Makespan(n, s), chain |-> chain,
                   project |-> project, feeding |-> feeding, load |-> Loads(n)]
  BY <1>5, Zenon DEF ResourceSchedule
<1> HIDE DEF n, s, chain, project, feeding
<1>8. /\ sim.level.nodes = n /\ sim.level.start = s.start /\ sim.level.makespan = Makespan(n, s)
      /\ sim.level.chain = chain /\ sim.level.load = Loads(n)
  BY <1>7
<1>9. DOMAIN Loads(n) = WorkPools(n)
  BY DEF Loads
<1> QED BY <1>1, <1>5, <1>6, <1>8, <1>9 DEF n, s, chain

(* A leveled plan can be carried out. *)
THEOREM LevelingIsFeasibleHolds == Spec => []LevelingIsFeasible
<1>1. Current => LevelingIsFeasible
  <2> SUFFICES ASSUME Current, Leveled PROVE LevelingIsFeasible
    BY DEF LevelingIsFeasible
  <2> DEFINE n == Nodes(graph)
             s == Placed(n, caps)
  <2>1. /\ caps # None /\ IsClaims(caps) /\ sim.level.nodes = n /\ sim.level.start = s.start
        /\ DOMAIN sim.level.load = WorkPools(n) /\ IsGraph(graph)
    BY LevelIs
  <2>2. PICK rank : Levelable(n, caps, rank)
    BY LevelIs
  <2>3. \A i \in DOMAIN n :
            /\ s.start[i] \in Nat
            /\ \A p \in DOMAIN n[i].preds : s.start[i] >= s.start[p] + n[p].len + n[i].preds[p]
    BY <2>2, PrecedenceHolds
  <2>4. ASSUME NEW at \in {s.start[i] : i \in DOMAIN n}, NEW r \in WorkPools(n)
        PROVE  Claimed(n, Running(n, s, at), r) <= caps[r]
    <3>1. at \in Int
      BY <2>3
    <3>2. Claimed(n, Running(n, s, at), r) <= Capacity(caps, r)
      BY <2>2, <3>1, RunningFits
    <3>3. r \in DOMAIN caps
      <4>1. PICK i \in Work(n) : r \in DOMAIN n[i].claims
        BY DEF WorkPools
      <4>2. n[i].claims[r] \in Nat \ {0} /\ n[i].claims[r] <= Capacity(caps, r)
        BY <2>2, <4>1 DEF Levelable, Work
      <4> HIDE DEF n
      <4> QED BY <4>2 DEF Capacity
    <3> QED BY <3>2, <3>3 DEF Capacity
  <2>5. \A at : Running(n, s, at) = {i \in DOMAIN n : s.start[i] <= at /\ at < s.start[i] + n[i].len}
    BY DEF Running
  <2> HIDE DEF n, s
  <2> DEFINE m == sim.level.nodes
             start == sim.level.start
             Run(at) == {i \in DOMAIN m : start[i] <= at /\ at < start[i] + m[i].len}
  <2>6. m = n /\ start = s.start /\ \A at : Run(at) = Running(n, s, at)
    BY <2>1, <2>5
  <2>7. \A i \in DOMAIN m : \A p \in DOMAIN m[i].preds : start[i] >= start[p] + m[p].len + m[i].preds[p]
    BY <2>3, <2>6
  <2>8. \A at \in {start[i] : i \in DOMAIN m} : \A r \in DOMAIN sim.level.load :
           Claimed(m, Run(at), r) <= caps[r]
    <3> HIDE DEF m, start, Run
    <3> QED BY <2>1, <2>4, <2>6
  <2> QED BY <2>7, <2>8, Zenon DEF LevelingIsFeasible
<1> QED BY <1>1, CurrentHolds, PTL

-----------------------------------------------------------------------------
(* Its chain explains it *)

(* The driving chain accounts for the makespan. *)
THEOREM ChainExplainsMakespanHolds == Spec => []ChainExplainsMakespan
<1>1. Current => ChainExplainsMakespan
  <2> SUFFICES ASSUME Current, Leveled, graph # <<>> PROVE ChainExplainsMakespan
    BY DEF ChainExplainsMakespan
  <2> DEFINE n == Nodes(graph)
             s == Placed(n, caps)
             chain == DrivingChain(n, s, caps)
             t == Tasks(graph)
             L == Len(chain)
  <2>1. /\ sim.level.nodes = n /\ sim.level.start = s.start /\ sim.level.makespan = Makespan(n, s)
        /\ sim.level.chain = chain /\ IsGraph(graph)
    BY LevelIs
  <2>2. PICK rank : Levelable(n, caps, rank)
    BY LevelIs
  <2>3. Valid(graph) /\ sim.cpm = Calculate(t)
    BY SimulatedIs DEF Leveled
  <2>4. PICK depth : Plannable(graph, depth)
    BY <2>1, <2>3, ValidIsPlannable
  <2>5. sim.cpm.length = LongestBefore(t)[FINISH]
    BY <2>3, <2>4, ScheduleIs, CalculateIs
  <2>6. n # <<>> /\ DOMAIN n # {}
    <3>1. graph \in Seq(ToSet(graph)) /\ Len(graph) \in Nat /\ DOMAIN graph = 1 .. Len(graph)
      BY <2>1, GraphIs
    <3>2. Len(graph) # 0
      BY <3>1, EmptySeq
    <3>3. Len(n) = Len(graph) /\ DOMAIN n = DOMAIN graph
      BY <2>1, NodeIs
    <3>4. Len(n) # 0 /\ 1 \in DOMAIN n
      BY <3>1, <3>2, <3>3
    <3> HIDE DEF n
    <3> QED BY <3>4
  <2>7. /\ L \in Nat \ {0} /\ DOMAIN chain = 1 .. L
        /\ \A k \in 1 .. L : chain[k].node \in DOMAIN n
        /\ s.start[chain[1].node] = 0 /\ chain[L].node = LastOf(n, s)
        /\ \A k \in 2 .. L :
              \/ /\ chain[k].on = "dependency"
                 /\ chain[k - 1].node \in DOMAIN n[chain[k].node].preds
                 /\ Finish(n, s, chain[k - 1].node) + n[chain[k].node].preds[chain[k - 1].node]
                      = s.start[chain[k].node]
              \/ chain[k].on = "resource" /\ Finish(n, s, chain[k - 1].node) = s.start[chain[k].node]
    BY <2>2, <2>6, LinksAre
  <2>8. Makespan(n, s) \in Nat /\ Finish(n, s, LastOf(n, s)) = Makespan(n, s)
    <3>1. Placing(n, caps, s) /\ DOMAIN s.start = DOMAIN n
      BY <2>2, PlacedIs DEF Under
    <3> QED BY <2>2, <2>6, <3>1, MakespanIs
  <2>9. LongestBefore(t)[FINISH] <= Makespan(n, s) /\ LongestBefore(t)[FINISH] \in Nat
    BY <2>2, <2>4, StartsAreLate, BeforeNodes
  <2>10. (\A k \in DOMAIN chain : chain[k].on # "resource") => Makespan(n, s) = LongestBefore(t)[FINISH]
    BY <2>2, <2>4, <2>6, WithoutContention
  <2>11. \A i \in DOMAIN n : s.start[i] \in Nat /\ n[i].len \in Nat
    BY <2>2, PrecedenceHolds DEF Levelable
  <2> HIDE DEF n, s, t, chain, L
  <2> DEFINE m == sim.level.nodes
             start == sim.level.start
             c == sim.level.chain
  <2>12. m = n /\ start = s.start /\ c = chain
    BY <2>1
  <2>13. start[c[1].node] = 0
    BY <2>7, <2>12
  <2>14. start[Last(c).node] + m[Last(c).node].len = sim.level.makespan
    <3>1. Last(c) = chain[L]
      BY <2>12 DEF Last, L
    <3>2. s.start[LastOf(n, s)] + n[LastOf(n, s)].len = Makespan(n, s)
      BY <2>8 DEF Finish
    <3> HIDE DEF m, start, c
    <3> QED BY <2>1, <2>7, <2>12, <3>1, <3>2
  <2>15. ASSUME NEW k \in 2 .. Len(c)
         PROVE  start[c[k].node] = start[c[k - 1].node] + m[c[k - 1].node].len
                                   + IF c[k].on = "dependency" THEN m[c[k].node].preds[c[k - 1].node] ELSE 0
    <3>1. k \in 2 .. L /\ k - 1 \in 1 .. L
      <4>1. Len(c) = L
        BY <2>12 DEF L
      <4> QED BY <2>7, <4>1
    <3> DEFINE i == chain[k].node
               p == chain[k - 1].node
               lag == IF chain[k].on = "dependency" THEN n[i].preds[p] ELSE 0
    <3>2. p \in DOMAIN n
      BY <2>7, <3>1
    <3>3. s.start[p] \in Nat /\ n[p].len \in Nat
      BY <2>11, <3>2
    <3>4. \/ chain[k].on = "dependency" /\ s.start[p] + n[p].len + n[i].preds[p] = s.start[i]
          \/ chain[k].on = "resource" /\ s.start[p] + n[p].len = s.start[i]
      BY <2>7, <3>1 DEF Finish
    <3>5. s.start[i] = s.start[p] + n[p].len + lag
      <4>1. CASE chain[k].on = "dependency"
        <5>1. s.start[p] + n[p].len + n[i].preds[p] = s.start[i] /\ lag = n[i].preds[p]
          BY <3>4, <4>1
        <5> HIDE DEF lag, i, p
        <5> QED BY <5>1
      <4>2. CASE chain[k].on # "dependency"
        <5>1. s.start[p] + n[p].len = s.start[i] /\ lag = 0
          BY <3>4, <4>2
        <5> HIDE DEF lag, i, p
        <5> QED BY <3>3, <5>1
      <4> QED BY <4>1, <4>2
    <3> HIDE DEF c, start, m
    <3> QED BY <2>12, <3>5
  <2>16. sim.level.makespan >= sim.cpm.length
    BY <2>1, <2>5, <2>8, <2>9
  <2>17. (\A k \in DOMAIN c : c[k].on # "resource") => sim.level.makespan = sim.cpm.length
    BY <2>1, <2>5, <2>10
  <2> QED BY <2>13, <2>14, <2>15, <2>16, <2>17, Zenon DEF ChainExplainsMakespan
<1> QED BY <1>1, CurrentHolds, PTL

=============================================================================
