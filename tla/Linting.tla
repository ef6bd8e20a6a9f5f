------------------------------ MODULE Linting ------------------------------
(***************************************************************************)
(* plan.lint (src/src/lint.rs): findings about a graph that need not be    *)
(* well formed.  A finding is a code and the ids it names; the severity    *)
(* belongs to the code.                                                    *)
(***************************************************************************)
EXTENDS Network

CONSTANT LowInformation     \* texts that name no artifact: "upstream artifact", ...

REPEATED_CONSUMES_THRESHOLD == 3
MILESTONE_FANOUT_THRESHOLD == 3

Errors == {"TOO_MANY_DELIVERABLES", "RESERVED_ID", "DUPLICATE_ID", "INVALID_VALUE",
           "UNKNOWN_PREREQUISITE", "CYCLE", "UNORDERED_FILE_OVERLAP"}
Infos == {"NO_MILESTONE", "NO_ARTIFACT"}

Finding(code, ids) == [code |-> code, ids |-> ids]

EachId(code, S) == {Finding(code, <<x>>) : x \in S}

(* The edges of g, as <<dependent, prerequisite>>. *)
Edges(g) == UNION {{<<g[i], p>> : p \in Prerequisites(g[i])} : i \in DOMAIN g}

-----------------------------------------------------------------------------
(* Cycles: a depth-first search along prerequisites, one loop per back edge.  The
   stack holds <<node, prerequisites still to visit>>. *)

(* The prerequisites to visit: their order is not part of this model. *)
ToVisit(g, x) == SetToSeq(Prerequisites(Find(g, x)) \cap IdSet(g))

Visit(g, s) ==
    LET top    == Last(s.stack)
        node   == top[1]
        rest   == Front(s.stack)
        p      == Head(top[2])
        below  == Append(rest, <<node, Tail(top[2])>>)
        onPath == [i \in DOMAIN s.stack |-> s.stack[i][1]]
    IN  IF s.stack = <<>>
        THEN LET new == {i \in DOMAIN g : g[i].id \notin s.active \cup s.done}
             IN  IF new = {} THEN s
                 ELSE [s EXCEPT !.stack = <<<<g[Min(new)].id, ToVisit(g, g[Min(new)].id)>>>>,
                                !.active = @ \cup {g[Min(new)].id}]
        ELSE IF top[2] = <<>>
             THEN [s EXCEPT !.stack = rest, !.active = @ \ {node}, !.done = @ \cup {node}]
        ELSE IF p \in s.active
             THEN LET from == CHOOSE i \in DOMAIN onPath : onPath[i] = p
                  IN  [s EXCEPT !.stack = below,
                                !.cycles = @ \cup {Append(SubSeq(onPath, from, Len(onPath)), p)}]
        ELSE IF p \in s.done
             THEN [s EXCEPT !.stack = below]
        ELSE [s EXCEPT !.stack = Append(below, <<p, ToVisit(g, p)>>), !.active = @ \cup {p}]

(* Each visit opens a node, closes it, or follows an edge. *)
FindCycles(g) ==
    LET steps == 2 * Len(g) + Cardinality(Edges(g))
        after[k \in 0 .. steps] ==
          IF k = 0 THEN [stack |-> <<>>, active |-> {}, done |-> {}, cycles |-> {}]
          ELSE Visit(g, after[k - 1])
    IN  after[steps].cycles

-----------------------------------------------------------------------------
(* Structure, of an acyclic graph whose ids are unique and known. *)

(* Mutant of RedundantEdges: any other edge that waits for p will do. *)
RedundantEdgesLoose(g) ==
    {Finding("REDUNDANT_EDGE", <<e[1].id, e[2]>>) :
        e \in {f \in Edges(g) : Cardinality(Prerequisites(f[1])) > 1}}

(* An edge to p is redundant when another prerequisite already waits for p. *)
RedundantEdges(g) ==
    {Finding("REDUNDANT_EDGE", <<e[1].id, e[2]>>) :
        e \in {f \in Edges(g) : Reach(g, f[2]) \cap Prerequisites(f[1]) # {}}}

MilestoneIds(g) == {g[i].id : i \in {j \in DOMAIN g : g[j].milestone}}

FeedsNoMilestone(g) ==
    IF MilestoneIds(g) = {} THEN {}
    ELSE EachId("FEEDS_NO_MILESTONE",
                {x \in IdSet(g) \ MilestoneIds(g) : Reach(g, x) \cap MilestoneIds(g) = {}})

-----------------------------------------------------------------------------
(* What the edges say. *)

Says(e) == e[1].pre[e[2]].consumes

Stated(g) == {e \in Edges(g) : Says(e) # None}

LowInformationFindings(g) ==
    {Finding("LOW_INFORMATION_CONSUMES", <<e[1].id, e[2]>>) :
        e \in {f \in Stated(g) : Says(f) \in LowInformation}}

(* One text on many edges: the finding names everyone on them. *)
RepeatedFindings(g) ==
    LET Saying(text) == {e \in Stated(g) : Says(e) = text}
    IN  {Finding("LOW_INFORMATION_CONSUMES",
                 SetToSortSeq(UNION {{e[1].id, e[2]} : e \in Saying(text)}, <)) :
            text \in {t \in {Says(e) : e \in Stated(g)} :
                         Cardinality(Saying(t)) >= REPEATED_CONSUMES_THRESHOLD}}

(* Where an id is used twice the last deliverable counts here: a map by id. *)
FindLast(g, x) == g[CHOOSE i \in DOMAIN g : g[i].id = x /\ \A j \in i + 1 .. Len(g) : g[j].id # x]

(* Milestones and manual merges, which many may wait for with the same words. *)
FanoutProducers(g) == {x \in IdSet(g) : FindLast(g, x).milestone \/ FindLast(g, x).manual}

FanoutFindings(g) ==
    LET Fanned(p, text) == {e[1].id : e \in {f \in Stated(g) : f[2] = p /\ Says(f) = text}}
    IN  UNION {{Finding("MILESTONE_FANOUT", <<p>> \o SetToSortSeq(Fanned(p, text), <)) :
                   text \in {t \in {Says(e) : e \in Stated(g)} :
                                Cardinality(Fanned(p, t)) >= MILESTONE_FANOUT_THRESHOLD}} :
                  p \in FanoutProducers(g)}

(* An edge says why it is there itself, or the metadata of its dependent does. *)
HasRationale(e) == Says(e) # None \/ e[2] \in e[1].legacy

RationaleFindings(g) ==
    {Finding("NO_RATIONALE", <<e[1].id, e[2]>>) : e \in {f \in Edges(g) : ~ HasRationale(f)}}
    \cup {Finding("INTERFACE_EDGE_NOT_CONTRACT", <<e[1].id, e[2]>>) :
             e \in {f \in Edges(g) : /\ f[1].pre[f[2]].interface
                                     /\ f[2] \in IdSet(g)
                                     /\ ~ Find(g, f[2]).contract}}

-----------------------------------------------------------------------------
(* Every finding. *)

Duplicates(g) == {x \in IdSet(g) : Cardinality({i \in DOMAIN g : g[i].id = x}) > 1}

UnknownFindings(g) ==
    {Finding("UNKNOWN_PREREQUISITE", <<e[1].id, e[2]>>) :
        e \in {f \in Edges(g) : f[2] \notin IdSet(g)}}

OverlapFindings(g) ==
    {Finding("UNORDERED_FILE_OVERLAP", <<g[k[1]].id, g[k[2]].id>>) :
        k \in {ij \in (DOMAIN g) \X (DOMAIN g) : ij[1] < ij[2] /\ UnorderedClash(g, ij[1], ij[2])}}

Lint(g) ==
    LET cycles == {Finding("CYCLE", loop) : loop \in FindCycles(g)}
    IN  IF Len(g) > MAX_DELIVERABLES THEN {Finding("TOO_MANY_DELIVERABLES", <<>>)}
        ELSE EachId("RESERVED_ID", {START, FINISH} \cap IdSet(g))
             \cup EachId("DUPLICATE_ID", Duplicates(g))
             \cup {Finding("INVALID_VALUE", <<g[i].id>>) : i \in {j \in DOMAIN g : ValueProblem(g[j])}}
             \cup UnknownFindings(g)
             \cup cycles
             \cup OverlapFindings(g)
             \cup RationaleFindings(g)
             \cup LowInformationFindings(g) \cup RepeatedFindings(g) \cup FanoutFindings(g)
             \cup (IF cycles = {} /\ KnownPrerequisites(g) /\ Duplicates(g) = {}
                   THEN RedundantEdges(g) \cup FeedsNoMilestone(g) ELSE {})
             \cup (IF MilestoneIds(g) = {} THEN {Finding("NO_MILESTONE", <<>>)} ELSE {})
             \cup {Finding("NO_ARTIFACT", <<g[i].id>>) :
                      i \in {j \in DOMAIN g : ~ g[j].milestone /\ ~ g[j].artifact}}

LintErrors(findings) == {f \in findings : f.code \in Errors}

(* The findings that keep a report from being clean. *)
Issues(findings) == {f \in findings : f.code \notin Infos}

=============================================================================
