------------------------------- MODULE Triage -------------------------------
(***************************************************************************)
(* What plan.review does with a valid graph and the judge's answers        *)
(* (src/src/review.rs): the questions it selects, how it reads the         *)
(* answers, the proposals it drafts and verifies by simulation, and the    *)
(* coverage of the edges it reports.  Probabilities are percentages, and   *)
(* hours are tenths of an hour.                                            *)
(***************************************************************************)
EXTENDS Leveling, Linting

CONSTANTS
    SPLIT_MIN_HOURS,
    MISSING_DEPENDENCY_TOP_K,
    MAX_SIGNAL_GROUP,
    MAX_DIR_DEPTH,
    Directory,          \* [path -> the components of its directory]
    ShortTexts,         \* what edges say in fewer than 24 bytes
    MergeIds            \* ids that contain "merge"

ASSUME TriageAssumption ==
    None \notin {"artifact", "independence"} /\ MISSING_DEPENDENCY_TOP_K \in Nat

FINDING_MIN_PROBABILITY == 50
FALSE_DEPENDENCY_PROPOSAL_P == 80
CRASH_PROPOSAL_CONFIDENCE == 60
MENTION_WEIGHT == 3
SHARED_DIR_WEIGHT == 2
NESTED_DIR_WEIGHT == 1
SHARED_OWNER_WEIGHT == 1

-----------------------------------------------------------------------------
(* simulate: lint, the rules of a submission, the kernel, and the leveling when there
   are capacities.  None when it fails. *)

Simulation(g, caps) ==
    LET findings == Lint(g)
    IN  IF LintErrors(findings) # {} \/ ~ Valid(g) THEN None
        ELSE IF caps # None /\ ~ Schedulable(g, caps) THEN None
        ELSE [lint |-> findings, cpm |-> ComputeCpm(g),
              level |-> IF caps = None THEN None ELSE ResourceSchedule(g, caps)]

SimulatedMakespan(sim) == IF sim.level = None THEN sim.cpm.length ELSE sim.level.makespan

-----------------------------------------------------------------------------
(* Candidates: who is asked about, most important first.  A candidate of an edge is
   about <<prerequisite, dependent>>. *)

Candidate(kind, ids, side) == [kind |-> kind, ids |-> ids, side |-> side]

(* S in the order of rank, a tuple of numbers compared component by component: the
   k-th has k - 1 lower ones. *)
Lower(a, b) == \E k \in DOMAIN a : a[k] < b[k] /\ \A l \in 1 .. k - 1 : a[l] = b[l]
Ranked(S, rank(_)) ==
    LET r == [x \in S |-> rank(x)]
    IN  [k \in 1 .. Cardinality(S) |->
           CHOOSE x \in S : Cardinality({y \in S : Lower(r[y], r[x])}) = k - 1]

Flag(b) == IF b THEN 0 ELSE 1       \* what holds ranks first

WorkItems(g) == {x \in IdSet(g) : ~ Find(g, x).milestone /\ ScheduledLength(Find(g, x)) > 0}

LengthOf(g, x) == ScheduledLength(Find(g, x))

LongestFirst(g, kind, S) ==
    LET Rank(x) == <<0 - LengthOf(g, x), x>>
        ids == Ranked(S, Rank)
    IN  [i \in DOMAIN ids |-> Candidate(kind, <<ids[i]>>, None)]

CrashCandidates(g, cpm) == LongestFirst(g, "crash_option", WorkItems(g) \cap cpm.critical)

(* An edge as <<prerequisite, dependent>>. *)
EdgePairs(g) == {<<e[2], e[1].id>> : e \in Edges(g)}

EdgeSays(g, e) == Find(g, e[2]).pre[e[1]].consumes

Tier(cpm, e) == 2 - Cardinality({e[1], e[2]} \cap cpm.critical)

(* The text of the edge is missing, too short to name an artifact, or on other edges
   as well. *)
Generic(g, e) ==
    \/ EdgeSays(g, e) \in ShortTexts \cup {None}
    \/ \E f \in EdgePairs(g) : f # e /\ EdgeSays(g, f) = EdgeSays(g, e)

EdgeRank(g, cpm, e) ==
    <<Flag(\E k \in 1 .. 2 : Find(g, e[k]).milestone \/ e[k] \in MergeIds),
      0 - Cardinality({f \in EdgePairs(g) : f[1] = e[1]}),
      Flag(Generic(g, e)), Tier(cpm, e), 0 - LengthOf(g, e[1]), e[1], e[2]>>

RankedEdges(g, cpm) == Ranked(EdgePairs(g), LAMBDA e : EdgeRank(g, cpm, e))

(* Two questions for each edge: does it name an artifact, could the dependent be built
   without it. *)
FalseDependencyCandidates(g, cpm) ==
    LET edges == RankedEdges(g, cpm)
    IN  FlattenSeq([i \in DOMAIN edges |->
                      <<Candidate("false_dependency", edges[i], "artifact"),
                        Candidate("false_dependency", edges[i], "independence")>>])

InterfaceSplitCandidates(g, cpm) ==
    LET split == {e \in EdgePairs(g) : /\ {e[1], e[2]} \subseteq cpm.critical
                                       /\ ~ Find(g, e[2]).pre[e[1]].interface}
        Rank(e) == <<0 - LengthOf(g, e[1]), e[1], e[2]>>
        edges == Ranked(split, Rank)
    IN  [i \in DOMAIN edges |-> Candidate("interface_split", edges[i], None)]

(* Twice the median length of the work items. *)
TwiceMedian(g) ==
    LET ranked == Ranked(WorkItems(g), LAMBDA x : <<LengthOf(g, x), x>>)
        n == Len(ranked)
        At(k) == LengthOf(g, ranked[k])
    IN  IF n % 2 = 1 THEN 2 * At((n + 1) \div 2) ELSE At(n \div 2) + At(n \div 2 + 1)

SplitCandidates(g) ==
    LongestFirst(g, "split_candidate",
                 {x \in WorkItems(g) : \/ LengthOf(g, x) >= SPLIT_MIN_HOURS
                                       \/ LengthOf(g, x) >= TwiceMedian(g)})

-----------------------------------------------------------------------------
(* Missing dependencies: unordered pairs with a reason to suspect one.  The code stops
   at MAX_CANDIDATE_PAIRS (10,000) pairs of one signal, which takes more deliverables
   than a model can have: here every pair is considered. *)

Pairs(S) == {p \in S \X S : p[1] < p[2]}

(* Those that carry a signal: not the top level, and not too deep. *)
DirectoriesOf(d) ==
    {dir \in {Directory[f] : f \in DOMAIN d.files} : Len(dir) \in 1 .. MAX_DIR_DEPTH}

(* Those with a file in the directory, or below it. *)
OwnersIn(g, dir) == {x \in IdSet(g) : dir \in DirectoriesOf(Find(g, x))}
Subtree(g, dir) ==
    {owned \in IdSet(g) \X {Directory[f] : f \in DOMAIN Directory} :
        owned[2] \in DirectoriesOf(Find(g, owned[1])) /\ IsPrefix(dir, owned[2])}

SharedDirectory(g, p) ==
    \E dir \in DirectoriesOf(Find(g, p[1])) \cap DirectoriesOf(Find(g, p[2])) :
        Cardinality(OwnersIn(g, dir)) <= MAX_SIGNAL_GROUP

NestedDirectory(g, p) ==
    \E k \in 1 .. 2 :
       \E upper \in DirectoriesOf(Find(g, p[k])), lower \in DirectoriesOf(Find(g, p[3 - k])) :
           IsStrictPrefix(upper, lower) /\ Cardinality(Subtree(g, upper)) <= MAX_SIGNAL_GROUP

SharedOwner(g, p) ==
    LET owner == Find(g, p[1]).owner
    IN  /\ owner # None /\ owner = Find(g, p[2]).owner
        /\ Cardinality({x \in IdSet(g) : Find(g, x).owner = owner}) <= MAX_SIGNAL_GROUP

Mentions(g, p) == p[2] \in Find(g, p[1]).mentions \/ p[1] \in Find(g, p[2]).mentions

Weight(b, w) == IF b THEN w ELSE 0

Suspicion(g, p) ==
    Weight(Mentions(g, p), MENTION_WEIGHT) + Weight(SharedOwner(g, p), SHARED_OWNER_WEIGHT)
    + IF SharedDirectory(g, p) THEN SHARED_DIR_WEIGHT
      ELSE Weight(NestedDirectory(g, p), NESTED_DIR_WEIGHT)

MissingDependencyCandidates(g) ==
    LET suspects == {p \in Pairs(IdSet(g)) : Suspicion(g, p) > 0 /\ ~ Ordered(g, p[1], p[2])}
        ranked == Ranked(suspects, LAMBDA p : <<0 - Suspicion(g, p), p[1], p[2]>>)
    IN  [i \in 1 .. Min({Len(ranked), MISSING_DEPENDENCY_TOP_K}) |->
           Candidate("missing_dependency", ranked[i], None)]

-----------------------------------------------------------------------------
(* The questions: the lists in turn, one candidate of each, until the cap. *)

CandidateLists(g, cpm) ==
    <<CrashCandidates(g, cpm), FalseDependencyCandidates(g, cpm),
      InterfaceSplitCandidates(g, cpm), SplitCandidates(g), MissingDependencyCandidates(g)>>

(* The k-th candidates of the lists that have so many. *)
Round(lists, k) ==
    Kept([l \in DOMAIN lists |-> IF k <= Len(lists[l]) THEN lists[l][k] ELSE None],
         UNION {ToSet(lists[l]) : l \in DOMAIN lists})

Interleaved(lists) ==
    FlattenSeq([k \in 1 .. Max({Len(lists[l]) : l \in DOMAIN lists}) |-> Round(lists, k)])

RoundRobin(lists, cap) ==
    LET all == Interleaved(lists) IN SubSeq(all, 1, Min({cap, Len(all)}))

-----------------------------------------------------------------------------
(* Answers.  The judge may leave a question out, or answer with something that is not
   an answer to it: None.  A choice is <<technique, probability, confidence>>, any other
   answer a probability (of the likely levels, for a split). *)

Judged(candidate, answer) ==
    IF candidate.kind = "crash_option"
    THEN [probability |-> IF answer[1] = "none" THEN 0 ELSE answer[2],
          choice |-> answer[1], confidence |-> answer[3]]
    ELSE [probability |-> answer, choice |-> None, confidence |-> answer]

(* The judged questions, by position. *)
Interpreted(asked, answers) ==
    [i \in {j \in DOMAIN asked : answers[j] # None} |-> Judged(asked[i], answers[i])]

(* Mutant of CrashEdit: more hands are booked as less work. *)
CrashEditEffort(g, x, choice) ==
    [op |-> "SetEffort", id |-> x, hours |-> (7 * LengthOf(g, x)) \div 10]

(* More hands shorten calendar time, less scope shortens what the length is read from. *)
CrashEdit(g, x, choice) ==
    [op    |-> IF choice = "add_capacity" \/ Find(g, x).duration # None
               THEN "SetDuration" ELSE "SetEffort",
     id    |-> x,
     hours |-> (7 * LengthOf(g, x)) \div 10]

(* The edit that an answer earns, with its cost. *)
Drafts(g, asked, judged) ==
    {[kind |-> "false_dependency", ids |-> asked[i].ids, cost |-> 0, choice |-> None,
      edit |-> [op |-> "RemoveEdge", from |-> asked[i].ids[1], to |-> asked[i].ids[2]]] :
        i \in {j \in DOMAIN judged : /\ asked[j].kind = "false_dependency"
                                     /\ asked[j].side = "independence"
                                     /\ judged[j].probability >= FALSE_DEPENDENCY_PROPOSAL_P}}
    \cup
    {[kind |-> "crash_option", ids |-> asked[i].ids, choice |-> judged[i].choice,
      cost |-> IF judged[i].choice = "add_capacity"
               THEN (3 * LengthOf(g, asked[i].ids[1])) \div 10 ELSE 0,
      edit |-> CrashEdit(g, asked[i].ids[1], judged[i].choice)] :
        i \in {j \in DOMAIN judged : /\ asked[j].kind = "crash_option"
                                     /\ judged[j].choice \in {"add_capacity", "reduce_scope"}
                                     /\ judged[j].confidence >= CRASH_PROPOSAL_CONFIDENCE}}

(* The edited graph is accepted and simulates, has no new issue, and saves time. *)
Verified(g, caps, base, draft) ==
    LET edited == ApplyEdits(g, <<draft.edit>>)
        after  == IF edited = None THEN None ELSE Simulation(edited, caps)
    IN  /\ after # None
        /\ Issues(after.lint) \subseteq Issues(base.lint)
        /\ SimulatedMakespan(base) - SimulatedMakespan(after) > 0

Saved(g, caps, base, draft) ==
    SimulatedMakespan(base) - SimulatedMakespan(Simulation(ApplyEdits(g, <<draft.edit>>), caps))

Proposals(g, caps, base, drafts) ==
    {[draft |-> d, saved |-> Saved(g, caps, base, d)] :
        d \in {e \in drafts : Verified(g, caps, base, e)}}

-----------------------------------------------------------------------------
(* The report. *)

(* The probability answered to one of the two questions of an edge, or None. *)
EdgeAnswer(asked, judged, e, side) ==
    LET at == {i \in DOMAIN judged : asked[i].ids = e /\ asked[i].side = side}
    IN  IF at = {} THEN None ELSE judged[CHOOSE i \in at : TRUE].probability

ReviewedEdges(g, asked, judged) ==
    {e \in EdgePairs(g) : \A side \in {"artifact", "independence"} :
                              EdgeAnswer(asked, judged, e, side) # None}

Likely(p) == p >= FINDING_MIN_PROBABILITY

(* The two answers tell one story: no artifact and independent, or an artifact and
   dependent. *)
Agree(asked, judged, e) ==
    Likely(EdgeAnswer(asked, judged, e, "artifact"))
      # Likely(EdgeAnswer(asked, judged, e, "independence"))

(* Mutant of SuspectEdges: only the answer on independence counts. *)
SuspectIndependent(g, asked, judged) ==
    {e \in ReviewedEdges(g, asked, judged) : Likely(EdgeAnswer(asked, judged, e, "independence"))}

(* Edges whose pair of answers makes them suspect. *)
SuspectEdges(g, asked, judged) ==
    {e \in ReviewedEdges(g, asked, judged) :
        ~ Agree(asked, judged, e) \/ ~ Likely(EdgeAnswer(asked, judged, e, "artifact"))}

Findings(g, asked, judged) ==
    {<<asked[i].kind, asked[i].ids>> :
        i \in {j \in DOMAIN judged : asked[j].side # "artifact" /\ Likely(judged[j].probability)}}
    \cup {<<"false_dependency", e>> : e \in SuspectEdges(g, asked, judged)}

Report(g, caps, base, asked, answers) ==
    LET judged   == Interpreted(asked, answers)
        reviewed == ReviewedEdges(g, asked, judged)
    IN  [status     |-> IF asked # <<>> /\ reviewed # EdgePairs(g) THEN "partial" ELSE "ok",
         findings   |-> Findings(g, asked, judged),
         proposals  |-> Proposals(g, caps, base, Drafts(g, asked, judged)),
         unreviewed |-> IF asked = <<>> THEN {} ELSE EdgePairs(g) \ reviewed]

=============================================================================
