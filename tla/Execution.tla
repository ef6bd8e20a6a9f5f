----------------------------- MODULE Execution -----------------------------
(***************************************************************************)
(* What execution promises of one plan, without who calls, when, and which *)
(* retry budget ran out: the results that every planner operation may have *)
(* on a plan.  Leases implements it (PlanService states that) and the      *)
(* portfolio of variants is built on it.                                   *)
(***************************************************************************)
EXTENDS PlanRevision

CONSTANTS
  Graphs,            (* the graphs the plan may be submitted with or revised to *)
  Marks,             (* the statuses callers pass to mark_status           *)
  RefuseUnbaselined  (* baseline mode: TRUE for refuse, FALSE for auto     *)

ASSUME ExecutionAssumption ==
  /\ Graphs \subseteq Graph
  /\ Marks \subseteq Status
  /\ RefuseUnbaselined \in BOOLEAN

Claim == {"none", "live", "stale"}   (* stale: expired and not yet reaped  *)

Plan == [graph    : Graphs,
         status   : [Deliverable -> Status \cup {Absent}],
         claim    : [Deliverable -> Claim],
         baseline : BOOLEAN]

ValidGraphs == {g \in Graphs : ValidateGraph(g)}

NewPlan(g) == [graph    |-> g,
               status   |-> InitialStatus(g),
               claim    |-> [d \in Deliverable |-> "none"],
               baseline |-> FALSE]

Claimed(p) == {d \in Deliverable : p.claim[d] # "none"}

Stale(p) == {d \in Deliverable : p.claim[d] = "stale"}

LiveIn(p) == {d \in Deliverable : p.claim[d] = "live"}

(* What is complete stands on complete prerequisites. *)
Closed(p) ==
  \A d \in p.graph.ids :
    p.status[d] = "complete" => PrereqsComplete(p.graph, p.status, d)

(* The leases of lost end and their deliverables are re-derived. *)
Ended(p, lost) ==
  [p EXCEPT !.status = Rederived(p.graph, p.status, lost),
            !.claim  = [d \in Deliverable |->
                          IF d \in lost THEN "none" ELSE p.claim[d]]]

(* A call reaps the leases that had expired at its timestamp: of the stale *)
(* ones, those that are old enough.                                        *)
Reaps(p) == {Ended(p, lost) : lost \in SUBSET Stale(p)}

(* The execution baseline is there, or auto mode takes it. *)
MayExecute(p) == p.baseline \/ ~ RefuseUnbaselined

-----------------------------------------------------------------------------
(* The results of the operations on p *)

(* The deliverables the circuit breaker fails. *)
Trips(p) ==
  {[p EXCEPT !.status = [d \in Deliverable |->
                           IF d \in broken THEN "failed" ELSE p.status[d]]] :
     broken \in SUBSET {d \in p.graph.ids : p.status[d] = "ready"}}

(* The cohorts that may be leased: unclaimed work, ready to go, whose      *)
(* files clash with no claim and with none of each other.                  *)
Cohorts(p) ==
  {cohort \in SUBSET {d \in p.graph.ids \ Claimed(p) :
                        ~ p.graph.manual[d] /\ Reacquirable(p.graph, p.status, d)} :
     \A d \in cohort : \A e \in Claimed(p) \cup (cohort \ {d}) :
       ~ FilesClash(p.graph, d, e)}

Grant(p, cohort, claim) ==
  IF cohort = {} THEN p
  ELSE [p EXCEPT !.status = [d \in Deliverable |->
                               IF d \in cohort THEN "in_progress" ELSE p.status[d]],
                 !.claim  = [d \in Deliverable |->
                               IF d \in cohort THEN claim ELSE p.claim[d]],
                 !.baseline = TRUE]

Acquired(p) ==
  UNION {{Grant(q, cohort, claim) :
            cohort \in {c \in Cohorts(q) : c = {} \/ MayExecute(p)},
            claim \in {"live", "stale"}} : q \in UNION {Trips(r) : r \in Reaps(p)}}

Finished(p, d) == [p EXCEPT !.status = Completed(p.graph, p.status, d),
                            !.claim[d] = "none"]

(* Without a lease, superseded work cannot be marked at all and complete   *)
(* work only complete.                                                     *)
Markable(p) ==
  {d \in p.graph.ids :
     p.claim[d] # "none" \/ p.status[d] \notin {"superseded_revision", "complete"}}

(* Marked complete by the holder, or by anyone once the prerequisites are. *)
MarkedComplete(p) ==
  {[Finished(p, d) EXCEPT !.baseline = TRUE] :
     d \in {e \in Markable(p) :
              /\ "complete" \in Marks /\ MayExecute(p)
              /\ p.claim[e] # "none" \/ PrereqsComplete(p.graph, p.status, e)}}

MarkedFailed(p) ==
  {[p EXCEPT !.status[d] = "failed", !.claim[d] = "none"] :
     d \in {e \in Markable(p) : "failed" \in Marks}}

MarkedAs(p, d, s) ==
  [p EXCEPT !.status[d] = s,
            !.baseline = IF s = "in_progress" THEN TRUE ELSE p.baseline]

(* Any other mark keeps the lease of a holder. *)
MarkedOpen(p) ==
  UNION {{MarkedAs(p, d, s) :
            d \in {e \in Markable(p) :
                     /\ s = "in_progress" => MayExecute(p)
                     /\ (p.claim[e] = "none" /\ s \in {"ready", "in_progress"})
                          => PrereqsComplete(p.graph, p.status, e)}} :
         s \in Marks \ {"complete", "failed"}}

(* A heartbeat: the timestamp may be so old that the lease stays stale.    *)
Renewed(p) ==
  {[p EXCEPT !.claim[d] = claim] : d \in Claimed(p), claim \in {"live", "stale"}}

(* accept: a live lease is overridden at the operator's word.              *)
Accepted(p) ==
  UNION {{q} \cup {Finished(q, d) :
                     d \in {e \in q.graph.ids :
                              /\ q.status[e] # "complete"
                              /\ PrereqsComplete(q.graph, q.status, e)}} :
         q \in Reaps(p)}

(* force_release: ready whatever it was, and failed work re-derived when   *)
(* its counters are reset.                                                 *)
Released(p) ==
  {[p EXCEPT !.status[d] = "ready", !.claim[d] = "none"] : d \in Claimed(p)}
  \cup {Ended(p, {d}) : d \in {e \in p.graph.ids : p.status[e] = "failed"}}

Baselined(p) == {[p EXCEPT !.baseline = TRUE]}

(* What a caller, an operator or the coordinator may do to a plan that may *)
(* be executed.                                                            *)
Executed(p) ==
  Baselined(p) \cup Renewed(p) \cup Released(p) \cup MarkedFailed(p)
  \cup MarkedOpen(p) \cup MarkedComplete(p) \cup Accepted(p) \cup Acquired(p)

(* The plan is revised to graph new, by a caller who may force it.         *)
Revised(p, new) ==
  UNION {
    LET leased  == Claimed(q)
        carried == (leased \cap new.ids) \ Superseded(q.graph, new, q.status, leased)
        revised == RevisedStatus(q.graph, new, q.status, leased)
        Keep(kept) ==
          [q EXCEPT !.graph  = new,
                    !.status = Rederived(new, revised, carried \ kept),
                    !.claim  = [d \in Deliverable |->
                                  IF d \in kept THEN q.claim[d] ELSE "none"]]
    IN  {Keep({d \in carried : evictor[d] = NoBarrier}) :
           evictor \in {e \in [carried -> carried \cup {NoBarrier}] :
                          Evictions(q.graph, new, carried, e)}} : q \in Reaps(p)}

(* Time passes and leases expire. *)
Expired(p) ==
  {[p EXCEPT !.claim = [d \in Deliverable |->
                          IF d \in D THEN "stale" ELSE p.claim[d]]] :
     D \in SUBSET LiveIn(p)}

=============================================================================
