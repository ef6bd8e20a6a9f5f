----------------------------- MODULE PlanFiles -----------------------------
(***************************************************************************)
(* The plan files of a project (src/src/project.rs) and the rows that      *)
(* track them (src/src/portfolio.rs), under the calls of several           *)
(* processes and the edits of a user.  Every variant has one file.  The    *)
(* database is changed in transactions, the files are not part of them:    *)
(* sync reads a file before its transaction, fork writes one before it     *)
(* registers its variant and takes it back when that fails, and export     *)
(* compares, writes and records in steps of their own.                     *)
(*                                                                         *)
(* One line of one project, whose root every process knows.  What a sync   *)
(* or a revision does to statuses and leases is in Portfolio; here it may  *)
(* be refused for them at any time (see Stop).  Archiving a single variant *)
(* guards the same calls as archiving the line and is left out.            *)
(***************************************************************************)
EXTENDS Naturals, FiniteSets

CONSTANTS
  Variant,
  Graph,       (* valid graphs, up to their canonical form                 *)
  Broken,      (* what a file holds that does not parse                    *)
  Proc,
  NoFile,
  NoRow,
  Idle,
  MaxCalls,    (* bound on the calls                                       *)
  MaxEdits     (* bound on the user's edits                                *)

ASSUME FilesAssumption ==
  /\ Broken \notin Graph
  /\ MaxCalls \in Nat
  /\ MaxEdits \in Nat

VARIABLES
  row,           (* per variant: its row and its revisions                 *)
  lineArchived,
  file,          (* per variant: the bytes of its file                     *)
  job,           (* per process: the call it is in                         *)
  calls, edits,  (* counters, for the bounds                               *)
  dirty,         (* history: files that a user wrote and no sync has read  *)
  heads,         (* history: per variant, the graphs that were its head    *)
  foreign,       (* history: files that a user, an export to an untracked  *)
                 (* path or a call that was stopped has left, not read yet *)
  overtaken      (* history: rows whose hash an export recorded after the  *)
                 (* head it had read was replaced                          *)

store   == <<row, lineArchived>>
history == <<dirty, heads, foreign, overtaken>>
vars    == <<store, file, job, calls, edits, history>>

(* The bytes of a file stand for their hash; the planner writes graphs     *)
(* pretty-printed, a user in any other form.  The canonical hash of a      *)
(* graph is the hash of no file.                                           *)
Bytes == [graph : Graph \cup {Broken}, form : {"pretty", "user"}]
Hash == Bytes \cup [graph : Graph, form : {"canonical"}]

Pretty(g)    == [graph |-> g, form |-> "pretty"]
Canonical(g) == [graph |-> g, form |-> "canonical"]
Partial      == [graph |-> Broken, form |-> "pretty"]

Row == [head : Graph, tracked : BOOLEAN, hash : Hash, recorded : SUBSET Hash]

ASSUME NoRowAssumption == NoRow \notin Row

Known(v) == row[v] # NoRow

(* definition_drift, as far as it is known: the file is there. *)
Drifts(r, bytes) == bytes # r.hash /\ bytes.graph # r.head

(* Mutant of HasLocalEdits: what does not parse holds no edits. *)
HasLocalEditsParsed(r, bytes) ==
  /\ bytes.graph # Broken
  /\ {bytes, Canonical(bytes.graph)} \cap (r.recorded \cup {r.hash, Canonical(r.head)}) = {}

(* has_local_edits: neither the bytes nor their graph is on record. *)
HasLocalEdits(r, bytes) ==
  {bytes, Canonical(bytes.graph)} \cap (r.recorded \cup {r.hash, Canonical(r.head)}) = {}

-----------------------------------------------------------------------------
(* Rows *)

Created(g, hash, tracked) ==
  [head |-> g, tracked |-> tracked, hash |-> hash, recorded |-> {hash}]

(* Mutant of Revised: the hash of the tracked file is left alone. *)
RevisedKeepsHash(r, g, hash, tracked) ==
  [r EXCEPT !.head = g, !.recorded = @ \cup {hash}, !.tracked = @ \/ tracked]

Revised(r, g, hash, tracked) ==
  [r EXCEPT !.head = g, !.hash = hash, !.recorded = @ \cup {hash},
            !.tracked = @ \/ tracked]

(* sync: create, track the file of an unchanged graph, or revise. *)
Synced(r, g, hash, tracked) ==
  CASE r = NoRow -> Created(g, hash, tracked)
    [] r # NoRow /\ r.head = g ->
         IF tracked THEN [r EXCEPT !.hash = hash, !.tracked = TRUE] ELSE r
    [] r # NoRow /\ r.head # g -> Revised(r, g, hash, tracked)

(* The row of v becomes r, with a hash that goes with its head. *)
Write(v, r) ==
  /\ row' = [row EXCEPT ![v] = r]
  /\ heads' = [heads EXCEPT ![v] = @ \cup {r.head}]
  /\ overtaken' = IF row[v] # NoRow /\ r.hash = row[v].hash THEN overtaken
                  ELSE overtaken \ {v}
  /\ UNCHANGED lineArchived

-----------------------------------------------------------------------------
(* Calls *)

Job == [pc      : {"commit", "create", "fill", "register", "undo", "remove",
                   "check", "drift", "edits", "write", "record"},
        variant : Variant,            (* whose row the call is about       *)
        target  : Variant,            (* whose file it reads or writes     *)
        graph   : Graph,
        seen    : Bytes \cup {NoFile},  (* the file, when last read        *)
        force   : BOOLEAN,
        own     : BOOLEAN,            (* the target tracked the head read  *)
        row     : Row \cup {NoRow}]

ASSUME NothingAssumption == NoFile \notin Bytes /\ Idle \notin Job

Begin(p, j) ==
  /\ job[p] = Idle
  /\ calls < MaxCalls
  /\ calls' = calls + 1
  /\ job' = [job EXCEPT ![p] = j]

Call(pc, v, t, g) ==
  [pc |-> pc, variant |-> v, target |-> t, graph |-> g, seen |-> NoFile,
   force |-> FALSE, own |-> FALSE, row |-> NoRow]

In(p, pc) == job[p] # Idle /\ job[p].pc = pc
Goto(p, pc) == job' = [job EXCEPT ![p].pc = pc]
Finish(p) == job' = [job EXCEPT ![p] = Idle]

(* The file of t becomes bytes by a call of the planner. *)
Put(t, bytes) ==
  /\ file' = [file EXCEPT ![t] = bytes]
  /\ dirty' = dirty \ {t}

(* A call of one transaction. *)
Transact == calls < MaxCalls /\ calls' = calls + 1 /\ UNCHANGED <<file, job, edits>>

SyncInline(v, g) ==
  /\ Transact
  /\ ~ lineArchived
  /\ Write(v, Synced(row[v], g, Canonical(g), FALSE))
  /\ UNCHANGED <<dirty, foreign>>

RevisePlan(v, g) ==
  /\ Transact
  /\ ~ lineArchived
  /\ Known(v) /\ row[v].head # g
  /\ Write(v, Revised(row[v], g, Canonical(g), FALSE))
  /\ UNCHANGED <<dirty, foreign>>

Archive ==
  /\ Transact
  /\ \E v \in Variant : Known(v)
  /\ lineArchived' = ~ lineArchived
  /\ UNCHANGED <<row, history>>

(* read_graph: the file is there and parses. *)
Readable(v) == file[v] # NoFile /\ file[v].graph # Broken

(* plan.sync with a path reads the file ...                                *)
SyncRead(p, v) ==
  /\ Readable(v)
  /\ Begin(p, [Call("commit", v, v, file[v].graph) EXCEPT !.seen = file[v]])
  /\ UNCHANGED <<store, file, edits, history>>

(* ... and then registers what it has read. *)
SyncCommit(p) ==
  LET j == job[p]
  IN  /\ In(p, "commit")
      /\ ~ lineArchived
      /\ Write(j.variant, Synced(row[j.variant], j.graph, j.seen, TRUE))
      /\ LET read == IF file[j.variant] = j.seen THEN {j.variant} ELSE {}
         IN  dirty' = dirty \ read /\ foreign' = foreign \ read
      /\ Finish(p)
      /\ UNCHANGED <<file, calls, edits>>

-----------------------------------------------------------------------------
(* plan.fork of variant u, whose edits make g, as the new variant v. *)
Fork(p, u, v, g) ==
  /\ ~ lineArchived
  /\ Known(u) /\ ~ Known(v)
  /\ Begin(p, Call("create", v, v, g))
  /\ UNCHANGED <<store, file, edits, history>>

(* write_new_graph, by a link: all of the file at once, or it is there.    *)
LinkFile(p) ==
  LET j == job[p]
  IN  /\ In(p, "create")
      /\ IF file[j.target] = NoFile
         THEN Put(j.target, Pretty(j.graph)) /\ Goto(p, "register")
         ELSE UNCHANGED <<file, dirty>> /\ Finish(p)
      /\ UNCHANGED <<store, calls, edits, heads, foreign, overtaken>>

(* Where links are not supported: the file is created, then written.       *)
CreateExclusive(p) ==
  LET j == job[p]
  IN  /\ In(p, "create")
      /\ file[j.target] = NoFile
      /\ Put(j.target, Partial)
      /\ Goto(p, "fill")
      /\ UNCHANGED <<store, calls, edits, heads, foreign, overtaken>>

(* A file that was replaced meanwhile is not the one that is open.         *)
FillFile(p) ==
  LET j == job[p]
  IN  /\ In(p, "fill")
      /\ IF file[j.target] = Partial THEN Put(j.target, Pretty(j.graph))
         ELSE UNCHANGED <<file, dirty>>
      /\ Goto(p, "register")
      /\ UNCHANGED <<store, calls, edits, heads, foreign, overtaken>>

Remove(t) == Put(t, NoFile) /\ foreign' = foreign \ {t}

FillFails(p) ==
  /\ In(p, "fill")
  /\ Remove(job[p].target)
  /\ Finish(p)
  /\ UNCHANGED <<store, calls, edits, heads, overtaken>>

(* sync_new. *)
Register(p) ==
  LET j == job[p]
  IN  /\ In(p, "register")
      /\ ~ lineArchived /\ ~ Known(j.variant)
      /\ Write(j.variant, Created(j.graph, Pretty(j.graph), TRUE))
      /\ Finish(p)
      /\ UNCHANGED <<file, calls, edits, dirty, foreign>>

(* Mutant of RegisterFails: the file is left behind. *)
RegisterFailsOnly(p) ==
  /\ In(p, "register")
  /\ Finish(p)
  /\ UNCHANGED <<store, file, calls, edits, history>>

(* The variant was registered meanwhile, the line archived, or the store   *)
(* has failed.                                                             *)
RegisterFails(p) ==
  /\ In(p, "register")
  /\ Goto(p, "undo")
  /\ UNCHANGED <<store, file, calls, edits, history>>

(* The commit stands, but then the receipt cannot be refreshed: write_tx   *)
(* fails all the same, and fork takes back the file of a variant that is   *)
(* registered.  (Any other call only reports a failure in this case.)      *)
RegisterUnreceipted(p) ==
  LET j == job[p]
  IN  /\ In(p, "register")
      /\ ~ lineArchived /\ ~ Known(j.variant)
      /\ Write(j.variant, Created(j.graph, Pretty(j.graph), TRUE))
      /\ Goto(p, "undo")
      /\ UNCHANGED <<file, calls, edits, dirty, foreign>>

(* remove_plan_file_if_unchanged: the hash first, ...                      *)
CheckUnchanged(p) ==
  LET j == job[p]
  IN  /\ In(p, "undo")
      /\ IF file[j.target] = Pretty(j.graph)
         THEN job' = [job EXCEPT ![p].pc = "remove", ![p].seen = file[j.target]]
         ELSE Finish(p)
      /\ UNCHANGED <<store, file, calls, edits, history>>

(* ... then the file, by its name.                                         *)
RemoveFile(p) ==
  /\ In(p, "remove")
  /\ Remove(job[p].target)
  /\ Finish(p)
  /\ UNCHANGED <<store, calls, edits, heads, overtaken>>

-----------------------------------------------------------------------------
(* plan.export of v to the file of t; force skips the check. *)
Export(p, v, t, force) ==
  /\ Known(v)
  /\ Begin(p, [Call(IF force THEN "write" ELSE "check", v, t, row[v].head)
                 EXCEPT !.force = force, !.own = (t = v /\ row[v].tracked)])
  /\ UNCHANGED <<store, file, edits, history>>

(* check_export_target reads who tracks the file: nobody, another variant  *)
(* (refused), or this one.                                                 *)
CheckTarget(p) ==
  LET j == job[p]
      tracked == Known(j.target) /\ row[j.target].tracked
  IN  /\ In(p, "check")
      /\ CASE ~ tracked -> Goto(p, "write")
           [] tracked /\ j.target # j.variant -> Finish(p)
           [] tracked /\ j.target = j.variant ->
                job' = [job EXCEPT ![p].pc = "drift", ![p].row = row[j.target]]
      /\ UNCHANGED <<store, file, calls, edits, history>>

(* It reads the file, and only if that has drifted ...                     *)
CheckDrift(p) ==
  LET j == job[p]
      bytes == file[j.target]
  IN  /\ In(p, "drift")
      /\ job' = [job EXCEPT
                   ![p].pc = IF bytes # NoFile /\ Drifts(j.row, bytes)
                             THEN "edits" ELSE "write",
                   ![p].seen = bytes]
      /\ UNCHANGED <<store, file, calls, edits, history>>

(* ... reads it again, to refuse the export over local edits.              *)
CheckEdits(p) ==
  LET j == job[p]
      bytes == file[j.target]
  IN  /\ In(p, "edits")
      /\ IF bytes # NoFile /\ HasLocalEdits(j.row, bytes)
         THEN Finish(p)
         ELSE job' = [job EXCEPT ![p].pc = "write", ![p].seen = bytes]
      /\ UNCHANGED <<store, file, calls, edits, history>>

(* write_graph: the new file is renamed into place. *)
WriteFile(p) ==
  LET j == job[p]
  IN  /\ In(p, "write")
      /\ Put(j.target, Pretty(j.graph))
      /\ IF j.own THEN Goto(p, "record") /\ foreign' = foreign \ {j.target}
         ELSE Finish(p) /\ foreign' = foreign \cup {j.target}
      /\ UNCHANGED <<store, calls, edits, heads, overtaken>>

(* set_content_hash. *)
RecordHash(p) ==
  LET j == job[p]
  IN  /\ In(p, "record")
      /\ row' = [row EXCEPT ![j.variant].hash = Pretty(j.graph)]
      /\ overtaken' = IF row[j.variant].head = j.graph THEN overtaken \ {j.variant}
                      ELSE overtaken \cup {j.variant}
      /\ Finish(p)
      /\ UNCHANGED <<lineArchived, file, calls, edits, dirty, heads, foreign>>

-----------------------------------------------------------------------------
(* A call is refused or fails where it has nothing to take back, or its    *)
(* process is killed.  A fork may leave its file: killed, or refused after *)
(* the directory of the file it has linked could not be flushed.           *)
Stop(p) ==
  LET j == job[p]
  IN  /\ j # Idle
      /\ Finish(p)
      /\ foreign' = IF j.pc \in {"fill", "register", "undo", "remove", "record"}
                    THEN foreign \cup {j.target} ELSE foreign
      /\ UNCHANGED <<store, file, calls, edits, dirty, heads, overtaken>>

Edit == edits < MaxEdits /\ edits' = edits + 1 /\ UNCHANGED <<store, job, calls>>

(* A user saves a file, or deletes it. *)
UserSaves(v, g) ==
  /\ Edit
  /\ file' = [file EXCEPT ![v] = [graph |-> g, form |-> "user"]]
  /\ dirty' = dirty \cup {v}
  /\ foreign' = foreign \cup {v}
  /\ UNCHANGED <<heads, overtaken>>

UserDeletes(v) ==
  /\ Edit
  /\ file[v] # NoFile
  /\ Remove(v)
  /\ UNCHANGED <<heads, overtaken>>

Init ==
  /\ row = [v \in Variant |-> NoRow]
  /\ lineArchived = FALSE
  /\ file = [v \in Variant |-> NoFile]
  /\ job = [p \in Proc |-> Idle]
  /\ calls = 0
  /\ edits = 0
  /\ dirty = {}
  /\ heads = [v \in Variant |-> {}]
  /\ foreign = {}
  /\ overtaken = {}

ForkStep(p) ==
  \/ LinkFile(p) \/ CreateExclusive(p) \/ FillFile(p) \/ FillFails(p)
  \/ Register(p) \/ RegisterFails(p) \/ RegisterUnreceipted(p)
  \/ CheckUnchanged(p) \/ RemoveFile(p)

ExportStep(p) ==
  \/ CheckTarget(p) \/ CheckDrift(p) \/ CheckEdits(p) \/ WriteFile(p) \/ RecordHash(p)

Next ==
  \/ \E v \in Variant, g \in Graph : SyncInline(v, g) \/ RevisePlan(v, g)
  \/ Archive
  \/ \E p \in Proc :
       \/ \E v \in Variant : SyncRead(p, v)
       \/ \E u, v \in Variant, g \in Graph : Fork(p, u, v, g)
       \/ \E v, t \in Variant, force \in BOOLEAN : Export(p, v, t, force)
       \/ SyncCommit(p)
       \/ ForkStep(p)
       \/ ExportStep(p)
       \/ Stop(p)
  \/ \E v \in Variant : \/ \E g \in Graph \cup {Broken} : UserSaves(v, g)
                        \/ UserDeletes(v)

Spec == Init /\ [][Next]_vars

-----------------------------------------------------------------------------
(* Properties *)

(* Types; a job is of a call that has begun. *)
TypeOK ==
  /\ row \in [Variant -> Row \cup {NoRow}]
  /\ lineArchived \in BOOLEAN
  /\ file \in [Variant -> Bytes \cup {NoFile}]
  /\ job \in [Proc -> Job \cup {Idle}]
  /\ calls \in 0..MaxCalls
  /\ edits \in 0..MaxEdits
  /\ dirty \subseteq Variant
  /\ heads \in [Variant -> SUBSET Graph]
  /\ foreign \subseteq Variant
  /\ overtaken \subseteq Variant

(* plan.status never reports a tracked file as matching (definition_drift) *)
(* whose graph is not the head, whatever syncs, revisions, exports, forks  *)
(* and edits have done to either; except after an export that was          *)
(* overtaken by a revision (see ExportMatchesHead).                        *)
DriftNoticed ==
  \A v \in Variant \ overtaken :
    Known(v) /\ file[v] # NoFile /\ ~ Drifts(row[v], file[v]) =>
      file[v].graph = row[v].head

(* planner.rs:1394 says of an export to the tracked file "the file now     *)
(* matches the head, so record its hash": a revision between the two       *)
(* makes it false, and hides the drift.                                    *)
ExportMatchesHead == overtaken = {}

(* A fork that fails takes its file back: a file without a row was left by *)
(* a user, an export to another path or a process that was stopped, or its *)
(* fork is still under way (planner.rs:1342).                              *)
FailedForkLeavesNoFile ==
  \A v \in Variant :
    file[v] # NoFile /\ ~ Known(v) =>
      \/ v \in foreign
      \/ \E p \in Proc : \E pc \in {"fill", "register", "undo", "remove"} :
           In(p, pc) /\ job[p].target = v

(* planner.rs:1342 says of the file that is taken back "The fork was never *)
(* registered"; RegisterUnreceipted makes it false.                        *)
TakenBackIsUnregistered ==
  [][\A p \in Proc : In(p, "register") /\ job'[p] # Idle => row' = row]_vars

(* No call destroys a user's work: the edits of a tracked file that no     *)
(* sync has read and no revision holds are only replaced or removed by a   *)
(* forced export, or by a call that looked at the file before they were    *)
(* saved (check_export_target, remove_plan_file_if_unchanged).             *)
UserEditsKept ==
  [][\A v \in Variant :
       v \in dirty /\ Known(v) /\ row[v].tracked
         /\ file[v].graph \notin heads[v] /\ file'[v] # file[v] =>
           \/ job' = job
           \/ \E p \in Proc : /\ job[p] # Idle /\ job'[p] # job[p]
                              /\ job[p].target = v
                              /\ job[p].force \/ job[p].seen # file[v]]_vars

(* Between calls, a file that the planner has read or written whole and    *)
(* that holds a former head does not count as edited: planner.rs:338 says  *)
(* that a file that merely lags the head is safe to re-export.             *)
LaggingFileIsNotEdited ==
  (\A p \in Proc : job[p] = Idle) =>
  \A v \in Variant :
    Known(v) /\ row[v].tracked /\ file[v] # NoFile
      /\ Drifts(row[v], file[v]) /\ HasLocalEdits(row[v], file[v])
        => v \in foreign \/ file[v].graph \notin heads[v]

=============================================================================
