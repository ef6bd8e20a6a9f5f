-------------------------- MODULE PlanFilesProofs --------------------------
(***************************************************************************)
(* Proofs about PlanFiles, for any number of variants, graphs, processes   *)
(* and calls: the drift report never takes a file with another graph for   *)
(* the head, a fork that fails takes its file back, and no call destroys a *)
(* user's edits.  The report trusts the hash of a row without looking at   *)
(* its graph; FilesInv says that every transaction that moves the head     *)
(* writes a hash that goes with it, unless an export recorded its own      *)
(* later.  CareInv adds what a call that has begun knows: whose file it    *)
(* will remove, and that what it will write over was a head of the row.    *)
(***************************************************************************)
EXTENDS PlanFiles, TLAPS

(* What was read by a sync is what it registers; an export is of a variant *)
(* that has a row.                                                         *)
Exporting == {"check", "drift", "edits", "write", "record"}

Fits(j) ==
  /\ j.pc = "commit" => j.seen \in Bytes /\ j.seen.graph = j.graph
  /\ j.pc \in Exporting => Known(j.variant)

JobsFit == \A p \in Proc : job[p] # Idle => Fits(job[p])

RowsStay == \A v \in Variant : Known(v) => Known(v)'

HashOfHead ==
  \A v \in Variant \ overtaken : Known(v) => row[v].hash.graph = row[v].head

FilesInv == TypeOK /\ JobsFit /\ HashOfHead

-----------------------------------------------------------------------------
LEMMA HashTypes ==
  ASSUME NEW g \in Graph
  PROVE  /\ Pretty(g) \in Bytes /\ Pretty(g) \in Hash /\ Pretty(g).graph = g
         /\ Canonical(g) \in Hash /\ Canonical(g).graph = g
  BY DEF Pretty, Canonical, Bytes, Hash

LEMMA BytesAreHashes == Bytes \subseteq Hash
  BY DEF Hash

LEMMA CreatedType ==
  ASSUME NEW g \in Graph, NEW hash \in Hash, hash.graph = g, NEW tracked \in BOOLEAN
  PROVE  /\ Created(g, hash, tracked) \in Row
         /\ Created(g, hash, tracked).hash.graph = Created(g, hash, tracked).head
  BY DEF Created, Row

LEMMA RevisedType ==
  ASSUME NEW r \in Row, NEW g \in Graph, NEW hash \in Hash, hash.graph = g,
         NEW tracked \in BOOLEAN
  PROVE  /\ Revised(r, g, hash, tracked) \in Row
         /\ Revised(r, g, hash, tracked).hash.graph = Revised(r, g, hash, tracked).head
<1> DEFINE t == r.tracked \/ tracked
           n == [r EXCEPT !.head = g, !.hash = hash,
                          !.recorded = @ \cup {hash}, !.tracked = t]
<1>1. t \in BOOLEAN
  OBVIOUS
<1>2. r.recorded \cup {hash} \in SUBSET Hash
  BY DEF Row
<1>3. Revised(r, g, hash, tracked) = n
  BY DEF Revised
<1> HIDE DEF t
<1>4. n \in Row /\ n.hash.graph = n.head
  BY <1>1, <1>2 DEF Row
<1> QED BY <1>3, <1>4

LEMMA SyncedType ==
  ASSUME NEW r \in Row \cup {NoRow}, NEW g \in Graph, NEW hash \in Hash,
         hash.graph = g, NEW tracked \in BOOLEAN
  PROVE  LET n == Synced(r, g, hash, tracked)
         IN  n \in Row /\ (n.hash.graph = n.head \/ n = r)
<1>1. CASE r = NoRow
  <2>1. Synced(r, g, hash, tracked) = Created(g, hash, tracked)
    BY <1>1 DEF Synced
  <2> QED BY <2>1, CreatedType
<1>2. CASE r # NoRow /\ r.head = g
  <2>1. CASE tracked
    <3>1. Synced(r, g, hash, tracked) = [r EXCEPT !.hash = hash, !.tracked = TRUE]
      BY <1>2, <2>1 DEF Synced
    <3>2. r \in Row
      BY <1>2
    <3> QED BY <1>2, <3>1, <3>2 DEF Row
  <2>2. CASE ~ tracked
    <3>1. Synced(r, g, hash, tracked) = r
      BY <1>2, <2>2 DEF Synced
    <3> QED BY <1>2, <3>1
  <2> QED BY <2>1, <2>2
<1>3. CASE r # NoRow /\ r.head # g
  <2>1. Synced(r, g, hash, tracked) = Revised(r, g, hash, tracked)
    BY <1>3 DEF Synced
  <2> QED BY <1>3, <2>1, RevisedType
<1> QED BY <1>1, <1>2, <1>3

LEMMA WriteKeeps ==
  ASSUME TypeOK, HashOfHead, NEW v \in Variant, NEW r \in Row,
         r.hash.graph = r.head \/ r = row[v], Write(v, r)
  PROVE  /\ row' \in [Variant -> Row \cup {NoRow}]
         /\ heads' \in [Variant -> SUBSET Graph]
         /\ overtaken' \subseteq Variant
         /\ lineArchived' \in BOOLEAN
         /\ HashOfHead'
         /\ RowsStay
<1>1. row' \in [Variant -> Row \cup {NoRow}]
  BY DEF TypeOK, Write
<1>2. r.head \in Graph
  BY DEF Row
<1>3. heads' \in [Variant -> SUBSET Graph]
  BY <1>2 DEF TypeOK, Write
<1>4. overtaken' \subseteq Variant /\ lineArchived' \in BOOLEAN
  BY DEF TypeOK, Write
<1>5. HashOfHead'
  <2> SUFFICES ASSUME NEW u \in Variant, u \notin overtaken', row'[u] # NoRow
               PROVE  row'[u].hash.graph = row'[u].head
    BY DEF HashOfHead, Known
  <2>1. CASE u # v
    <3>1. row'[u] = row[u] /\ u \notin overtaken
      BY <2>1 DEF TypeOK, Write
    <3> QED BY <3>1 DEF HashOfHead, Known
  <2>2. CASE u = v
    <3>1. row'[u] = r
      BY <2>2 DEF TypeOK, Write
    <3>2. CASE r.hash.graph = r.head
      BY <3>1, <3>2
    <3>3. CASE r = row[v]
      <4>1. row[v] # NoRow /\ v \notin overtaken
        BY <2>2, <3>1, <3>3 DEF Write
      <4> QED BY <2>2, <3>1, <3>3, <4>1 DEF HashOfHead, Known
    <3> QED BY <3>2, <3>3
  <2> QED BY <2>1, <2>2
<1>6. RowsStay
  BY NoRowAssumption DEF TypeOK, Write, RowsStay, Known
<1> QED BY <1>1, <1>3, <1>4, <1>5, <1>6

-----------------------------------------------------------------------------
(* Jobs *)

JobsKept ==
  /\ job' \in [Proc -> Job \cup {Idle}]
  /\ JobsFit'

LEMMA MoveKeeps ==
  ASSUME TypeOK, JobsFit, RowsStay, NEW p \in Proc, NEW j \in Job \cup {Idle},
         j # Idle => Fits(j),
         job' = [job EXCEPT ![p] = j]
  PROVE  JobsKept
<1>1. job' \in [Proc -> Job \cup {Idle}]
  BY DEF TypeOK
<1>2. ASSUME NEW i \in Job, Fits(i)
      PROVE  Fits(i)'
  BY <1>2 DEF Fits, RowsStay, Job
<1>3. ASSUME NEW q \in Proc, job'[q] # Idle
      PROVE  Fits(job[q])'
  <2>1. CASE q = p
    <3>1. job'[q] = j /\ j \in Job /\ Fits(j)
      BY <1>3, <2>1 DEF TypeOK
    <3>2. Fits(j)'
      BY <1>2, <3>1
    <3> QED BY <3>1, <3>2 DEF Fits
  <2>2. CASE q # p
    <3>1. job'[q] = job[q] /\ job[q] \in Job /\ Fits(job[q])
      BY <1>3, <2>2 DEF TypeOK, JobsFit
    <3>2. ASSUME NEW i \in Job, i = job[q]
          PROVE  Fits(i)'
      BY <1>2, <3>1, <3>2
    <3> QED BY <3>1, <3>2 DEF Fits
  <2> QED BY <2>1, <2>2
<1> QED BY <1>1, <1>3 DEF JobsKept, JobsFit

LEMMA FinishKeeps ==
  ASSUME TypeOK, JobsFit, RowsStay, NEW p \in Proc, Finish(p)
  PROVE  JobsKept
  BY MoveKeeps DEF Finish

LEMMA GotoKeeps ==
  ASSUME TypeOK, JobsFit, RowsStay, NEW p \in Proc, job[p] # Idle,
         NEW pc \in {"fill", "register", "undo", "remove", "drift", "edits",
                     "write", "record"},
         pc \in Exporting => job[p].pc \in Exporting,
         Goto(p, pc)
  PROVE  JobsKept
<1> DEFINE j == [job[p] EXCEPT !.pc = pc]
<1>1. job[p] \in Job
  BY DEF TypeOK
<1>2. j \in Job /\ j.pc = pc /\ j.variant = job[p].variant
  BY <1>1 DEF Job
<1>3. Fits(j)
  BY <1>1, <1>2 DEF JobsFit, Fits
<1>4. job' = [job EXCEPT ![p] = j]
  BY DEF Goto
<1> HIDE DEF j
<1> QED BY <1>2, <1>3, <1>4, MoveKeeps

(* A job that goes on with the file as it has just read it. *)
LEMMA SeenKeeps ==
  ASSUME TypeOK, JobsFit, RowsStay, NEW p \in Proc, job[p] # Idle,
         NEW pc \in {"remove", "edits", "write"}, NEW t \in Variant,
         pc \in Exporting => job[p].pc \in Exporting,
         job' = [job EXCEPT ![p].pc = pc, ![p].seen = file[t]]
  PROVE  JobsKept
<1> DEFINE j == [job[p] EXCEPT !.pc = pc, !.seen = file[t]]
<1>1. job[p] \in Job /\ file[t] \in Bytes \cup {NoFile}
  BY DEF TypeOK
<1>2. j \in Job /\ j.pc = pc /\ j.variant = job[p].variant
  BY <1>1 DEF Job
<1>3. Fits(j)
  BY <1>1, <1>2 DEF JobsFit, Fits
<1>4. job' = [job EXCEPT ![p] = j]
  OBVIOUS
<1> HIDE DEF j
<1> QED BY <1>2, <1>3, <1>4, MoveKeeps

LEMMA CallType ==
  ASSUME NEW pc \in {"commit", "create", "check", "write"},
         NEW v \in Variant, NEW t \in Variant, NEW g \in Graph
  PROVE  Call(pc, v, t, g) \in Job
  BY DEF Call, Job

LEMMA BeginKeeps ==
  ASSUME TypeOK, JobsFit, RowsStay, NEW p \in Proc, NEW j \in Job, Fits(j),
         Begin(p, j)
  PROVE  JobsKept /\ calls' \in 0..MaxCalls
<1>1. JobsKept
  BY MoveKeeps DEF Begin
<1>2. calls' \in 0..MaxCalls
  BY FilesAssumption DEF Begin, TypeOK
<1> QED BY <1>1, <1>2

LEMMA PutKeeps ==
  ASSUME TypeOK, NEW t \in Variant, NEW bytes \in Bytes \cup {NoFile}, Put(t, bytes)
  PROVE  file' \in [Variant -> Bytes \cup {NoFile}] /\ dirty' \subseteq Variant
  BY DEF TypeOK, Put

LEMMA StoreUnchanged ==
  ASSUME TypeOK, HashOfHead, UNCHANGED <<store, heads, overtaken>>
  PROVE  /\ row' \in [Variant -> Row \cup {NoRow}]
         /\ heads' \in [Variant -> SUBSET Graph]
         /\ overtaken' \subseteq Variant
         /\ lineArchived' \in BOOLEAN
         /\ HashOfHead'
         /\ RowsStay
  BY DEF TypeOK, HashOfHead, RowsStay, Known, store

-----------------------------------------------------------------------------
(* Calls *)

LEMMA TransactKeeps ==
  ASSUME TypeOK, JobsFit, RowsStay, Transact
  PROVE  /\ JobsKept
         /\ calls' \in 0..MaxCalls /\ edits' \in 0..MaxEdits
         /\ file' \in [Variant -> Bytes \cup {NoFile}]
<1>1. JobsKept
  <2>1. job' = job
    BY DEF Transact
  <2>2. ASSUME NEW q \in Proc, job'[q] # Idle
        PROVE  Fits(job[q])'
    BY <2>1, <2>2 DEF TypeOK, Job, JobsFit, Fits, RowsStay
  <2> QED BY <2>1, <2>2 DEF TypeOK, JobsKept, JobsFit
<1> QED BY <1>1, FilesAssumption DEF Transact, TypeOK

LEMMA InlineCalls ==
  ASSUME FilesInv, NEW v \in Variant, NEW g \in Graph,
         SyncInline(v, g) \/ RevisePlan(v, g)
  PROVE  FilesInv'
<1> USE DEF FilesInv
<1>1. Transact
  BY DEF SyncInline, RevisePlan
<1>2. row[v] \in Row \cup {NoRow}
  BY DEF TypeOK
<1>3. CASE SyncInline(v, g)
  <2> DEFINE n == Synced(row[v], g, Canonical(g), FALSE)
  <2>1. n \in Row /\ (n.hash.graph = n.head \/ n = row[v])
    BY <1>2, HashTypes, SyncedType
  <2>2. Write(v, n) /\ UNCHANGED <<dirty, foreign>>
    BY <1>3 DEF SyncInline
  <2> HIDE DEF n
  <2> QED BY <1>1, <2>1, <2>2, TransactKeeps, WriteKeeps DEF TypeOK, JobsKept
<1>4. CASE RevisePlan(v, g)
  <2> DEFINE n == Revised(row[v], g, Canonical(g), FALSE)
  <2>1. row[v] \in Row
    BY <1>2, <1>4 DEF RevisePlan, Known
  <2>2. n \in Row /\ n.hash.graph = n.head
    BY <2>1, HashTypes, RevisedType
  <2>3. Write(v, n) /\ UNCHANGED <<dirty, foreign>>
    BY <1>4 DEF RevisePlan
  <2> HIDE DEF n
  <2> QED BY <1>1, <2>2, <2>3, TransactKeeps, WriteKeeps DEF TypeOK, JobsKept
<1> QED BY <1>3, <1>4

LEMMA ArchiveCall ==
  ASSUME FilesInv, Archive
  PROVE  FilesInv'
<1> USE DEF FilesInv
<1>1. Transact /\ UNCHANGED <<row, history>> /\ lineArchived' \in BOOLEAN
  BY DEF Archive, TypeOK
<1>2. RowsStay
  BY <1>1 DEF RowsStay, Known
<1> QED BY <1>1, <1>2, TransactKeeps DEF TypeOK, JobsKept, HashOfHead, Known, history

LEMMA SyncCalls ==
  ASSUME FilesInv, NEW p \in Proc, NEW v \in Variant,
         SyncRead(p, v) \/ SyncCommit(p)
  PROVE  FilesInv'
<1> USE DEF FilesInv
<1>1. CASE SyncRead(p, v)
  <2> DEFINE j == [Call("commit", v, v, file[v].graph) EXCEPT !.seen = file[v]]
  <2>1. file[v] \in Bytes /\ file[v].graph \in Graph
    BY <1>1 DEF SyncRead, Readable, TypeOK, Bytes
  <2>2. j \in Job /\ Fits(j)
    <3>1. Call("commit", v, v, file[v].graph) \in Job
      BY <2>1, CallType
    <3> QED BY <2>1, <3>1 DEF Job, Call, Fits, Exporting
  <2>3. Begin(p, j) /\ UNCHANGED <<store, file, edits, history>>
    BY <1>1 DEF SyncRead, Readable
  <2> HIDE DEF j
  <2>4. JobsKept /\ calls' \in 0..MaxCalls
    BY <2>2, <2>3, BeginKeeps, StoreUnchanged DEF history
  <2> QED BY <2>3, <2>4, StoreUnchanged DEF TypeOK, JobsKept, store, history
<1>2. CASE SyncCommit(p)
  <2> DEFINE j == job[p]
             n == Synced(row[j.variant], j.graph, j.seen, TRUE)
  <2>1. j \in Job /\ j.seen \in Bytes /\ j.seen.graph = j.graph
    BY <1>2 DEF SyncCommit, TypeOK, JobsFit, Fits, In
  <2>2. j.variant \in Variant /\ j.graph \in Graph /\ row[j.variant] \in Row \cup {NoRow}
    BY <2>1 DEF Job, TypeOK
  <2>3. n \in Row /\ (n.hash.graph = n.head \/ n = row[j.variant])
    BY <2>1, <2>2, BytesAreHashes, SyncedType
  <2>4. /\ Write(j.variant, n) /\ Finish(p)
        /\ dirty' \subseteq dirty /\ foreign' \subseteq foreign
        /\ UNCHANGED <<file, calls, edits>>
    BY <1>2 DEF SyncCommit
  <2> HIDE DEF n, j
  <2> QED BY <2>2, <2>3, <2>4, FinishKeeps, WriteKeeps DEF TypeOK, JobsKept
<1> QED BY <1>1, <1>2

-----------------------------------------------------------------------------
LEMMA ForkCalls ==
  ASSUME FilesInv, NEW p \in Proc,
         \/ \E u, v \in Variant, g \in Graph : Fork(p, u, v, g)
         \/ ForkStep(p)
  PROVE  FilesInv'
<1> USE DEF FilesInv
<1> DEFINE j == job[p]
<1>1. ASSUME NEW u \in Variant, NEW v \in Variant, NEW g \in Graph, Fork(p, u, v, g)
      PROVE  FilesInv'
  <2>1. Call("create", v, v, g) \in Job /\ Fits(Call("create", v, v, g))
    BY CallType DEF Call, Fits, Exporting
  <2>2. /\ Begin(p, Call("create", v, v, g))
        /\ UNCHANGED <<store, file, edits, history>>
    BY <1>1 DEF Fork
  <2>3. JobsKept /\ calls' \in 0..MaxCalls
    BY <2>1, <2>2, BeginKeeps, StoreUnchanged DEF history
  <2> QED BY <2>2, <2>3, StoreUnchanged DEF TypeOK, JobsKept, store, history
<1>2. ASSUME ForkStep(p)
      PROVE  /\ j # Idle /\ j \in Job /\ j.target \in Variant /\ j.graph \in Graph
             /\ j.variant \in Variant
  <2>1. j # Idle
    BY <1>2 DEF ForkStep, LinkFile, CreateExclusive, FillFile, FillFails, Register,
                RegisterFails, RegisterUnreceipted, CheckUnchanged, RemoveFile, In
  <2> QED BY <2>1 DEF TypeOK, Job
<1> HIDE DEF j
<1>3. CASE LinkFile(p)
  <2>1. j # Idle /\ j.target \in Variant /\ j.graph \in Graph
    BY <1>2, <1>3 DEF ForkStep
  <2>2. /\ \/ Put(j.target, Pretty(j.graph)) /\ Goto(p, "register")
           \/ UNCHANGED <<file, dirty>> /\ Finish(p)
        /\ UNCHANGED <<store, calls, edits, heads, foreign, overtaken>>
    BY <1>3 DEF LinkFile, j
  <2>3. JobsKept
    BY <2>1, <2>2, FinishKeeps, GotoKeeps, StoreUnchanged DEF j, Exporting
  <2>4. file' \in [Variant -> Bytes \cup {NoFile}] /\ dirty' \subseteq Variant
    BY <2>1, <2>2, HashTypes, PutKeeps DEF TypeOK
  <2> QED BY <2>2, <2>3, <2>4, StoreUnchanged DEF TypeOK, JobsKept, store
<1>4. CASE CreateExclusive(p) \/ FillFile(p)
  <2>1. j # Idle /\ j.target \in Variant /\ j.graph \in Graph
    BY <1>2, <1>4 DEF ForkStep
  <2>2. Partial \in Bytes
    BY DEF Partial, Bytes
  <2>3. /\ \/ \E b \in Bytes : Put(j.target, b)
           \/ UNCHANGED <<file, dirty>>
        /\ Goto(p, "fill") \/ Goto(p, "register")
        /\ UNCHANGED <<store, calls, edits, heads, foreign, overtaken>>
    BY <1>4, <2>1, <2>2, HashTypes DEF CreateExclusive, FillFile, j
  <2>4. JobsKept
    BY <2>1, <2>3, GotoKeeps, StoreUnchanged DEF j, Exporting
  <2>5. file' \in [Variant -> Bytes \cup {NoFile}] /\ dirty' \subseteq Variant
    BY <2>1, <2>3, PutKeeps DEF TypeOK
  <2> QED BY <2>3, <2>4, <2>5, StoreUnchanged DEF TypeOK, JobsKept, store
<1>5. CASE FillFails(p) \/ RemoveFile(p)
  <2>1. j.target \in Variant
    BY <1>2, <1>5 DEF ForkStep
  <2>2. /\ Put(j.target, NoFile) /\ Finish(p) /\ foreign' \subseteq foreign
        /\ UNCHANGED <<store, calls, edits, heads, overtaken>>
    BY <1>5 DEF FillFails, RemoveFile, Remove, j
  <2> QED BY <2>1, <2>2, FinishKeeps, PutKeeps, StoreUnchanged
          DEF TypeOK, JobsKept, store
<1>6. CASE Register(p) \/ RegisterUnreceipted(p)
  <2> DEFINE n == Created(j.graph, Pretty(j.graph), TRUE)
  <2>1. j # Idle /\ j.variant \in Variant /\ j.graph \in Graph
    BY <1>2, <1>6 DEF ForkStep
  <2>2. n \in Row /\ n.hash.graph = n.head
    BY <2>1, HashTypes, CreatedType
  <2>3. Write(j.variant, n) /\ UNCHANGED <<file, calls, edits, dirty, foreign>>
    BY <1>6 DEF Register, RegisterUnreceipted, j
  <2>4. Finish(p) \/ Goto(p, "undo")
    BY <1>6 DEF Register, RegisterUnreceipted
  <2> HIDE DEF n
  <2>5. RowsStay
    BY <2>1, <2>2, <2>3, WriteKeeps
  <2>6. CASE Finish(p)
    BY <2>1, <2>2, <2>3, <2>6, FinishKeeps, WriteKeeps DEF TypeOK, JobsKept
  <2>7. CASE Goto(p, "undo")
    <3>1. JobsKept
      BY <2>1, <2>5, <2>7, GotoKeeps DEF Exporting, j
    <3> QED BY <2>1, <2>2, <2>3, <3>1, WriteKeeps DEF TypeOK, JobsKept
  <2> QED BY <2>4, <2>6, <2>7
<1>7. CASE RegisterFails(p) \/ CheckUnchanged(p)
  <2>1. j # Idle /\ j.target \in Variant
    BY <1>2, <1>7 DEF ForkStep
  <2>2. UNCHANGED <<store, file, calls, edits, history>>
    BY <1>7 DEF RegisterFails, CheckUnchanged
  <2>3. JobsKept
    <3>1. RowsStay
      BY <2>2, StoreUnchanged DEF history
    <3>2. CASE RegisterFails(p)
      BY <2>1, <3>1, <3>2, GotoKeeps DEF RegisterFails, Exporting, j
    <3>3. CASE CheckUnchanged(p)
      BY <2>1, <3>1, <3>3, SeenKeeps, FinishKeeps DEF CheckUnchanged, Exporting, j
    <3> QED BY <1>7, <3>2, <3>3
  <2> QED BY <2>2, <2>3, StoreUnchanged DEF TypeOK, JobsKept, store, history
<1> QED BY <1>1, <1>3, <1>4, <1>5, <1>6, <1>7 DEF ForkStep

-----------------------------------------------------------------------------
LEMMA ExportCalls ==
  ASSUME FilesInv, NEW p \in Proc,
         \/ \E v, t \in Variant, force \in BOOLEAN : Export(p, v, t, force)
         \/ ExportStep(p)
  PROVE  FilesInv'
<1> USE DEF FilesInv
<1> DEFINE j == job[p]
<1>1. ASSUME NEW v \in Variant, NEW t \in Variant, NEW force \in BOOLEAN,
             Export(p, v, t, force)
      PROVE  FilesInv'
  <2> DEFINE pc == IF force THEN "write" ELSE "check"
             own == t = v /\ row[v].tracked
             n == [Call(pc, v, t, row[v].head) EXCEPT !.force = force, !.own = own]
  <2>1. row[v].head \in Graph
    BY <1>1 DEF Export, Known, TypeOK, Row
  <2>2. pc \in {"check", "write"} /\ own \in BOOLEAN
    OBVIOUS
  <2>3. Begin(p, n) /\ UNCHANGED <<store, file, edits, history>>
    BY <1>1 DEF Export
  <2> HIDE DEF pc, own
  <2>4. Call(pc, v, t, row[v].head) \in Job /\ Call(pc, v, t, row[v].head).pc = pc
    BY <2>1, <2>2, CallType DEF Call
  <2>5. n \in Job /\ Fits(n)
    <3>1. Known(v) /\ Call(pc, v, t, row[v].head).variant = v
      BY <1>1 DEF Export, Call
    <3> QED BY <2>2, <2>4, <3>1 DEF Job, Fits
  <2> HIDE DEF n
  <2>6. JobsKept /\ calls' \in 0..MaxCalls
    BY <2>3, <2>5, BeginKeeps, StoreUnchanged DEF history
  <2> QED BY <2>3, <2>6, StoreUnchanged DEF TypeOK, JobsKept, store, history
<1>2. ASSUME ExportStep(p)
      PROVE  /\ j # Idle /\ j \in Job /\ j.target \in Variant /\ j.graph \in Graph
             /\ j.variant \in Variant /\ j.pc \in Exporting /\ Known(j.variant)
  <2>1. j # Idle /\ j.pc \in Exporting
    BY <1>2 DEF ExportStep, CheckTarget, CheckDrift, CheckEdits, WriteFile, RecordHash,
                In, Exporting
  <2> QED BY <2>1 DEF TypeOK, Job, JobsFit, Fits
<1>3. CASE CheckTarget(p)
  <2>1. /\ j # Idle /\ j \in Job /\ j.target \in Variant
        /\ j.pc \in Exporting /\ Known(j.variant)
    BY <1>2, <1>3 DEF ExportStep
  <2>2. UNCHANGED <<store, file, calls, edits, history>> /\ RowsStay
    BY <1>3, StoreUnchanged DEF CheckTarget, history
  <2>3. JobsKept
    <3>1. \/ Goto(p, "write") \/ Finish(p)
          \/ job' = [job EXCEPT ![p].pc = "drift", ![p].row = row[j.target]]
      BY <1>3 DEF CheckTarget
    <3>2. CASE job' = [job EXCEPT ![p].pc = "drift", ![p].row = row[j.target]]
      <4> DEFINE n == [j EXCEPT !.pc = "drift", !.row = row[j.target]]
      <4>1. row[j.target] \in Row \cup {NoRow}
        BY <2>1 DEF TypeOK
      <4>2. n \in Job /\ Fits(n)
        BY <2>1, <4>1 DEF Job, Fits
      <4>3. job' = [job EXCEPT ![p] = n]
        BY <3>2
      <4> HIDE DEF n
      <4> QED BY <2>2, <4>2, <4>3, MoveKeeps
    <3> QED BY <2>1, <2>2, <3>1, <3>2, GotoKeeps, FinishKeeps
  <2> QED BY <2>2, <2>3, StoreUnchanged DEF TypeOK, JobsKept, store, history
<1>4. CASE CheckDrift(p) \/ CheckEdits(p)
  <2>1. j # Idle /\ j.target \in Variant /\ j.pc \in Exporting
    BY <1>2, <1>4 DEF ExportStep
  <2>2. UNCHANGED <<store, file, calls, edits, history>> /\ RowsStay
    BY <1>4, StoreUnchanged DEF CheckDrift, CheckEdits, history
  <2>3. \/ Finish(p)
        \/ \E pc \in {"edits", "write"} :
             job' = [job EXCEPT ![p].pc = pc, ![p].seen = file[j.target]]
    BY <1>4 DEF CheckDrift, CheckEdits
  <2>4. JobsKept
    BY <2>1, <2>2, <2>3, SeenKeeps, FinishKeeps
  <2> QED BY <2>2, <2>4, StoreUnchanged DEF TypeOK, JobsKept, store, history
<1>5. CASE WriteFile(p)
  <2>1. /\ j # Idle /\ j.target \in Variant /\ j.graph \in Graph
        /\ j.pc \in Exporting
    BY <1>2, <1>5 DEF ExportStep
  <2>2. /\ Put(j.target, Pretty(j.graph))
        /\ Goto(p, "record") \/ Finish(p)
        /\ foreign' \subseteq foreign \cup {j.target}
        /\ UNCHANGED <<store, calls, edits, heads, overtaken>>
    BY <1>5 DEF WriteFile
  <2>3. JobsKept
    BY <2>1, <2>2, GotoKeeps, FinishKeeps, StoreUnchanged
  <2> HIDE DEF j
  <2> QED BY <2>1, <2>2, <2>3, HashTypes, PutKeeps, StoreUnchanged
          DEF TypeOK, JobsKept, store
<1>6. CASE RecordHash(p)
  <2> DEFINE v == j.variant
             h == Pretty(j.graph)
             n == [row[v] EXCEPT !.hash = h]
  <2>1. v \in Variant /\ j.graph \in Graph /\ row[v] \in Row
    BY <1>2, <1>6 DEF ExportStep, Known, TypeOK
  <2>2. /\ row' = [row EXCEPT ![v].hash = h]
        /\ overtaken' = IF row[v].head = j.graph THEN overtaken \ {v}
                        ELSE overtaken \cup {v}
        /\ Finish(p)
        /\ UNCHANGED <<lineArchived, file, calls, edits, dirty, heads, foreign>>
    BY <1>6 DEF RecordHash
  <2>3. n \in Row /\ n.hash.graph = j.graph /\ n.head = row[v].head
    BY <2>1, HashTypes DEF Row
  <2>4. row' = [row EXCEPT ![v] = n]
    BY <2>2
  <2> HIDE DEF v, h, n, j
  <2>5. row' \in [Variant -> Row \cup {NoRow}] /\ RowsStay
    BY <2>1, <2>3, <2>4, NoRowAssumption DEF TypeOK, RowsStay, Known
  <2>6. HashOfHead'
    <3> SUFFICES ASSUME NEW u \in Variant, u \notin overtaken', row'[u] # NoRow
                 PROVE  row'[u].hash.graph = row'[u].head
      BY DEF HashOfHead, Known
    <3>1. CASE u = v
      BY <2>1, <2>2, <2>3, <2>4, <3>1 DEF TypeOK
    <3>2. CASE u # v
      <4>1. row'[u] = row[u] /\ u \notin overtaken
        BY <2>2, <2>4, <3>2 DEF TypeOK
      <4> QED BY <4>1 DEF HashOfHead, Known
    <3> QED BY <3>1, <3>2
  <2> QED BY <2>1, <2>2, <2>5, <2>6, FinishKeeps DEF TypeOK, JobsKept
<1> QED BY <1>1, <1>3, <1>4, <1>5, <1>6 DEF ExportStep

-----------------------------------------------------------------------------
(* Calls that stop, and the user *)

LEMMA OtherSteps ==
  ASSUME FilesInv,
         \/ \E p \in Proc : Stop(p)
         \/ \E v \in Variant, g \in Graph \cup {Broken} : UserSaves(v, g)
         \/ \E v \in Variant : UserDeletes(v)
  PROVE  FilesInv'
<1> USE DEF FilesInv
<1>1. ASSUME NEW p \in Proc, Stop(p)
      PROVE  FilesInv'
  <2>1. job[p].target \in Variant
    BY <1>1 DEF Stop, TypeOK, Job
  <2>2. /\ Finish(p) /\ foreign' \subseteq foreign \cup {job[p].target}
        /\ UNCHANGED <<store, file, calls, edits, dirty, heads, overtaken>>
    BY <1>1 DEF Stop
  <2> QED BY <2>1, <2>2, FinishKeeps, StoreUnchanged DEF TypeOK, JobsKept, store
<1>2. ASSUME Edit, RowsStay
      PROVE  JobsKept /\ edits' \in 0..MaxEdits /\ calls' \in 0..MaxCalls
  <2>1. job' = job /\ calls' = calls
    BY <1>2 DEF Edit
  <2>2. ASSUME NEW q \in Proc, job'[q] # Idle
        PROVE  Fits(job[q])'
    BY <1>2, <2>1, <2>2 DEF TypeOK, Job, JobsFit, Fits, RowsStay
  <2>3. edits' \in 0..MaxEdits
    BY <1>2, FilesAssumption DEF Edit, TypeOK
  <2> QED BY <2>1, <2>2, <2>3 DEF TypeOK, JobsKept, JobsFit
<1>3. ASSUME NEW v \in Variant, NEW g \in Graph \cup {Broken}, UserSaves(v, g)
      PROVE  FilesInv'
  <2>1. [graph |-> g, form |-> "user"] \in Bytes
    BY DEF Bytes
  <2>2. Edit /\ UNCHANGED <<store, heads, overtaken>>
    BY <1>3 DEF UserSaves, Edit
  <2>3. /\ file' \in [Variant -> Bytes \cup {NoFile}]
        /\ dirty' \subseteq Variant /\ foreign' \subseteq Variant
    BY <1>3, <2>1 DEF UserSaves, TypeOK
  <2> QED BY <1>2, <2>2, <2>3, StoreUnchanged DEF TypeOK, JobsKept
<1>4. ASSUME NEW v \in Variant, UserDeletes(v)
      PROVE  FilesInv'
  <2>1. Edit /\ UNCHANGED <<store, heads, overtaken>>
    BY <1>4 DEF UserDeletes, Edit
  <2>2. /\ file' \in [Variant -> Bytes \cup {NoFile}]
        /\ dirty' \subseteq Variant /\ foreign' \subseteq Variant
    BY <1>4 DEF UserDeletes, Remove, Put, TypeOK
  <2> QED BY <1>2, <2>1, <2>2, StoreUnchanged DEF TypeOK, JobsKept
<1> QED BY <1>1, <1>3, <1>4

-----------------------------------------------------------------------------
LEMMA FilesInvInit == Init => FilesInv
<1> SUFFICES ASSUME Init PROVE FilesInv
  OBVIOUS
<1>1. TypeOK
  <2>1. row \in [Variant -> Row \cup {NoRow}] /\ file \in [Variant -> Bytes \cup {NoFile}]
    BY DEF Init
  <2>2. job \in [Proc -> Job \cup {Idle}] /\ heads \in [Variant -> SUBSET Graph]
    BY DEF Init
  <2>3. calls \in 0..MaxCalls /\ edits \in 0..MaxEdits
    BY FilesAssumption DEF Init
  <2> QED BY <2>1, <2>2, <2>3 DEF Init, TypeOK
<1>2. JobsFit /\ HashOfHead
  BY DEF Init, JobsFit, HashOfHead, Known
<1> QED BY <1>1, <1>2 DEF FilesInv

LEMMA FilesInvNext == FilesInv /\ [Next]_vars => FilesInv'
<1> SUFFICES ASSUME FilesInv, [Next]_vars PROVE FilesInv'
  OBVIOUS
<1>1. CASE Next
  <2>1. ASSUME NEW p \in Proc, \E v \in Variant : SyncRead(p, v)
        PROVE  FilesInv'
    BY <2>1, SyncCalls
  <2>2. ASSUME NEW p \in Proc, SyncCommit(p)
        PROVE  FilesInv'
    <3>1. \E v \in Variant : TRUE
      BY <2>2 DEF SyncCommit, In, FilesInv, TypeOK, Job
    <3> QED BY <2>2, <3>1, SyncCalls
  <2>3. ASSUME NEW p \in Proc,
               \/ \E u, v \in Variant, g \in Graph : Fork(p, u, v, g)
               \/ ForkStep(p)
        PROVE  FilesInv'
    BY <2>3, ForkCalls
  <2>4. ASSUME NEW p \in Proc,
               \/ \E v, t \in Variant, force \in BOOLEAN : Export(p, v, t, force)
               \/ ExportStep(p)
        PROVE  FilesInv'
    BY <2>4, ExportCalls
  <2>5. ASSUME \E v \in Variant, g \in Graph : SyncInline(v, g) \/ RevisePlan(v, g)
        PROVE  FilesInv'
    BY <2>5, InlineCalls
  <2> QED BY <1>1, <2>1, <2>2, <2>3, <2>4, <2>5, ArchiveCall, OtherSteps DEF Next
<1>2. CASE UNCHANGED vars
  BY <1>2 DEF vars, store, history, FilesInv, TypeOK, JobsFit, Fits, HashOfHead, Known
<1> QED BY <1>1, <1>2

(* Every reachable state has the types of the model. *)
THEOREM FilesTypeCorrect == Spec => []TypeOK
<1>1. FilesInv => TypeOK
  BY DEF FilesInv
<1> QED BY <1>1, FilesInvInit, FilesInvNext, PTL DEF Spec

(* plan.status does not report a tracked file as matching whose graph is   *)
(* not the head (definition_drift), for any number of variants, graphs and *)
(* processes: the hash that it trusts goes with the head.                  *)
THEOREM DriftIsNoticed == Spec => []DriftNoticed
<1>1. FilesInv => DriftNoticed
  BY DEF FilesInv, HashOfHead, DriftNoticed, Drifts
<1> QED BY <1>1, FilesInvInit, FilesInvNext, PTL DEF Spec

-----------------------------------------------------------------------------
(* What the calls know of the files                                        *)

Forking == {"create", "fill", "register", "undo", "remove"}

(* The hashes of a row of v are those of graphs that were v's head. *)
OnRecord(r, v) ==
  /\ r.head \in heads[v] /\ r.hash.graph \in heads[v]
  /\ \A h \in r.recorded : h.graph \in heads[v]

RowsOnRecord == \A v \in Variant : Known(v) => OnRecord(row[v], v)

(* A call removes only what it wrote itself, and writes over what it has   *)
(* looked at only if that was a head.                                      *)
Careful(j) ==
  /\ j.own \/ j.pc \in Forking => j.target = j.variant
  /\ j.pc \in {"create", "fill", "register", "undo", "check"} => j.seen = NoFile
  /\ j.pc = "remove" => j.seen = Pretty(j.graph)
  /\ j.pc \in Exporting => j.graph \in heads[j.variant]
  /\ j.pc \in {"drift", "edits"} => OnRecord(j.row, j.target)
  /\ j.pc = "write" /\ ~ j.force => j.seen = NoFile \/ j.seen.graph \in heads[j.target]

JobsCareful == \A p \in Proc : job[p] # Idle => Careful(job[p])

(* What no sync has read is a user's. *)
DirtyIsUsers == \A v \in dirty : file[v] # NoFile /\ file[v].form = "user"

(* The fork that has put the bytes of v where they are. *)
Owns(j, v, bytes) ==
  /\ j # Idle /\ j.target = v
  /\ \/ j.pc = "fill" /\ bytes = Partial
     \/ j.pc \in {"register", "undo", "remove"} /\ bytes = Pretty(j.graph)

Owned(v) == \E p \in Proc : Owns(job[p], v, file[v])

NoStrayFile ==
  \A v \in Variant : file[v] # NoFile /\ ~ Known(v) => v \in foreign \/ Owned(v)

CareInv == FilesInv /\ RowsOnRecord /\ JobsCareful /\ DirtyIsUsers /\ NoStrayFile

-----------------------------------------------------------------------------
(* Rows and their history *)

HeadsGrow == \A v \in Variant : heads[v] \subseteq heads'[v]

LEMMA WriteGrows ==
  ASSUME TypeOK, RowsOnRecord, NEW v \in Variant, NEW r \in Row, Write(v, r),
         \/ \A h \in r.recorded \cup {r.hash} : h.graph = r.head
         \/ /\ row[v] # NoRow
            /\ \A h \in r.recorded \cup {r.hash} :
                 h.graph = r.head \/ h \in row[v].recorded \cup {row[v].hash}
  PROVE  RowsStay /\ HeadsGrow /\ RowsOnRecord'
<1>1. HeadsGrow /\ r.head \in heads'[v] /\ row'[v] = r
      /\ \A u \in Variant \ {v} : row'[u] = row[u]
  BY DEF TypeOK, Write, HeadsGrow
<1>2. ASSUME NEW u \in Variant, row'[u] # NoRow
      PROVE  OnRecord(row[u], u)'
  <2>1. CASE u = v
    <3>1. \A h \in r.recorded \cup {r.hash} : h.graph \in heads'[v]
      BY <1>1 DEF RowsOnRecord, OnRecord, Known, HeadsGrow
    <3> QED BY <1>1, <2>1, <3>1 DEF OnRecord
  <2>2. CASE u # v
    BY <1>1, <1>2, <2>2 DEF RowsOnRecord, OnRecord, Known, HeadsGrow
  <2> QED BY <2>1, <2>2
<1> QED BY <1>1, <1>2, NoRowAssumption DEF RowsOnRecord, RowsStay, Known

LEMMA RevisedHashes ==
  ASSUME NEW r \in Row, NEW g \in Graph, NEW hash \in Hash, hash.graph = g,
         NEW tracked \in BOOLEAN
  PROVE  \A h \in Revised(r, g, hash, tracked).recorded
                    \cup {Revised(r, g, hash, tracked).hash} :
           h.graph = Revised(r, g, hash, tracked).head \/ h \in r.recorded \cup {r.hash}
<1> DEFINE t == r.tracked \/ tracked
           n == [r EXCEPT !.head = g, !.hash = hash,
                          !.recorded = @ \cup {hash}, !.tracked = t]
<1>1. Revised(r, g, hash, tracked) = n
  BY DEF Revised
<1> HIDE DEF t
<1>2. n.head = g /\ n.hash = hash /\ n.recorded = r.recorded \cup {hash}
  BY DEF Row
<1> QED BY <1>1, <1>2

LEMMA SyncedHashes ==
  ASSUME NEW r \in Row \cup {NoRow}, NEW g \in Graph, NEW hash \in Hash,
         hash.graph = g, NEW tracked \in BOOLEAN
  PROVE  LET n == Synced(r, g, hash, tracked)
         IN  \/ \A h \in n.recorded \cup {n.hash} : h.graph = n.head
             \/ /\ r # NoRow
                /\ \A h \in n.recorded \cup {n.hash} :
                     h.graph = n.head \/ h \in r.recorded \cup {r.hash}
<1>1. CASE r = NoRow
  <2>1. Synced(r, g, hash, tracked) = Created(g, hash, tracked)
    BY <1>1 DEF Synced
  <2> QED BY <2>1 DEF Created
<1>2. CASE r # NoRow /\ r.head = g
  <2>1. CASE tracked
    <3>1. Synced(r, g, hash, tracked) = [r EXCEPT !.hash = hash, !.tracked = TRUE]
      BY <1>2, <2>1 DEF Synced
    <3>2. r \in Row
      BY <1>2
    <3> QED BY <1>2, <3>1, <3>2 DEF Row
  <2>2. CASE ~ tracked
    <3>1. Synced(r, g, hash, tracked) = r
      BY <1>2, <2>2 DEF Synced
    <3> QED BY <1>2, <3>1
  <2> QED BY <2>1, <2>2
<1>3. CASE r # NoRow /\ r.head # g
  <2>1. Synced(r, g, hash, tracked) = Revised(r, g, hash, tracked)
    BY <1>3 DEF Synced
  <2> QED BY <1>3, <2>1, RevisedHashes
<1> QED BY <1>1, <1>2, <1>3

(* A row only ever holds hashes of what was its head. *)
LEMMA RecordStep ==
  ASSUME FilesInv, RowsOnRecord, JobsCareful, [Next]_vars
  PROVE  RowsStay /\ HeadsGrow /\ RowsOnRecord'
<1> USE DEF FilesInv
<1>1. ASSUME UNCHANGED <<row, heads>>
      PROVE  RowsStay /\ HeadsGrow /\ RowsOnRecord'
  BY <1>1 DEF RowsStay, HeadsGrow, RowsOnRecord, OnRecord, Known
<1>2. ASSUME NEW v \in Variant, NEW g \in Graph, SyncInline(v, g)
      PROVE  RowsStay /\ HeadsGrow /\ RowsOnRecord'
  <2> DEFINE n == Synced(row[v], g, Canonical(g), FALSE)
  <2>1. row[v] \in Row \cup {NoRow} /\ Canonical(g) \in Hash /\ Canonical(g).graph = g
    BY HashTypes DEF TypeOK
  <2>2. n \in Row
    BY <2>1, SyncedType
  <2>3. \/ \A h \in n.recorded \cup {n.hash} : h.graph = n.head
        \/ /\ row[v] # NoRow
           /\ \A h \in n.recorded \cup {n.hash} :
                h.graph = n.head \/ h \in row[v].recorded \cup {row[v].hash}
    BY <2>1, SyncedHashes
  <2>4. Write(v, n)
    BY <1>2 DEF SyncInline
  <2> HIDE DEF n
  <2> QED BY <2>2, <2>3, <2>4, WriteGrows
<1>3. ASSUME NEW v \in Variant, NEW g \in Graph, RevisePlan(v, g)
      PROVE  RowsStay /\ HeadsGrow /\ RowsOnRecord'
  <2> DEFINE n == Revised(row[v], g, Canonical(g), FALSE)
  <2>1. /\ row[v] \in Row /\ row[v] # NoRow
        /\ Canonical(g) \in Hash /\ Canonical(g).graph = g
    BY <1>3, HashTypes DEF TypeOK, RevisePlan, Known
  <2>2. n \in Row
    BY <2>1, RevisedType
  <2>3. \A h \in n.recorded \cup {n.hash} :
          h.graph = n.head \/ h \in row[v].recorded \cup {row[v].hash}
    BY <2>1, RevisedHashes
  <2>4. Write(v, n)
    BY <1>3 DEF RevisePlan
  <2> HIDE DEF n
  <2> QED BY <2>1, <2>2, <2>3, <2>4, WriteGrows
<1>4. ASSUME NEW p \in Proc, SyncCommit(p)
      PROVE  RowsStay /\ HeadsGrow /\ RowsOnRecord'
  <2> DEFINE j == job[p]
             n == Synced(row[j.variant], j.graph, j.seen, TRUE)
  <2>1. j \in Job /\ j.seen \in Hash /\ j.seen.graph = j.graph
    BY <1>4, BytesAreHashes DEF SyncCommit, TypeOK, JobsFit, Fits, In
  <2>2. j.variant \in Variant /\ j.graph \in Graph /\ row[j.variant] \in Row \cup {NoRow}
    BY <2>1 DEF Job, TypeOK
  <2>3. n \in Row
    BY <2>1, <2>2, SyncedType
  <2>4. \/ \A h \in n.recorded \cup {n.hash} : h.graph = n.head
        \/ /\ row[j.variant] # NoRow
           /\ \A h \in n.recorded \cup {n.hash} :
                h.graph = n.head \/ h \in row[j.variant].recorded \cup {row[j.variant].hash}
    BY <2>1, <2>2, SyncedHashes
  <2>5. Write(j.variant, n)
    BY <1>4 DEF SyncCommit
  <2> HIDE DEF n, j
  <2> QED BY <2>2, <2>3, <2>4, <2>5, WriteGrows
<1>5. ASSUME NEW p \in Proc, ForkStep(p)
      PROVE  RowsStay /\ HeadsGrow /\ RowsOnRecord'
  <2>1. CASE Register(p) \/ RegisterUnreceipted(p)
    <3> DEFINE j == job[p]
               n == Created(j.graph, Pretty(j.graph), TRUE)
    <3>1. j.variant \in Variant /\ j.graph \in Graph
      BY <2>1 DEF Register, RegisterUnreceipted, In, TypeOK, Job
    <3>2. n \in Row /\ \A h \in n.recorded \cup {n.hash} : h.graph = n.head
      BY <3>1, HashTypes, CreatedType DEF Created
    <3>3. Write(j.variant, n)
      BY <2>1 DEF Register, RegisterUnreceipted
    <3> HIDE DEF n, j
    <3> QED BY <3>1, <3>2, <3>3, WriteGrows
  <2> QED BY <1>1, <1>5, <2>1 DEF ForkStep, LinkFile, CreateExclusive, FillFile, FillFails,
             RegisterFails, CheckUnchanged, RemoveFile, store, history
<1>6. ASSUME NEW p \in Proc, ExportStep(p)
      PROVE  RowsStay /\ HeadsGrow /\ RowsOnRecord'
  <2>1. CASE RecordHash(p)
    <3> DEFINE j == job[p]
               v == j.variant
               h == Pretty(j.graph)
    <3>1. /\ v \in Variant /\ row[v] \in Row /\ row[v] # NoRow
          /\ j.graph \in heads[v] /\ h.graph = j.graph /\ h \in Hash
      BY <2>1, HashTypes DEF RecordHash, In, TypeOK, Job, JobsFit, Fits, Exporting, Known,
                  JobsCareful, Careful, Pretty
    <3>2. row' = [row EXCEPT ![v].hash = h] /\ heads' = heads
      BY <2>1 DEF RecordHash
    <3> HIDE DEF h, v, j
    <3>3. /\ row'[v].head = row[v].head /\ row'[v].hash = h
          /\ row'[v].recorded = row[v].recorded
          /\ \A u \in Variant \ {v} : row'[u] = row[u]
      BY <3>1, <3>2 DEF TypeOK, Row
    <3>4. HeadsGrow /\ RowsOnRecord'
      BY <3>1, <3>2, <3>3 DEF HeadsGrow, RowsOnRecord, OnRecord, Known
    <3>5. row'[v] \in Row
      BY <3>1, <3>2 DEF TypeOK, Row
    <3> QED BY <3>3, <3>4, <3>5, NoRowAssumption DEF RowsStay, Known
  <2> QED BY <1>1, <1>6, <2>1 DEF ExportStep, CheckTarget, CheckDrift, CheckEdits, WriteFile,
             store, history
<1>7. ASSUME \/ Archive
             \/ \E p \in Proc :
                  \/ \E v \in Variant : SyncRead(p, v)
                  \/ \E u, v \in Variant, g \in Graph : Fork(p, u, v, g)
                  \/ \E v, t \in Variant, force \in BOOLEAN : Export(p, v, t, force)
                  \/ Stop(p)
             \/ \E v \in Variant : \/ \E g \in Graph \cup {Broken} : UserSaves(v, g)
                                   \/ UserDeletes(v)
      PROVE  RowsStay /\ HeadsGrow /\ RowsOnRecord'
  BY <1>1, <1>7 DEF Archive, SyncRead, Fork, Export, Stop, UserSaves, UserDeletes, Edit,
                    store, history
<1>8. CASE UNCHANGED vars
  BY <1>1, <1>8 DEF vars, store, history
<1> QED BY <1>2, <1>3, <1>4, <1>5, <1>6, <1>7, <1>8 DEF Next

-----------------------------------------------------------------------------
(* Jobs *)

LEMMA CarefulMove ==
  ASSUME TypeOK, JobsCareful, HeadsGrow, NEW p \in Proc, NEW j \in Job \cup {Idle},
         j # Idle => Careful(j),
         job' = [job EXCEPT ![p] = j]
  PROVE  JobsCareful'
<1>1. ASSUME NEW i \in Job, Careful(i)
      PROVE  Careful(i)'
  BY <1>1 DEF Careful, OnRecord, HeadsGrow, Job
<1>2. ASSUME NEW q \in Proc, job'[q] # Idle
      PROVE  Careful(job[q])'
  <2>1. CASE q = p
    <3>1. job'[q] = j /\ j \in Job /\ Careful(j)
      BY <1>2, <2>1 DEF TypeOK
    <3>2. Careful(j)'
      BY <1>1, <3>1
    <3> QED BY <3>1, <3>2 DEF Careful, OnRecord
  <2>2. CASE q # p
    <3>1. job'[q] = job[q] /\ job[q] \in Job /\ Careful(job[q])
      BY <1>2, <2>2 DEF TypeOK, JobsCareful
    <3>2. ASSUME NEW i \in Job, i = job[q]
          PROVE  Careful(i)'
      BY <1>1, <3>1, <3>2
    <3> QED BY <3>1, <3>2 DEF Careful, OnRecord
  <2> QED BY <2>1, <2>2
<1> QED BY <1>2 DEF JobsCareful

LEMMA CarefulFinish ==
  ASSUME TypeOK, JobsCareful, HeadsGrow, NEW p \in Proc, Finish(p)
  PROVE  JobsCareful'
  BY CarefulMove DEF Finish

LEMMA CarefulGoto ==
  ASSUME TypeOK, JobsCareful, HeadsGrow, NEW p \in Proc, job[p] # Idle, NEW pc,
         \/ job[p].pc \in {"create", "fill"} /\ pc \in {"fill", "register"}
         \/ job[p].pc = "register" /\ pc = "undo"
         \/ job[p].pc = "check" /\ pc = "write"
         \/ job[p].pc = "write" /\ pc = "record",
         Goto(p, pc)
  PROVE  JobsCareful'
<1> DEFINE j == [job[p] EXCEPT !.pc = pc]
<1>1. job[p] \in Job /\ Careful(job[p])
  BY DEF TypeOK, JobsCareful
<1>2. /\ j \in Job /\ j.pc = pc /\ j.variant = job[p].variant /\ j.target = job[p].target
      /\ j.own = job[p].own /\ j.seen = job[p].seen /\ j.graph = job[p].graph
      /\ j.force = job[p].force
  BY <1>1 DEF Job
<1>3. job' = [job EXCEPT ![p] = j]
  BY DEF Goto
<1> HIDE DEF j
<1>4. Careful(j)
  BY <1>1, <1>2 DEF Careful, Forking, Exporting
<1> QED BY <1>2, <1>3, <1>4, CarefulMove

LEMMA CarefulSeen ==
  ASSUME TypeOK, JobsCareful, HeadsGrow, NEW p \in Proc, job[p] # Idle, NEW pc,
         NEW seen \in Bytes \cup {NoFile},
         \/ /\ job[p].pc = "undo" /\ pc = "remove"
            /\ seen = Pretty(job[p].graph)
         \/ job[p].pc = "drift" /\ pc = "edits"
         \/ /\ job[p].pc \in {"drift", "edits"} /\ pc = "write"
            /\ seen = NoFile \/ seen.graph \in heads[job[p].target],
         job' = [job EXCEPT ![p].pc = pc, ![p].seen = seen]
  PROVE  JobsCareful'
<1> DEFINE j == [job[p] EXCEPT !.pc = pc, !.seen = seen]
<1>1. job[p] \in Job /\ Careful(job[p])
  BY DEF TypeOK, JobsCareful
<1>2. /\ j \in Job /\ j.pc = pc /\ j.variant = job[p].variant /\ j.target = job[p].target
      /\ j.own = job[p].own /\ j.seen = seen /\ j.graph = job[p].graph
      /\ j.row = job[p].row
  BY <1>1 DEF Job
<1>3. job' = [job EXCEPT ![p] = j]
  OBVIOUS
<1> HIDE DEF j
<1>4. Careful(j)
  BY <1>1, <1>2 DEF Careful, Forking, Exporting
<1> QED BY <1>2, <1>3, <1>4, CarefulMove

LEMMA CarefulBegins ==
  ASSUME FilesInv, RowsOnRecord, JobsCareful, HeadsGrow, NEW p \in Proc,
         \/ \E v \in Variant : SyncRead(p, v)
         \/ \E u, v \in Variant, g \in Graph : Fork(p, u, v, g)
         \/ \E v, t \in Variant, force \in BOOLEAN : Export(p, v, t, force)
  PROVE  JobsCareful'
<1> USE DEF FilesInv
<1>1. ASSUME NEW v \in Variant, SyncRead(p, v)
      PROVE  JobsCareful'
  <2> DEFINE j == [Call("commit", v, v, file[v].graph) EXCEPT !.seen = file[v]]
  <2>1. file[v] \in Bytes /\ file[v].graph \in Graph
    BY <1>1 DEF SyncRead, Readable, TypeOK, Bytes
  <2>2. Call("commit", v, v, file[v].graph) \in Job
    BY <2>1, CallType
  <2>3. j \in Job /\ Careful(j)
    BY <2>1, <2>2 DEF Job, Call, Careful, Exporting, Forking
  <2>4. Begin(p, j)
    BY <1>1 DEF SyncRead, Readable
  <2> HIDE DEF j
  <2> QED BY <2>3, <2>4, CarefulMove DEF Begin
<1>2. ASSUME NEW u \in Variant, NEW v \in Variant, NEW g \in Graph, Fork(p, u, v, g)
      PROVE  JobsCareful'
  <2>1. Call("create", v, v, g) \in Job /\ Careful(Call("create", v, v, g))
    BY CallType DEF Call, Careful, Exporting
  <2> QED BY <1>2, <2>1, CarefulMove DEF Fork, Begin
<1>3. ASSUME NEW v \in Variant, NEW t \in Variant, NEW force \in BOOLEAN,
             Export(p, v, t, force)
      PROVE  JobsCareful'
  <2> DEFINE pc == IF force THEN "write" ELSE "check"
             own == t = v /\ row[v].tracked
             c == Call(pc, v, t, row[v].head)
             n == [c EXCEPT !.force = force, !.own = own]
  <2>1. row[v].head \in Graph /\ row[v].head \in heads[v]
    BY <1>3 DEF Export, Known, TypeOK, Row, RowsOnRecord, OnRecord
  <2>2. pc \in {"check", "write"} /\ own \in BOOLEAN /\ (own => t = v)
    OBVIOUS
  <2>3. Begin(p, n)
    BY <1>3 DEF Export
  <2> HIDE DEF pc, own
  <2>4. /\ c \in Job /\ c.pc = pc /\ c.variant = v /\ c.target = t
        /\ c.graph = row[v].head /\ c.seen = NoFile
    BY <2>1, <2>2, CallType DEF Call
  <2> HIDE DEF c
  <2>5. /\ n \in Job /\ n.pc = pc /\ n.variant = v /\ n.target = t
        /\ n.graph = row[v].head /\ n.seen = NoFile /\ n.own = own
    BY <2>2, <2>4 DEF Job
  <2> HIDE DEF n
  <2>6. Careful(n)
    BY <2>1, <2>2, <2>5 DEF Careful, Forking
  <2> QED BY <2>3, <2>5, <2>6, CarefulMove DEF Begin
<1> QED BY <1>1, <1>2, <1>3

(* What a check has let pass was the head, or on record. *)
LEMMA CarefulChecks ==
  ASSUME FilesInv, RowsOnRecord, JobsCareful, HeadsGrow, NEW p \in Proc,
         CheckTarget(p) \/ CheckDrift(p) \/ CheckEdits(p)
  PROVE  JobsCareful'
<1> USE DEF FilesInv
<1> DEFINE j == job[p]
           bytes == file[j.target]
<1>1. j # Idle /\ j \in Job /\ j.target \in Variant /\ Careful(j)
  BY DEF CheckTarget, CheckDrift, CheckEdits, In, TypeOK, Job, JobsCareful
<1>2. bytes \in Bytes \cup {NoFile}
  BY <1>1 DEF TypeOK
<1>3. CASE CheckTarget(p)
  <2>0. j.pc = "check" /\ j.seen = NoFile
    BY <1>1, <1>3 DEF CheckTarget, In, Careful
  <2>1. CASE Goto(p, "write")
    BY <1>1, <2>0, <2>1, CarefulGoto
  <2>2. CASE Finish(p)
    BY <2>2, CarefulFinish
  <2>3. CASE /\ Known(j.target)
             /\ job' = [job EXCEPT ![p].pc = "drift", ![p].row = row[j.target]]
    <3> DEFINE n == [j EXCEPT !.pc = "drift", !.row = row[j.target]]
    <3>1. row[j.target] \in Row /\ OnRecord(row[j.target], j.target)
      BY <1>1, <2>3 DEF TypeOK, RowsOnRecord, Known
    <3>2. /\ n \in Job /\ n.pc = "drift" /\ n.variant = j.variant /\ n.target = j.target
          /\ n.own = j.own /\ n.graph = j.graph /\ n.row = row[j.target]
      BY <1>1, <3>1 DEF Job
    <3>3. job' = [job EXCEPT ![p] = n]
      BY <2>3
    <3> HIDE DEF n
    <3>4. Careful(n)
      BY <1>1, <2>0, <3>1, <3>2 DEF Careful, Forking, Exporting
    <3> QED BY <3>2, <3>3, <3>4, CarefulMove
  <2> QED BY <1>3, <2>1, <2>2, <2>3 DEF CheckTarget
<1>4. CASE CheckDrift(p)
  <2>0. j.pc = "drift" /\ OnRecord(j.row, j.target)
    BY <1>1, <1>4 DEF CheckDrift, In, Careful
  <2>1. CASE bytes # NoFile /\ Drifts(j.row, bytes)
    <3>1. job' = [job EXCEPT ![p].pc = "edits", ![p].seen = bytes]
      BY <1>4, <2>1 DEF CheckDrift
    <3> HIDE DEF bytes
    <3> QED BY <1>1, <1>2, <2>0, <3>1, CarefulSeen
  <2>2. CASE ~ (bytes # NoFile /\ Drifts(j.row, bytes))
    <3>1. job' = [job EXCEPT ![p].pc = "write", ![p].seen = bytes]
      BY <1>4, <2>2 DEF CheckDrift
    <3>2. bytes = NoFile \/ bytes.graph \in heads[j.target]
      BY <2>0, <2>2 DEF Drifts, OnRecord
    <3> HIDE DEF bytes
    <3> QED BY <1>1, <1>2, <2>0, <3>1, <3>2, CarefulSeen
  <2> QED BY <2>1, <2>2
<1>5. CASE CheckEdits(p)
  <2>0. j.pc = "edits" /\ OnRecord(j.row, j.target)
    BY <1>1, <1>5 DEF CheckEdits, In, Careful
  <2>1. CASE bytes # NoFile /\ HasLocalEdits(j.row, bytes)
    BY <1>5, <2>1, CarefulFinish DEF CheckEdits
  <2>2. CASE ~ (bytes # NoFile /\ HasLocalEdits(j.row, bytes))
    <3>1. job' = [job EXCEPT ![p].pc = "write", ![p].seen = bytes]
      BY <1>5, <2>2 DEF CheckEdits
    <3>2. bytes = NoFile \/ bytes.graph \in heads[j.target]
      <4> SUFFICES ASSUME bytes # NoFile PROVE bytes.graph \in heads[j.target]
        OBVIOUS
      <4>1. PICK h \in {bytes, Canonical(bytes.graph)} :
              h \in j.row.recorded \cup {j.row.hash, Canonical(j.row.head)}
        BY <2>2 DEF HasLocalEdits
      <4>2. h.graph = bytes.graph
        BY DEF Canonical
      <4>3. h.graph \in heads[j.target]
        BY <2>0, <4>1 DEF OnRecord, Canonical
      <4> QED BY <4>2, <4>3
    <3> HIDE DEF bytes
    <3> QED BY <1>1, <1>2, <2>0, <3>1, <3>2, CarefulSeen
  <2> QED BY <2>1, <2>2
<1> QED BY <1>3, <1>4, <1>5

LEMMA CarefulForks ==
  ASSUME FilesInv, JobsCareful, HeadsGrow, NEW p \in Proc, ForkStep(p)
  PROVE  JobsCareful'
<1> USE DEF FilesInv
<1>1. CASE LinkFile(p)
  BY <1>1, CarefulGoto, CarefulFinish DEF LinkFile, In
<1>2. CASE CreateExclusive(p)
  BY <1>2, CarefulGoto DEF CreateExclusive, In
<1>3. CASE FillFile(p)
  BY <1>3, CarefulGoto DEF FillFile, In
<1>4. CASE FillFails(p) \/ Register(p) \/ RemoveFile(p)
  BY <1>4, CarefulFinish DEF FillFails, Register, RemoveFile
<1>5. CASE RegisterFails(p) \/ RegisterUnreceipted(p)
  BY <1>5, CarefulGoto DEF RegisterFails, RegisterUnreceipted, In
<1>6. CASE CheckUnchanged(p)
  <2>1. job[p] # Idle /\ job[p].pc = "undo" /\ file[job[p].target] \in Bytes \cup {NoFile}
    BY <1>6 DEF CheckUnchanged, In, TypeOK, Job
  <2> QED BY <1>6, <2>1, CarefulSeen, CarefulFinish DEF CheckUnchanged
<1> QED BY <1>1, <1>2, <1>3, <1>4, <1>5, <1>6 DEF ForkStep

LEMMA CarefulStep ==
  ASSUME FilesInv, RowsOnRecord, JobsCareful, [Next]_vars
  PROVE  JobsCareful'
<1> USE DEF FilesInv
<1>1. HeadsGrow
  BY RecordStep
<1>2. ASSUME job' = job PROVE JobsCareful'
  <2> SUFFICES ASSUME NEW q \in Proc, job[q] # Idle PROVE Careful(job[q])'
    BY <1>2 DEF JobsCareful
  <2>1. job[q] \in Job /\ Careful(job[q])
    BY DEF TypeOK, JobsCareful
  <2> QED BY <1>1, <1>2, <2>1 DEF Careful, OnRecord, HeadsGrow, Job
<1>3. ASSUME NEW p \in Proc, SyncCommit(p) \/ Stop(p) PROVE JobsCareful'
  BY <1>1, <1>3, CarefulFinish DEF SyncCommit, Stop
<1>4. ASSUME NEW p \in Proc, ExportStep(p) PROVE JobsCareful'
  <2>1. CASE WriteFile(p)
    BY <1>1, <2>1, CarefulGoto, CarefulFinish DEF WriteFile, In
  <2>2. CASE RecordHash(p)
    BY <1>1, <2>2, CarefulFinish DEF RecordHash
  <2> QED BY <1>1, <1>4, <2>1, <2>2, CarefulChecks DEF ExportStep
<1>5. CASE \/ \E v \in Variant, g \in Graph : SyncInline(v, g) \/ RevisePlan(v, g)
           \/ Archive
           \/ \E v \in Variant : \/ \E g \in Graph \cup {Broken} : UserSaves(v, g)
                                 \/ UserDeletes(v)
  BY <1>2, <1>5 DEF SyncInline, RevisePlan, Archive, Transact, UserSaves, UserDeletes, Edit
<1>6. CASE UNCHANGED vars
  BY <1>2, <1>6 DEF vars
<1> QED BY <1>1, <1>3, <1>4, <1>5, <1>6, CarefulBegins, CarefulForks DEF Next

-----------------------------------------------------------------------------
(* Files                                                                   *)

LEMMA DirtyStep ==
  ASSUME FilesInv, JobsCareful, DirtyIsUsers, [Next]_vars
  PROVE  DirtyIsUsers'
<1> USE DEF FilesInv
<1>1. ASSUME UNCHANGED <<file, dirty>> PROVE DirtyIsUsers'
  BY <1>1 DEF DirtyIsUsers
<1>2. ASSUME NEW t \in Variant, NEW bytes, Put(t, bytes) PROVE DirtyIsUsers'
  BY <1>2 DEF DirtyIsUsers, Put, TypeOK
<1>3. ASSUME NEW p \in Proc, In(p, job[p].pc) PROVE job[p].target \in Variant
  BY <1>3 DEF In, TypeOK, Job
<1>4. ASSUME NEW p \in Proc, SyncCommit(p) PROVE DirtyIsUsers'
  BY <1>4 DEF SyncCommit, DirtyIsUsers
<1>5. ASSUME NEW p \in Proc, ForkStep(p) PROVE DirtyIsUsers'
  BY <1>1, <1>2, <1>3, <1>5 DEF ForkStep, LinkFile, CreateExclusive, FillFile, FillFails,
     Register, RegisterFails, RegisterUnreceipted, CheckUnchanged, RemoveFile, Remove, In,
     history
<1>6. ASSUME NEW p \in Proc, ExportStep(p) PROVE DirtyIsUsers'
  BY <1>1, <1>2, <1>3, <1>6 DEF ExportStep, CheckTarget, CheckDrift, CheckEdits, WriteFile,
     RecordHash, In, history
<1>7. ASSUME NEW v \in Variant, NEW g \in Graph \cup {Broken}, UserSaves(v, g)
      PROVE  DirtyIsUsers'
  <2>1. [graph |-> g, form |-> "user"] # NoFile
    BY NothingAssumption DEF Bytes
  <2> QED BY <1>7, <2>1 DEF UserSaves, DirtyIsUsers, TypeOK
<1>8. ASSUME NEW v \in Variant, UserDeletes(v) PROVE DirtyIsUsers'
  BY <1>2, <1>8 DEF UserDeletes, Remove
<1>9. ASSUME \/ \E v \in Variant, g \in Graph : SyncInline(v, g) \/ RevisePlan(v, g)
             \/ Archive
             \/ \E p \in Proc :
                  \/ \E v \in Variant : SyncRead(p, v)
                  \/ \E u, v \in Variant, g \in Graph : Fork(p, u, v, g)
                  \/ \E v, t \in Variant, force \in BOOLEAN : Export(p, v, t, force)
                  \/ Stop(p)
             \/ UNCHANGED vars
      PROVE  DirtyIsUsers'
  BY <1>1, <1>9 DEF SyncInline, RevisePlan, Archive, Transact, SyncRead, Fork, Export, Stop,
                    history, vars
<1> QED BY <1>4, <1>5, <1>6, <1>7, <1>8, <1>9 DEF Next

LEMMA OwnershipMoves ==
  ASSUME NEW v \in Variant, NEW p \in Proc,
         \A q \in Proc \ {p} : job'[q] = job[q],
         file'[v] = file[v],
         v \in foreign \/ Owned(v),
         v \in foreign => v \in foreign',
         Owns(job[p], v, file[v]) => v \in foreign' \/ Owns(job'[p], v, file[v])
  PROVE  v \in foreign' \/ Owned(v)'
<1>1. CASE v \in foreign
  BY <1>1
<1>2. ASSUME NEW q \in Proc, Owns(job[q], v, file[v]) PROVE v \in foreign' \/ Owned(v)'
  <2>1. v \in foreign' \/ Owns(job'[q], v, file'[v])
    BY <1>2
  <2> QED BY <2>1 DEF Owned, Owns
<1> QED BY <1>1, <1>2 DEF Owned

(* A fork's file is its own until its row is there, or it is taken back. *)
LEMMA StrayForks ==
  ASSUME FilesInv, JobsCareful, NoStrayFile, RowsStay, NEW p \in Proc, ForkStep(p),
         NEW v \in Variant, file'[v] # NoFile, ~ Known(v)'
  PROVE  v \in foreign' \/ Owned(v)'
<1> USE DEF FilesInv
<1> DEFINE j == job[p]
<1>1. /\ j # Idle /\ j \in Job /\ Careful(j) /\ j.target \in Variant
      /\ \A q \in Proc \ {p} : job'[q] = job[q]
  <2>1. j # Idle /\ \A q \in Proc \ {p} : job'[q] = job[q]
    BY DEF ForkStep, LinkFile, CreateExclusive, FillFile, FillFails, Register, RegisterFails,
           RegisterUnreceipted, CheckUnchanged, RemoveFile, In, Goto, Finish, TypeOK
  <2> QED BY <2>1 DEF TypeOK, Job, JobsCareful
<1>2. ~ Known(v) /\ (file[v] # NoFile => v \in foreign \/ Owned(v))
  BY DEF RowsStay, NoStrayFile
<1>3. ASSUME Owns(job'[p], v, file'[v]) PROVE Owned(v)'
  BY <1>3 DEF Owned, Owns
<1>4. ASSUME NEW pc \in {"fill", "register", "undo"}, Goto(p, pc)
      PROVE  /\ job'[p] # Idle /\ job'[p].pc = pc
             /\ job'[p].target = j.target /\ job'[p].graph = j.graph
  <2>1. job'[p] = [j EXCEPT !.pc = pc]
    BY <1>1, <1>4 DEF Goto, TypeOK
  <2>2. [j EXCEPT !.pc = pc] \in Job
    BY <1>1 DEF Job
  <2> QED BY <1>1, <2>1, <2>2, NothingAssumption DEF Job
<1> HIDE DEF j
<1>5. ASSUME v # j.target, file'[v] = file[v], v \in foreign => v \in foreign'
      PROVE  v \in foreign' \/ Owned(v)'
  BY <1>1, <1>2, <1>5, OwnershipMoves DEF Owns, j
<1>6. ASSUME file'[v] = file[v], v \in foreign => v \in foreign',
             Owns(j, v, file[v]) => Owns(job'[p], v, file[v])
      PROVE  v \in foreign' \/ Owned(v)'
  BY <1>1, <1>2, <1>6, OwnershipMoves DEF j
<1>7. ASSUME NEW bytes, Put(j.target, bytes)
      PROVE  file'[j.target] = bytes /\ (v # j.target => file'[v] = file[v])
  BY <1>1, <1>7 DEF Put, TypeOK
<1>8. CASE LinkFile(p)
  <2>1. j.pc = "create" /\ foreign' = foreign
    BY <1>8 DEF LinkFile, In, j
  <2>2. CASE Put(j.target, Pretty(j.graph)) /\ Goto(p, "register")
    <3>1. CASE v = j.target
      <4>1. Owns(job'[p], v, file'[v])
        BY <1>4, <1>7, <2>2, <3>1 DEF Owns
      <4> QED BY <1>3, <4>1
    <3>2. CASE v # j.target
      BY <1>5, <1>7, <2>1, <2>2, <3>2
    <3> QED BY <3>1, <3>2
  <2>3. CASE file' = file
    BY <1>6, <2>1, <2>3 DEF Owns
  <2> QED BY <1>8, <2>2, <2>3 DEF LinkFile, j
<1>9. CASE CreateExclusive(p)
  <2>1. Put(j.target, Partial) /\ Goto(p, "fill") /\ foreign' = foreign
    BY <1>9 DEF CreateExclusive, j
  <2>2. CASE v = j.target
    <3>1. Owns(job'[p], v, file'[v])
      BY <1>4, <1>7, <2>1, <2>2 DEF Owns
    <3> QED BY <1>3, <3>1
  <2>3. CASE v # j.target
    BY <1>5, <1>7, <2>1, <2>3
  <2> QED BY <2>2, <2>3
<1>10. CASE FillFile(p)
  <2>1. j.pc = "fill" /\ Goto(p, "register") /\ foreign' = foreign
    BY <1>10 DEF FillFile, In, j
  <2>2. CASE file[j.target] = Partial /\ Put(j.target, Pretty(j.graph))
    <3>1. CASE v = j.target
      <4>1. Owns(job'[p], v, file'[v])
        BY <1>4, <1>7, <2>1, <2>2, <3>1 DEF Owns
      <4> QED BY <1>3, <4>1
    <3>2. CASE v # j.target
      BY <1>5, <1>7, <2>1, <2>2, <3>2
    <3> QED BY <3>1, <3>2
  <2>3. CASE file[j.target] # Partial /\ file' = file
    BY <1>6, <2>1, <2>3 DEF Owns
  <2> QED BY <1>10, <2>2, <2>3 DEF FillFile, j
<1>11. CASE FillFails(p) \/ RemoveFile(p)
  <2>1. Put(j.target, NoFile) /\ foreign' = foreign \ {j.target}
    BY <1>11 DEF FillFails, RemoveFile, Remove, j
  <2>2. v # j.target
    BY <1>7, <2>1
  <2> QED BY <1>5, <1>7, <2>1, <2>2
<1>12. CASE Register(p) \/ RegisterUnreceipted(p)
  <2>1. j.pc = "register" /\ j.target = j.variant /\ foreign' = foreign /\ file' = file
    BY <1>1, <1>12 DEF Register, RegisterUnreceipted, In, Careful, Forking, j
  <2>2. j.graph \in Graph /\ j.variant \in Variant
    BY <1>1 DEF Job
  <2>3. Created(j.graph, Pretty(j.graph), TRUE) \in Row
    BY <2>2, HashTypes, CreatedType
  <2>4. row' = [row EXCEPT ![j.variant] = Created(j.graph, Pretty(j.graph), TRUE)]
    BY <1>12 DEF Register, RegisterUnreceipted, Write, j
  <2>5. v # j.target
    BY <2>1, <2>2, <2>3, <2>4, NoRowAssumption DEF Known, TypeOK
  <2> QED BY <1>5, <2>1, <2>5
<1>13. CASE RegisterFails(p)
  <2>1. j.pc = "register" /\ Goto(p, "undo") /\ foreign' = foreign /\ file' = file
    BY <1>13 DEF RegisterFails, In, history, j
  <2> QED BY <1>4, <1>6, <2>1 DEF Owns
<1>14. CASE CheckUnchanged(p)
  <2>1. j.pc = "undo" /\ foreign' = foreign /\ file' = file
    BY <1>14 DEF CheckUnchanged, In, history, j
  <2>2. CASE file[j.target] = Pretty(j.graph)
    <3>1. job' = [job EXCEPT ![p].pc = "remove", ![p].seen = file[j.target]]
      BY <1>14, <2>2 DEF CheckUnchanged, j
    <3>2. /\ job'[p].pc = "remove" /\ job'[p].target = j.target
          /\ job'[p].graph = j.graph
      BY <1>1, <3>1 DEF TypeOK, Job, j
    <3>3. file[j.target] \in Bytes \cup {NoFile}
      BY <1>1 DEF TypeOK
    <3>4. job'[p] \in Job
      BY <1>1, <3>1, <3>3 DEF TypeOK, Job, j
    <3>5. job'[p] # Idle
      BY <3>4, NothingAssumption
    <3> QED BY <1>6, <2>1, <3>2, <3>5 DEF Owns
  <2>3. CASE file[j.target] # Pretty(j.graph)
    BY <1>6, <2>1, <2>3 DEF Owns
  <2> QED BY <2>2, <2>3
<1> QED BY <1>8, <1>9, <1>10, <1>11, <1>12, <1>13, <1>14 DEF ForkStep

(* An export writes to its own file, or one that is not the planner's. *)
LEMMA StrayExports ==
  ASSUME FilesInv, JobsCareful, NoStrayFile, RowsStay, NEW p \in Proc, ExportStep(p),
         NEW v \in Variant, file'[v] # NoFile, ~ Known(v)'
  PROVE  v \in foreign' \/ Owned(v)'
<1> USE DEF FilesInv
<1>1. /\ job[p] # Idle /\ job[p].pc \in Exporting
      /\ \A q \in Proc \ {p} : job'[q] = job[q]
  BY DEF ExportStep, CheckTarget, CheckDrift, CheckEdits, WriteFile, RecordHash,
         In, Exporting, Goto, Finish, TypeOK
<1>2. ~ Known(v) /\ (file[v] # NoFile => v \in foreign \/ Owned(v))
  BY DEF RowsStay, NoStrayFile
<1>3. ~ Owns(job[p], v, file[v])
  BY <1>1 DEF Owns, Exporting
<1>4. CASE WriteFile(p) /\ v = job[p].target
  <2>1. job[p] \in Job /\ Careful(job[p]) /\ Known(job[p].variant)
    BY <1>1 DEF TypeOK, JobsCareful, JobsFit, Fits
  <2>2. ~ job[p].own
    BY <1>2, <1>4, <2>1 DEF Careful
  <2> QED BY <1>4, <2>2 DEF WriteFile
<1>5. CASE WriteFile(p) /\ v # job[p].target
  <2>1. file'[v] = file[v] /\ (v \in foreign => v \in foreign')
    BY <1>5 DEF WriteFile, Put, TypeOK
  <2> QED BY <1>1, <1>2, <1>3, <2>1, OwnershipMoves
<1>6. CASE file' = file /\ foreign' = foreign
  BY <1>1, <1>2, <1>3, <1>6, OwnershipMoves
<1> QED BY <1>4, <1>5, <1>6 DEF ExportStep, CheckTarget, CheckDrift, CheckEdits, RecordHash,
           history

LEMMA StrayCalls ==
  ASSUME FilesInv, NoStrayFile, RowsStay, NEW p \in Proc,
         \/ \E v \in Variant : SyncRead(p, v)
         \/ \E u, v \in Variant, g \in Graph : Fork(p, u, v, g)
         \/ \E v, t \in Variant, force \in BOOLEAN : Export(p, v, t, force)
         \/ SyncCommit(p)
         \/ Stop(p),
         NEW v \in Variant, file'[v] # NoFile, ~ Known(v)'
  PROVE  v \in foreign' \/ Owned(v)'
<1> USE DEF FilesInv
<1>1. file' = file /\ \A q \in Proc \ {p} : job'[q] = job[q]
  BY DEF SyncRead, Fork, Export, Begin, SyncCommit, Stop, Finish, TypeOK
<1>2. v \in foreign \/ Owned(v)
  BY <1>1 DEF RowsStay, NoStrayFile
<1>3. ASSUME job[p] = Idle, foreign' = foreign PROVE v \in foreign' \/ Owned(v)'
  BY <1>1, <1>2, <1>3, OwnershipMoves DEF Owns
<1>4. CASE SyncCommit(p)
  <2> DEFINE j == job[p]
             n == Synced(row[j.variant], j.graph, j.seen, TRUE)
  <2>1. j \in Job /\ j.seen \in Bytes /\ j.seen.graph = j.graph /\ j.pc = "commit"
    BY <1>4 DEF SyncCommit, TypeOK, JobsFit, Fits, In
  <2>2. j.variant \in Variant /\ j.graph \in Graph /\ row[j.variant] \in Row \cup {NoRow}
    BY <2>1 DEF Job, TypeOK
  <2>3. n \in Row
    BY <2>1, <2>2, BytesAreHashes, SyncedType
  <2>4. row' = [row EXCEPT ![j.variant] = n] /\ foreign \ {j.variant} \subseteq foreign'
    BY <1>4 DEF SyncCommit, Write
  <2> HIDE DEF n
  <2>5. v # j.variant
    BY <2>2, <2>3, <2>4, NoRowAssumption DEF Known, TypeOK
  <2>6. ~ Owns(j, v, file[v])
    BY <2>1 DEF Owns
  <2> QED BY <1>1, <1>2, <2>4, <2>5, <2>6, OwnershipMoves
<1>5. CASE Stop(p)
  BY <1>1, <1>2, <1>5, OwnershipMoves DEF Stop, Owns
<1> QED BY <1>3, <1>4, <1>5 DEF SyncRead, Fork, Export, Begin, history

LEMMA StrayStep ==
  ASSUME FilesInv, RowsOnRecord, JobsCareful, NoStrayFile, [Next]_vars
  PROVE  NoStrayFile'
<1> USE DEF FilesInv
<1>1. RowsStay
  BY RecordStep
<1> SUFFICES ASSUME NEW v \in Variant, file'[v] # NoFile, ~ Known(v)'
             PROVE  v \in foreign' \/ Owned(v)'
  BY DEF NoStrayFile
<1>2. ASSUME file'[v] = file[v], job' = job, v \in foreign => v \in foreign'
      PROVE  v \in foreign' \/ Owned(v)'
  BY <1>1, <1>2 DEF RowsStay, NoStrayFile, Owned, Owns
<1>3. CASE \/ \E u \in Variant, g \in Graph : SyncInline(u, g) \/ RevisePlan(u, g)
           \/ Archive
  BY <1>2, <1>3 DEF SyncInline, RevisePlan, Archive, Transact, history
<1>4. ASSUME NEW u \in Variant, NEW g \in Graph \cup {Broken}, UserSaves(u, g)
      PROVE  v \in foreign' \/ Owned(v)'
  BY <1>2, <1>4 DEF UserSaves, Edit, TypeOK
<1>5. ASSUME NEW u \in Variant, UserDeletes(u)
      PROVE  v \in foreign' \/ Owned(v)'
  BY <1>2, <1>5 DEF UserDeletes, Remove, Put, Edit, TypeOK
<1>6. CASE UNCHANGED vars
  BY <1>2, <1>6 DEF vars, history
<1> QED BY <1>1, <1>3, <1>4, <1>5, <1>6, StrayForks, StrayExports, StrayCalls DEF Next

-----------------------------------------------------------------------------
LEMMA CareInvInit == Init => CareInv
<1> SUFFICES ASSUME Init PROVE RowsOnRecord /\ JobsCareful /\ DirtyIsUsers /\ NoStrayFile
  BY FilesInvInit DEF CareInv
<1> QED BY DEF Init, RowsOnRecord, Known, JobsCareful, DirtyIsUsers, NoStrayFile

LEMMA CareInvNext == CareInv /\ [Next]_vars => CareInv'
  BY FilesInvNext, RecordStep, CarefulStep, DirtyStep, StrayStep DEF CareInv

(* A fork that fails takes its file back (planner.rs:1342), for any number *)
(* of variants, graphs, processes and calls: a file without a row is a     *)
(* user's, another path's or a stopped process's, or its fork is under way *)
(* - and then it is that fork's file, which no other call has written.     *)
THEOREM ForksTakeTheirFilesBack == Spec => []FailedForkLeavesNoFile
<1>1. CareInv => FailedForkLeavesNoFile
  <2> SUFFICES ASSUME CareInv, NEW v \in Variant, file[v] # NoFile, ~ Known(v),
                      v \notin foreign
               PROVE  \E p \in Proc : \E pc \in {"fill", "register", "undo", "remove"} :
                        In(p, pc) /\ job[p].target = v
    BY DEF FailedForkLeavesNoFile
  <2>1. PICK p \in Proc : Owns(job[p], v, file[v])
    BY DEF CareInv, NoStrayFile, Owned
  <2> QED BY <2>1 DEF Owns, In
<1> QED BY <1>1, CareInvInit, CareInvNext, PTL DEF Spec

(* A call replaces the bytes of a file that a user has saved only if it is *)
(* forced, or has not seen them.                                           *)
LEMMA EditsKeptStep ==
  ASSUME CareInv, [Next]_vars, NEW v \in Variant, v \in dirty,
         file[v].graph \notin heads[v], file'[v] # file[v], job' # job
  PROVE  \E p \in Proc : /\ job[p] # Idle /\ job'[p] # job[p]
                         /\ job[p].target = v
                         /\ job[p].force \/ job[p].seen # file[v]
<1> USE DEF CareInv, FilesInv
<1>1. file[v] # NoFile /\ file[v].form = "user"
  BY DEF DirtyIsUsers
<1>2. file' # file
  OBVIOUS
<1>3. ASSUME NEW t \in Variant, NEW bytes, Put(t, bytes) PROVE t = v
  BY <1>3 DEF Put, TypeOK
<1>4. ASSUME NEW p \in Proc, job[p] # Idle
      PROVE  /\ job[p] \in Job /\ Careful(job[p]) /\ job[p].target \in Variant
             /\ Pretty(job[p].graph) # file[v] /\ Partial # file[v]
  <2>1. job[p] \in Job /\ Careful(job[p])
    BY <1>4 DEF TypeOK, JobsCareful
  <2> QED BY <1>1, <2>1 DEF Job, Pretty, Partial
<1>5. ASSUME NEW p \in Proc, LinkFile(p) \/ CreateExclusive(p) \/ FillFile(p) PROVE FALSE
  <2>1. job[p] # Idle
    BY <1>5 DEF LinkFile, CreateExclusive, FillFile, In
  <2> QED BY <1>1, <1>2, <1>3, <1>4, <1>5, <2>1 DEF LinkFile, CreateExclusive, FillFile
<1>6. ASSUME NEW p \in Proc, FillFails(p) \/ RemoveFile(p)
      PROVE  /\ job[p] # Idle /\ job'[p] # job[p] /\ job[p].target = v
             /\ job[p].seen # file[v]
  <2>1. job[p] # Idle /\ job'[p] = Idle /\ job[p].pc \in {"fill", "remove"}
    BY <1>6 DEF FillFails, RemoveFile, In, Finish, TypeOK
  <2>2. job[p].seen = NoFile \/ job[p].seen = Pretty(job[p].graph)
    BY <1>4, <2>1 DEF Careful
  <2>3. job[p].target = v
    BY <1>3, <1>4, <1>6, <2>1 DEF FillFails, RemoveFile, Remove
  <2> QED BY <1>1, <1>4, <2>1, <2>2, <2>3
<1>7. ASSUME NEW p \in Proc, WriteFile(p)
      PROVE  /\ job[p] # Idle /\ job'[p] # job[p] /\ job[p].target = v
             /\ job[p].force \/ job[p].seen # file[v]
  <2>1. job[p] # Idle /\ job[p].pc = "write" /\ job[p] \in Job
    BY <1>4, <1>7 DEF WriteFile, In
  <2>2. job[p].target = v
    BY <1>3, <1>4, <1>7, <2>1 DEF WriteFile
  <2>3. job[p].force \/ job[p].seen # file[v]
    BY <1>1, <1>4, <2>1, <2>2 DEF Careful
  <2>4. job'[p] # job[p]
    <3>1. CASE Goto(p, "record")
      BY <2>1, <3>1 DEF Goto, TypeOK, Job
    <3>2. CASE Finish(p)
      BY <2>1, <3>2 DEF Finish, TypeOK
    <3> QED BY <1>7, <3>1, <3>2 DEF WriteFile
  <2> QED BY <2>1, <2>2, <2>3, <2>4
<1>8. PICK p \in Proc : ForkStep(p) \/ ExportStep(p)
  BY <1>2 DEF Next, SyncInline, RevisePlan, Archive, Transact, SyncRead, Fork, Export,
              SyncCommit, Stop, UserSaves, UserDeletes, Edit, vars
<1>9. LinkFile(p) \/ CreateExclusive(p) \/ FillFile(p) \/ FillFails(p) \/ RemoveFile(p)
      \/ WriteFile(p)
  BY <1>2, <1>8 DEF ForkStep, ExportStep, Register, RegisterFails,
                    RegisterUnreceipted, CheckUnchanged, CheckTarget, CheckDrift, CheckEdits, RecordHash
<1> QED BY <1>5, <1>6, <1>7, <1>9

(* No call destroys a user's work (check_export_target,                    *)
(* remove_plan_file_if_unchanged), for any number of variants, graphs,     *)
(* processes and calls: unread edits that no revision holds are replaced   *)
(* or removed only by a forced export, or by a call that looked before     *)
(* they were saved.                                                        *)
THEOREM EditsAreKept == Spec => UserEditsKept
<1> DEFINE Kept ==
      \A v \in Variant :
        v \in dirty /\ Known(v) /\ row[v].tracked
          /\ file[v].graph \notin heads[v] /\ file'[v] # file[v] =>
            \/ job' = job
            \/ \E p \in Proc : /\ job[p] # Idle /\ job'[p] # job[p]
                               /\ job[p].target = v
                               /\ job[p].force \/ job[p].seen # file[v]
<1>1. CareInv /\ [Next]_vars => [Kept]_vars
  BY EditsKeptStep
<1> QED BY <1>1, CareInvInit, CareInvNext, PTL DEF Spec, UserEditsKept

=============================================================================
