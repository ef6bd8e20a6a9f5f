---------------------------- MODULE SkillsProofs ----------------------------
(***************************************************************************)
(* The installer, for any number of processes, targets, versions and files: *)
(* the root's lock excludes its processes from each other unless a lock    *)
(* file was removed while another process had it open; whatever the lock   *)
(* does, what the user wrote is the user's; and while it excludes, the     *)
(* installer knows its own files, and a root that several targets share    *)
(* keeps what an install completed.                                        *)
(*                                                                         *)
(* Every step of a process is first described by what it does to the       *)
(* process, its job and the root (Moves, Planning, Applying and the lemmas *)
(* named after the actions); the invariants are proved from these.         *)
(***************************************************************************)
EXTENDS Skills, TLAPS

(* The part of the state the lock depends on. *)
LockTypes ==
    /\ pc \in [Runs -> Places]
    /\ ino \in [Runs -> Inodes \cup {None}]
    /\ lockfile \in Inodes \cup {None}
    /\ unlinked \in BOOLEAN

Opened == {"wait"} \cup Critical

(* Two processes never hold the lock of one inode; a process that waits for or
   holds the lock has a lock file open; and, unless one was removed under a
   process, the lock file a process has open is the one at the path. *)
LockInv ==
    /\ LockTypes
    /\ \A r, s \in Runs : pc[r] \in Critical /\ pc[s] \in Critical /\ ino[r] = ino[s] => r = s
    /\ \A r \in Runs : pc[r] \in Opened => ino[r] # None
    /\ ~unlinked => \A r \in Runs : ino[r] # None => ino[r] = lockfile

LEMMA LockInitially == Init => LockInv
  BY DEF Init, LockInv, LockTypes, Opened, Critical, Places

(* A step of process r that leaves the lock file, the open files and the history
   alone, and enters no place where the lock is held that r was not in before. *)
LEMMA LockKept ==
  ASSUME LockInv, NEW r \in Runs, NEW p \in Places,
         pc' = [pc EXCEPT ![r] = p],
         p \in Critical => pc[r] \in Critical,
         p \in Opened => pc[r] \in Opened,
         UNCHANGED <<lockfile, ino, unlinked>>
  PROVE  LockInv'
  BY DEF LockInv, LockTypes, Opened, Critical, Places

(* A step that closes the files of process r. *)
LEMMA LockClosed ==
  ASSUME LockInv, NEW r \in Runs, NEW p \in Places \ Opened,
         pc' = [pc EXCEPT ![r] = p],
         ino' = [ino EXCEPT ![r] = None],
         UNCHANGED <<lockfile, unlinked>>
  PROVE  LockInv'
  BY DEF LockInv, LockTypes, Opened, Critical, Places

(* Opening the lock file, when it exists and when it is created. *)
LEMMA LockOpened ==
  ASSUME LockInv, NEW r \in Runs, pc[r] = "open", OpenLock(r)
  PROVE  LockInv'
  <1>1. CASE ~dir /\ Ends(r) /\ UNCHANGED lockfile
    <2>1. pc' = [pc EXCEPT ![r] = "idle"] /\ ino' = [ino EXCEPT ![r] = None]
      BY <1>1 DEF Ends, Goto
    <2>2. UNCHANGED <<lockfile, unlinked>>
      BY <1>1 DEF OpenLock, history
    <2>3. "idle" \in Places \ Opened
      BY DEF Opened, Critical, Places
    <2> QED  BY <2>1, <2>2, <2>3, LockClosed
  <1>2. CASE dir /\ lockfile # None
    BY <1>2 DEF OpenLock, LockInv, LockTypes, Opened, Critical, Places, Goto, history
  <1>3. CASE dir /\ lockfile = None
    <2>1. PICK i \in Inodes : /\ \A s \in Runs : ino[s] # i
                              /\ lockfile' = i /\ ino' = [ino EXCEPT ![r] = i]
      BY <1>3 DEF OpenLock
    <2>2. pc' = [pc EXCEPT ![r] = "wait"] /\ unlinked' = unlinked
      BY <1>3 DEF OpenLock, Goto, history
    <2>3. ~unlinked => \A s \in Runs : ino[s] = None
      BY <1>3, SkillsAssumption DEF LockInv, LockTypes
    <2> QED  BY <2>1, <2>2, <2>3, SkillsAssumption DEF LockInv, LockTypes, Opened, Critical, Places
  <1> QED  BY <1>1, <1>2, <1>3 DEF OpenLock

LEMMA LockTaken ==
  ASSUME LockInv, NEW r \in Runs, TryLock(r)
  PROVE  LockInv'
  BY DEF TryLock, Blocked, Goto, root, history, LockInv, LockTypes, Opened, Critical, Places

(* Removing the lock file: either nobody has it open, or the step says so. *)
LEMMA LockRemoved ==
  ASSUME LockInv, NEW r \in Runs, RemoveLock(r)
  PROVE  LockInv'
  <1>1. pc' = [pc EXCEPT ![r] = "rmdir"] /\ ino' = ino /\ lockfile' = None
    BY DEF RemoveLock, Goto
  <1>2. unlinked' = (unlinked \/ (lockfile # None /\ \E s \in Runs : ino[s] = lockfile))
    BY DEF RemoveLock
  <1>3. ~unlinked' => \A s \in Runs : ino[s] = None
    BY <1>2 DEF LockInv, LockTypes
  <1> QED  BY <1>1, <1>2, <1>3 DEF LockInv, LockTypes, Opened, Critical, Places

LEMMA LockStep ==
  ASSUME LockInv, [Next]_vars
  PROVE  LockInv'
  <1>1. CASE UNCHANGED vars
    BY <1>1 DEF vars, root, history, LockInv, LockTypes
  <1>2. CASE \E f \in Files : EditFile(f)
    BY <1>2 DEF EditFile, LockInv, LockTypes
  <1>3. CASE EditAgents
    BY <1>3 DEF EditAgents, root, LockInv, LockTypes
  <1>4. ASSUME NEW r \in Runs, Start(r) \/ Step(r) \/ Kill(r)
        PROVE  LockInv'
    <2>1. CASE Start(r)
      BY <2>1, LockKept DEF Start, Goto, root, history, Opened, Critical, Places
    <2>2. CASE MakeRoot(r)
      BY <2>2, LockKept DEF MakeRoot, Goto, history, Opened, Critical, Places
    <2>3. CASE OpenLock(r)
      BY <2>3, LockOpened DEF OpenLock
    <2>4. CASE TryLock(r)
      BY <2>4, LockTaken
    <2>5. CASE GiveUp(r) \/ Leave(r) \/ Kill(r)
      <3>1. pc' = [pc EXCEPT ![r] = "idle"] /\ ino' = [ino EXCEPT ![r] = None]
        BY <2>5 DEF GiveUp, Leave, Kill, Ends, Goto
      <3>2. UNCHANGED <<lockfile, unlinked>>
        BY <2>5 DEF GiveUp, Leave, Kill, root, history
      <3>3. "idle" \in Places \ Opened
        BY DEF Opened, Critical, Places
      <3> QED  BY <3>1, <3>2, <3>3, LockClosed
    <2>6. CASE Plan(r)
      <3>1. pc[r] = "plan" /\ UNCHANGED <<lockfile, ino, unlinked>>
        BY <2>6 DEF Plan, root
      <3>2. PICK p \in {"unlock", "save", "apply"} : pc' = [pc EXCEPT ![r] = p]
        BY <2>6 DEF Plan, Release, Goto
      <3> QED  BY <3>1, <3>2, LockKept DEF Opened, Critical, Places
    <2>7. CASE Apply(r)
      <3>1. pc[r] = "apply" /\ UNCHANGED <<lockfile, ino, unlinked>>
        BY <2>7 DEF Apply
      <3>2. PICK p \in {"save", "apply"} : pc' = [pc EXCEPT ![r] = p]
        BY <2>7 DEF Apply, Goto
      <3> QED  BY <3>1, <3>2, LockKept DEF Opened, Critical, Places
    <2>8. CASE ApplyFails(r) \/ Save(r) \/ WriteAgents(r) \/ Record(r) \/ WriteFails(r)
      <3>1. pc[r] \in {"apply", "save", "agents", "record"} /\ UNCHANGED <<lockfile, ino, unlinked>>
        BY <2>8 DEF ApplyFails, Save, WriteAgents, Record, WriteFails, root, history
      <3>2. PICK p \in {"unlock", "agents", "record"} : pc' = [pc EXCEPT ![r] = p]
        BY <2>8 DEF ApplyFails, Save, WriteAgents, Record, WriteFails, Release, Goto
      <3> QED  BY <3>1, <3>2, LockKept DEF Opened, Critical, Places
    <2>9. CASE Unlock(r)
      <3>1. UNCHANGED <<lockfile, unlinked>> /\ ino' = [ino EXCEPT ![r] = None]
        BY <2>9 DEF Unlock, root, history
      <3>2. PICK p \in {"check", "idle"} : pc' = [pc EXCEPT ![r] = p]
        BY <2>9 DEF Unlock, Goto
      <3> QED  BY <3>1, <3>2, LockClosed DEF Opened, Critical, Places
    <2>10. CASE CheckEmpty(r)
      <3>1. UNCHANGED <<lockfile, ino, unlinked>>
        BY <2>10 DEF CheckEmpty, root, history
      <3>2. PICK p \in {"rmlock", "leave"} : pc' = [pc EXCEPT ![r] = p]
        BY <2>10 DEF CheckEmpty, Goto
      <3> QED  BY <3>1, <3>2, LockKept DEF Opened, Critical, Places
    <2>11. CASE RemoveLock(r)
      BY <2>11, LockRemoved
    <2>12. CASE RemoveRoot(r)
      BY <2>12, LockKept DEF RemoveRoot, Goto, history, Opened, Critical, Places
    <2> QED
      BY <1>4, <2>1, <2>2, <2>3, <2>4, <2>5, <2>6, <2>7, <2>8, <2>9, <2>10, <2>11, <2>12 DEF Step
  <1> QED  BY <1>1, <1>2, <1>3, <1>4 DEF Next

(* Two processes that both hold a lock hold it on the file at the path, so they
   are one process. *)
LEMMA LockSuffices == LockInv => LockExcludes
  BY DEF LockInv, LockExcludes, OneWriter, Opened

(* Processes exclude each other while they change the root and AGENTS.md, as long
   as no lock file was removed while another process had it open (RootLock). *)
THEOREM InstallersExcluded == Spec => []LockExcludes
  <1>1. Init => LockInv
    BY LockInitially
  <1>2. LockInv /\ [Next]_vars => LockInv'
    BY LockStep
  <1>3. LockInv => LockExcludes
    BY LockSuffices
  <1> QED  BY <1>1, <1>2, <1>3, PTL DEF Spec

-----------------------------------------------------------------------------
(* What a process holds in hand *)

(* What decide and plan_removal may have decided about a file. *)
Ops ==
    {[act |-> "write", entry |-> "set"], [act |-> "none", entry |-> "set"],
     [act |-> "none", entry |-> "keep"], [act |-> "remove", entry |-> "drop"],
     [act |-> "none", entry |-> "drop"]}

Todos == UNION {[S -> Ops] : S \in SUBSET Files}

AgentsPlans ==
    [to : [exists : BOOLEAN, own : BOOLEAN, block : Versions \cup {None}],
     record : Versions \cup {None}, created : BOOLEAN]

Jobs ==
    [cmd : {"install", "uninstall"}, target : Targets, version : Versions \cup {None},
     force : BOOLEAN, made : BOOLEAN, planned : BOOLEAN, todo : Todos,
     manifest : Manifests \cup {None}, agents : AgentsPlans \cup {None}]

Planned == {"apply", "save", "agents", "record"}
Working == {"mkdir", "open", "wait", "plan"} \cup Planned

JobFits(p, j) ==
    /\ j \in Jobs
    /\ p \in Working => j.version \in Versions
    /\ p \in {"apply", "save"} => j.manifest \in Manifests
    /\ p \in {"agents", "record"} => j.agents \in AgentsPlans \ {None}
    /\ p \in {"save", "agents", "record"} => DOMAIN j.todo = {}

JobTypes ==
    /\ job \in [Runs -> Jobs \cup {None}]
    /\ \A r \in Runs : pc[r] # "idle" => JobFits(pc[r], job[r])

Typed == TypeOK /\ JobTypes

LEMMA TodoTypes ==
  /\ NoOps \in Todos /\ DOMAIN NoOps = {}
  /\ \A t \in Todos : DOMAIN t \subseteq Files /\ \A f \in DOMAIN t : t[f] \in Ops
  /\ \A S \in SUBSET Files : \A t \in [S -> Ops] : t \in Todos
  <1>1. NoOps \in [{} -> Ops] /\ DOMAIN NoOps = {}
    BY DEF NoOps
  <1>2. \A S \in SUBSET Files : \A t \in [S -> Ops] : t \in Todos
    BY DEF Todos
  <1>3. NoOps \in Todos
    BY <1>1, <1>2
  <1>4. ASSUME NEW t \in Todos
        PROVE  DOMAIN t \subseteq Files /\ \A f \in DOMAIN t : t[f] \in Ops
    <2>1. PICK S \in SUBSET Files : t \in [S -> Ops]
      BY DEF Todos
    <2> QED  BY <2>1
  <1> QED  BY <1>1, <1>2, <1>3, <1>4

(* The fields of a job after an operation, and after Release. *)
LEMMA ReleasedJob ==
  ASSUME NEW j \in Jobs, NEW planned \in BOOLEAN
  PROVE  LET n == [j EXCEPT !.planned = planned, !.version = None, !.force = FALSE,
                            !.todo = NoOps, !.manifest = None, !.agents = None]
         IN  n \in Jobs /\ n.cmd = j.cmd /\ n.made = j.made
  BY TodoTypes DEF Jobs

After(j, left, f, entry) == [j EXCEPT !.todo = left, !.manifest.files[f] = entry]
With(j, todo, m, a) == [j EXCEPT !.todo = todo, !.manifest = m, !.agents = a]

LEMMA AppliedJob ==
  ASSUME NEW j \in Jobs, j.manifest \in Manifests, NEW f \in Files, NEW left \in Todos,
         NEW entry \in Versions \cup {None}, NEW n, n = After(j, left, f, entry)
  PROVE  /\ n \in Jobs /\ n.manifest \in Manifests /\ n.todo = left
         /\ n.cmd = j.cmd /\ n.target = j.target /\ n.version = j.version
         /\ n.force = j.force /\ n.agents = j.agents
         /\ n.manifest.targets = j.manifest.targets
         /\ n.manifest.block = j.manifest.block
         /\ n.manifest.files = [j.manifest.files EXCEPT ![f] = entry]
  <1> DEFINE fs == [j.manifest.files EXCEPT ![f] = entry]
             m  == [j.manifest EXCEPT !.files = fs]
  <1>1. n = [j EXCEPT !.todo = left, !.manifest = m]
    BY DEF After
  <1>2. fs \in [Files -> Versions \cup {None}]
    BY DEF Manifests
  <1> HIDE DEF fs
  <1>3. m \in Manifests /\ m.targets = j.manifest.targets /\ m.block = j.manifest.block
        /\ m.files = fs
    BY <1>2 DEF Manifests
  <1> HIDE DEF m
  <1>4. /\ n \in Jobs /\ n.manifest = m /\ n.todo = left
        /\ n.cmd = j.cmd /\ n.target = j.target /\ n.version = j.version
        /\ n.force = j.force /\ n.agents = j.agents
    BY <1>1, <1>3 DEF Jobs
  <1> QED  BY <1>3, <1>4 DEF fs

LEMMA PlannedJob ==
  ASSUME NEW j \in Jobs, NEW m \in Manifests, NEW todo \in Todos,
         NEW a \in AgentsPlans \cup {None}, NEW n, n = With(j, todo, m, a)
  PROVE  /\ n \in Jobs /\ n.manifest = m /\ n.todo = todo /\ n.agents = a
         /\ n.cmd = j.cmd /\ n.target = j.target /\ n.version = j.version
         /\ n.force = j.force
  BY DEF Jobs, With

LEMMA SavedType ==
  ASSUME NEW m \in Manifests
  PROVE  Saved(m) \in Manifests \cup {None}
  BY DEF Saved

-----------------------------------------------------------------------------
(* The plans *)

LEMMA OpTypes ==
  ASSUME NEW j, NEW f, NEW recorded
  PROVE  InstallOp(j, f, recorded) \in Ops /\ RemovalOp(f, recorded) \in Ops
  BY DEF InstallOp, RemovalOp, Ops

LEMMA InstallPlanIs ==
  ASSUME NEW j \in Jobs, j.version \in Versions, NEW m \in Manifests,
         m = (IF manifest = None THEN EmptyManifest ELSE manifest)
  PROVE  LET p == InstallPlan(j)
         IN  /\ p.manifest \in Manifests /\ p.todo \in Todos
             /\ p.manifest.targets = m.targets \cup {j.target}
             /\ p.manifest.files = m.files /\ p.manifest.block = m.block
             /\ DOMAIN p.todo = Ships[j.version] \cup Recorded(m)
             /\ \A f \in DOMAIN p.todo :
                   p.todo[f] = IF f \in Ships[j.version] THEN InstallOp(j, f, m.files[f])
                               ELSE RemovalOp(f, m.files[f])
  <1> DEFINE n == [m EXCEPT !.targets = @ \cup {j.target}]
             S == Ships[j.version] \cup Recorded(m)
             t == [f \in S |-> IF f \in Ships[j.version] THEN InstallOp(j, f, m.files[f])
                               ELSE RemovalOp(f, m.files[f])]
  <1>1. InstallPlan(j) = [manifest |-> n, todo |-> t]
    BY DEF InstallPlan
  <1>2. n \in Manifests /\ n.targets = m.targets \cup {j.target}
        /\ n.files = m.files /\ n.block = m.block
    BY DEF Manifests, Jobs
  <1>3. S \in SUBSET Files
    BY SkillsAssumption DEF Recorded
  <1>4. t \in [S -> Ops]
    BY OpTypes
  <1>5. t \in Todos
    BY <1>3, <1>4, TodoTypes
  <1> HIDE DEF n
  <1> QED  BY <1>1, <1>2, <1>5

LEMMA UninstallPlanIs ==
  ASSUME NEW j \in Jobs, manifest \in Manifests
  PROVE  LET p == UninstallPlan(j)
             m == manifest
         IN  /\ p.manifest \in Manifests /\ p.todo \in Todos
             /\ p.manifest.targets = m.targets \ {j.target}
             /\ p.manifest.files = m.files /\ p.manifest.block = m.block
             /\ DOMAIN p.todo \subseteq Recorded(m)
             /\ DOMAIN p.todo # {} => m.targets \subseteq {j.target}
             /\ \A f \in DOMAIN p.todo : p.todo[f] = RemovalOp(f, m.files[f])
  <1> DEFINE left == manifest.targets \ {j.target}
             n == [manifest EXCEPT !.targets = left]
             t == [f \in Recorded(manifest) |-> RemovalOp(f, manifest.files[f])]
             d == IF left # {} THEN NoOps ELSE t
  <1>1. UninstallPlan(j) = [manifest |-> n, todo |-> d]
    BY DEF UninstallPlan
  <1>2. n \in Manifests /\ n.targets = left
        /\ n.files = manifest.files /\ n.block = manifest.block
    BY DEF Manifests
  <1>3. Recorded(manifest) \in SUBSET Files
    BY DEF Recorded
  <1>4. t \in [Recorded(manifest) -> Ops]
    BY OpTypes
  <1>5. d \in Todos
    BY <1>3, <1>4, TodoTypes
  <1> HIDE DEF n
  <1> QED  BY <1>1, <1>2, <1>5, TodoTypes

LEMMA AgentsPlanIs ==
  ASSUME TypeOK, NEW j \in Jobs, j.version \in Versions, NEW m \in Manifests
  PROVE  LET a == AgentsPlan(j, m)
         IN  a = None \/ /\ a \in AgentsPlans
                         /\ a.to.own = agents.own
                         /\ agents.block = User => j.force
  <1> DEFINE i == [to |-> [exists |-> TRUE, own |-> agents.own, block |-> j.version],
                   record |-> j.version, created |-> ~agents.exists]
             u == [to |-> [exists |-> agents.own \/ ~m.created, own |-> agents.own,
                           block |-> None],
                   record |-> None, created |-> FALSE]
  <1>1. agents.own \in BOOLEAN /\ agents.exists \in BOOLEAN /\ m.created \in BOOLEAN
        /\ m.block \in Versions \cup {None}
    BY DEF TypeOK, AgentsStates, Manifests
  <1>2. (~agents.exists) \in BOOLEAN /\ (agents.own \/ ~m.created) \in BOOLEAN
    OBVIOUS
  <1>3. i \in AgentsPlans /\ i.to.own = agents.own
    BY <1>1, <1>2 DEF AgentsPlans
  <1>4. u \in AgentsPlans /\ u.to.own = agents.own
    BY <1>1, <1>2 DEF AgentsPlans
  <1>5. \/ AgentsPlan(j, m) = None
        \/ /\ AgentsPlan(j, m) = i
           /\ \/ agents.block = None \/ agents.block = j.version
              \/ j.force \/ agents.block = m.block
        \/ AgentsPlan(j, m) = u /\ agents.block = m.block
    BY DEF AgentsPlan, AgentsInstall, AgentsUninstall
  <1> HIDE DEF i, u
  <1> QED  BY <1>1, <1>3, <1>4, <1>5, SkillsAssumption

LEMMA EmptyType == EmptyManifest \in Manifests
  BY DEF EmptyManifest, Manifests

-----------------------------------------------------------------------------
(* What a step of a process changes *)

(* Only r moves, to place p, with n in hand. *)
Moves(r, p, n) ==
    /\ pc' = [pc EXCEPT ![r] = p] /\ job' = [job EXCEPT ![r] = n]
    /\ n \in Jobs \cup {None} /\ p \in Places
    /\ p # "idle" => JobFits(p, n)

LEMMA MovesKeep ==
  ASSUME Typed, NEW r \in Runs, NEW p, NEW n, Moves(r, p, n)
  PROVE  /\ pc' \in [Runs -> Places] /\ JobTypes'
         /\ pc'[r] = p /\ job'[r] = n
         /\ \A s \in Runs \ {r} : pc'[s] = pc[s] /\ job'[s] = job[s]
  <1>1. /\ pc' \in [Runs -> Places] /\ pc'[r] = p /\ job'[r] = n
        /\ job' \in [Runs -> Jobs \cup {None}]
        /\ \A s \in Runs \ {r} : pc'[s] = pc[s] /\ job'[s] = job[s]
    BY DEF Typed, TypeOK, JobTypes, Moves
  <1>2. \A s \in Runs : pc'[s] # "idle" => JobFits(pc'[s], job'[s])
    BY <1>1 DEF Typed, JobTypes, Moves
  <1> QED  BY <1>1, <1>2 DEF JobTypes

LEMMA ReleaseMoves ==
  ASSUME Typed, NEW r \in Runs, pc[r] # "idle", NEW planned \in BOOLEAN, Release(r, planned)
  PROVE  \E n : Moves(r, "unlock", n)
  <1> DEFINE j == job[r]
             n == [j EXCEPT !.planned = planned, !.version = None, !.force = FALSE,
                            !.todo = NoOps, !.manifest = None, !.agents = None]
  <1>1. j \in Jobs
    BY DEF Typed, JobTypes, JobFits
  <1>2. n \in Jobs
    BY <1>1, ReleasedJob
  <1>3. pc' = [pc EXCEPT ![r] = "unlock"] /\ job' = [job EXCEPT ![r] = n]
    BY DEF Release, Goto
  <1> HIDE DEF n
  <1>4. Moves(r, "unlock", n)
    BY <1>2, <1>3 DEF Moves, JobFits, Working, Planned, Places, Critical
  <1> QED  BY <1>4

LEMMA EndMoves ==
  ASSUME NEW r \in Runs, Ends(r)
  PROVE  Moves(r, "idle", None)
  BY DEF Ends, Goto, Moves, Places

(* A process that goes on with the same job. *)
LEMMA GotoMoves ==
  ASSUME Typed, NEW r \in Runs, NEW p \in Places, pc[r] # "idle",
         p \in Working => pc[r] \in Working,
         p \in {"apply", "save"} => pc[r] \in {"apply", "save"},
         p \in {"agents", "record"} => pc[r] \in {"agents", "record"}
                                       \/ job[r].agents \in AgentsPlans \ {None},
         p \in {"save", "agents", "record"} => pc[r] \in {"save", "agents", "record"},
         Goto(r, p), job' = job
  PROVE  Moves(r, p, job[r])
  <1>1. job[r] \in Jobs /\ JobFits(pc[r], job[r])
    BY DEF Typed, JobTypes, JobFits
  <1>2. job' = [job EXCEPT ![r] = job[r]]
    BY DEF Typed, JobTypes
  <1> QED  BY <1>1, <1>2 DEF Goto, Moves, JobFits, Working, Planned

(* The steps outside the plan's execution touch the lock and the directory. *)
LEMMA QuietStep ==
  ASSUME Typed, NEW r \in Runs,
         \/ Start(r) \/ MakeRoot(r) \/ OpenLock(r) \/ TryLock(r) \/ GiveUp(r) \/ Unlock(r)
         \/ CheckEmpty(r) \/ RemoveLock(r) \/ RemoveRoot(r) \/ Leave(r) \/ Kill(r)
  PROVE  /\ UNCHANGED <<disk, manifest, agents, installed, deleted, raced>>
         /\ (cut => cut') /\ (pc[r] \in Planned => cut') /\ cut' \in BOOLEAN
         /\ unlinked' # unlinked => RemoveLock(r)
         /\ dir' \in BOOLEAN
         /\ \E p, n : p \in Places \ Planned /\ Moves(r, p, n)
  <1> USE DEF Typed
  <1>1. CASE Start(r)
    <2>1. PICK t \in Targets, v \in Versions, c \in {"install", "uninstall"}, b \in BOOLEAN :
            job' = [job EXCEPT ![r] = [cmd |-> c, target |-> t, version |-> v, force |-> b,
                                       made |-> FALSE, planned |-> FALSE, todo |-> NoOps,
                                       manifest |-> None, agents |-> None]]
      BY <1>1 DEF Start
    <2> DEFINE n == [cmd |-> c, target |-> t, version |-> v, force |-> b,
                     made |-> FALSE, planned |-> FALSE, todo |-> NoOps,
                     manifest |-> None, agents |-> None]
    <2>2. n \in Jobs /\ n.version \in Versions
      BY TodoTypes DEF Jobs
    <2>3. job' = [job EXCEPT ![r] = n] /\ pc' = [pc EXCEPT ![r] = "mkdir"]
      BY <1>1, <2>1 DEF Start, Goto
    <2> HIDE DEF n
    <2>4. Moves(r, "mkdir", n) /\ "mkdir" \in Places \ Planned
      BY <2>2, <2>3 DEF Moves, JobFits, Planned, Places
    <2> QED  BY <1>1, <2>4 DEF Start, Planned, root, history, TypeOK
  <1>2. CASE MakeRoot(r)
    <2> DEFINE n == [job[r] EXCEPT !.made = ~dir]
    <2>1. job[r] \in Jobs /\ job[r].version \in Versions /\ (~dir) \in BOOLEAN
      BY <1>2 DEF MakeRoot, JobTypes, JobFits, Working
    <2>2. n \in Jobs /\ n.version \in Versions
      BY <2>1 DEF Jobs
    <2>3. job' = [job EXCEPT ![r] = n] /\ pc' = [pc EXCEPT ![r] = "open"]
      BY <1>2 DEF MakeRoot, Goto
    <2> HIDE DEF n
    <2>4. Moves(r, "open", n) /\ "open" \in Places \ Planned
      BY <2>2, <2>3 DEF Moves, JobFits, Planned, Places
    <2> QED  BY <1>2, <2>4 DEF MakeRoot, Planned, history, TypeOK
  <1>3. CASE OpenLock(r)
    <2>1. /\ UNCHANGED <<dir, disk, manifest, agents, history>>
          /\ Ends(r) \/ (Goto(r, "wait") /\ job' = job)
          /\ pc[r] = "open"
      BY <1>3 DEF OpenLock
    <2>2. "wait" \in Places \ Planned /\ "idle" \in Places \ Planned
      BY DEF Planned, Places, Critical
    <2>3. Moves(r, "idle", None) \/ Moves(r, "wait", job[r])
      BY <2>1, <2>2, EndMoves, GotoMoves DEF Working
    <2> QED  BY <2>1, <2>2, <2>3 DEF Planned, history, TypeOK
  <1>4. CASE TryLock(r)
    <2>1. "plan" \in Places \ Planned
      BY DEF Planned, Places, Critical
    <2>2. Moves(r, "plan", job[r])
      BY <1>4, <2>1, GotoMoves DEF TryLock, Working, Planned
    <2> QED  BY <1>4, <2>1, <2>2 DEF TryLock, Planned, root, history, TypeOK
  <1>5. CASE GiveUp(r)
    <2>1. "idle" \in Places \ Planned
      BY DEF Planned, Places, Critical
    <2> QED  BY <1>5, <2>1, EndMoves DEF GiveUp, Planned, root, history, TypeOK
  <1>6. CASE Unlock(r)
    <2>1. "check" \in Places \ Planned /\ "idle" \in Places \ Planned
          /\ "check" \notin Working
      BY DEF Planned, Places, Critical, Working
    <2>2. \/ Goto(r, "check") /\ job' = job
          \/ Goto(r, "idle") /\ job' = [job EXCEPT ![r] = None]
      BY <1>6 DEF Unlock
    <2>3. Moves(r, "check", job[r]) \/ Moves(r, "idle", None)
      BY <1>6, <2>1, <2>2, GotoMoves DEF Unlock, Moves, Goto
    <2> QED  BY <1>6, <2>1, <2>3 DEF Unlock, Planned, root, history, TypeOK
  <1>7. CASE CheckEmpty(r)
    <2>1. "rmlock" \in Places \ Planned /\ "leave" \in Places \ Planned
          /\ "rmlock" \notin Working /\ "leave" \notin Working
      BY DEF Planned, Places, Critical, Working
    <2>2. Moves(r, "rmlock", job[r]) \/ Moves(r, "leave", job[r])
      BY <1>7, <2>1, GotoMoves DEF CheckEmpty
    <2> QED  BY <1>7, <2>1, <2>2 DEF CheckEmpty, Planned, root, history, TypeOK
  <1>8. CASE RemoveLock(r)
    <2>1. "rmdir" \in Places \ Planned /\ "rmdir" \notin Working
      BY DEF Planned, Places, Critical, Working
    <2>2. Moves(r, "rmdir", job[r])
      BY <1>8, <2>1, GotoMoves DEF RemoveLock
    <2> QED  BY <1>8, <2>1, <2>2 DEF RemoveLock, Planned, TypeOK
  <1>9. CASE RemoveRoot(r)
    <2>1. "leave" \in Places \ Planned /\ "leave" \notin Working
      BY DEF Planned, Places, Critical, Working
    <2>2. Moves(r, "leave", job[r])
      BY <1>9, <2>1, GotoMoves DEF RemoveRoot
    <2>3. DirLeft \in BOOLEAN
      BY DEF DirLeft
    <2> QED  BY <1>9, <2>1, <2>2, <2>3 DEF RemoveRoot, Planned, history, TypeOK
  <1>10. CASE Leave(r)
    <2>1. "idle" \in Places \ Planned
      BY DEF Planned, Places, Critical
    <2>2. dir' \in BOOLEAN
      BY <1>10 DEF Leave, DirLeft, TypeOK
    <2> QED  BY <1>10, <2>1, <2>2, EndMoves DEF Leave, Planned, history, TypeOK
  <1>11. CASE Kill(r)
    <2>1. "idle" \in Places \ Planned
      BY DEF Planned, Places, Critical
    <2>2. cut \in BOOLEAN /\ cut' = (cut \/ pc[r] \in Planned)
      BY <1>11 DEF Kill, Planned, TypeOK
    <2> QED  BY <1>11, <2>1, <2>2, EndMoves DEF Kill, root, TypeOK
  <1> QED  BY <1>1, <1>2, <1>3, <1>4, <1>5, <1>6, <1>7, <1>8, <1>9, <1>10, <1>11

(* r makes the plan n of what is on disk. *)
Planning(r, p, n) ==
    /\ Moves(r, p, n) /\ n \in Jobs /\ p \in {"apply", "save"}
    /\ p = "save" <=> DOMAIN n.todo = {}
    /\ n.cmd = job[r].cmd /\ n.target = job[r].target
    /\ n.version = job[r].version /\ n.force = job[r].force
    /\ LET plan == IF n.cmd = "install" THEN InstallPlan(job[r]) ELSE UninstallPlan(job[r])
       IN  /\ n.manifest = plan.manifest /\ n.todo = plan.todo
           /\ n.agents = AgentsPlan(job[r], plan.manifest)
    /\ n.cmd = "uninstall" => manifest \in Manifests

LEMMA PlanStep ==
  ASSUME Typed, NEW r \in Runs, Plan(r)
  PROVE  /\ pc[r] = "plan" /\ job[r] \in Jobs /\ job[r].version \in Versions
         /\ UNCHANGED <<root, agents, ino, commands, faults, deleted, raced, unlinked, cut>>
         /\ installed' = IF job[r].cmd = "uninstall" THEN installed \ {job[r].target}
                         ELSE installed
         /\ (\E n : Moves(r, "unlock", n)) \/ (\E p, n : Planning(r, p, n))
  <1> DEFINE j == job[r]
             plan == IF j.cmd = "install" THEN InstallPlan(j) ELSE UninstallPlan(j)
             refused == j.target = AgentsMd /\ agents.block = Broken
             nothing == j.cmd = "uninstall" /\ manifest = None
  <1>1. j \in Jobs /\ j.version \in Versions /\ pc[r] = "plan"
    BY DEF Plan, Typed, JobTypes, JobFits, Working
  <1>2. CASE refused \/ nothing
    <2>1. Release(r, ~refused) /\ (~refused) \in BOOLEAN
      BY <1>2 DEF Plan
    <2>2. \E n : Moves(r, "unlock", n)
      BY <1>1, <2>1, ReleaseMoves
    <2> QED  BY <1>1, <2>2 DEF Plan
  <1>3. CASE ~(refused \/ nothing)
    <2> DEFINE a == AgentsPlan(j, plan.manifest)
               n == [j EXCEPT !.todo = plan.todo, !.manifest = plan.manifest, !.agents = a]
               p == IF DOMAIN plan.todo = {} THEN "save" ELSE "apply"
    <2>1. j.cmd = "uninstall" => manifest \in Manifests
      BY <1>3 DEF Typed, TypeOK
    <2>2. plan.manifest \in Manifests /\ plan.todo \in Todos
      <3>1. CASE j.cmd = "install"
        <4>1. \E m \in Manifests : m = (IF manifest = None THEN EmptyManifest ELSE manifest)
          BY EmptyType DEF Typed, TypeOK
        <4> QED  BY <1>1, <3>1, <4>1, InstallPlanIs
      <3>2. CASE j.cmd = "uninstall"
        BY <1>1, <2>1, <3>2, UninstallPlanIs
      <3> QED  BY <1>1, <3>1, <3>2 DEF Jobs
    <2>3. a \in AgentsPlans \cup {None}
      BY <1>1, <2>2, AgentsPlanIs DEF Typed
    <2>4. job' = [job EXCEPT ![r] = n] /\ pc' = [pc EXCEPT ![r] = p]
      BY <1>3 DEF Plan, Goto
    <2>0. n = With(j, plan.todo, plan.manifest, a)
      BY DEF With
    <2> HIDE DEF plan, a, n, j
    <2>5. /\ n \in Jobs /\ n.manifest = plan.manifest /\ n.todo = plan.todo /\ n.agents = a
          /\ n.cmd = j.cmd /\ n.target = j.target /\ n.version = j.version
          /\ n.force = j.force
      BY <1>1, <2>0, <2>2, <2>3, PlannedJob
    <2>6. p \in {"apply", "save"} /\ (p = "save" <=> DOMAIN n.todo = {})
      BY <2>5
    <2> HIDE DEF p
    <2>7. Moves(r, p, n)
      BY <1>1, <2>2, <2>4, <2>5, <2>6 DEF Moves, JobFits, Places, Critical
    <2>8. Planning(r, p, n)
      BY <2>1, <2>5, <2>6, <2>7 DEF Planning, plan, a, j
    <2> QED  BY <1>1, <2>8 DEF Plan, j
  <1> QED  BY <1>2, <1>3

(* r does the operation of f. *)
Applying(r, f, p, n) ==
    LET j == job[r]
        op == j.todo[f]
        entry == CASE op.entry = "set"  -> j.version
                   [] op.entry = "drop" -> None
                   [] op.entry = "keep" -> j.manifest.files[f]
    IN  /\ IsNext(j, f) /\ f \in Files /\ op \in Ops
        /\ disk' = CASE op.act = "write"  -> [disk EXCEPT ![f] = j.version]
                     [] op.act = "remove" -> [disk EXCEPT ![f] = None]
                     [] op.act = "none"   -> disk
        /\ deleted' = IF op.act = "write" THEN deleted \ {f} ELSE deleted
        /\ Moves(r, p, n) /\ n \in Jobs /\ p \in {"apply", "save"}
        /\ p = "save" <=> DOMAIN n.todo = {}
        /\ DOMAIN n.todo = DOMAIN j.todo \ {f}
        /\ \A g \in DOMAIN n.todo : n.todo[g] = j.todo[g]
        /\ n.manifest \in Manifests
        /\ n.manifest.targets = j.manifest.targets
        /\ n.manifest.block = j.manifest.block
        /\ n.manifest.files = [j.manifest.files EXCEPT ![f] = entry]
        /\ n.cmd = j.cmd /\ n.target = j.target /\ n.version = j.version
        /\ n.force = j.force /\ n.agents = j.agents

LEMMA ApplyStep ==
  ASSUME Typed, NEW r \in Runs, Apply(r)
  PROVE  /\ pc[r] = "apply" /\ job[r] \in Jobs /\ job[r].manifest \in Manifests
         /\ job[r].version \in Versions
         /\ UNCHANGED <<lockfile, manifest, agents, ino, installed, raced, unlinked, cut>>
         /\ dir' \in BOOLEAN
         /\ \E f, p, n : Applying(r, f, p, n)
  <1> DEFINE j == job[r]
  <1>1. j \in Jobs /\ j.version \in Versions /\ j.manifest \in Manifests /\ pc[r] = "apply"
    BY DEF Apply, Typed, JobTypes, JobFits, Working, Planned
  <1>2. PICK f \in Files :
        LET op == j.todo[f]
            left == [g \in DOMAIN j.todo \ {f} |-> j.todo[g]]
            entry == CASE op.entry = "set"  -> j.version
                       [] op.entry = "drop" -> None
                       [] op.entry = "keep" -> j.manifest.files[f]
        IN  /\ IsNext(j, f)
            /\ op.act = "remove" => disk[f] # None
            /\ disk' = CASE op.act = "write"  -> [disk EXCEPT ![f] = j.version]
                         [] op.act = "remove" -> [disk EXCEPT ![f] = None]
                         [] op.act = "none"   -> disk
            /\ dir' = (dir \/ op.act = "write")
            /\ job' = [job EXCEPT ![r] = [@ EXCEPT !.todo = left, !.manifest.files[f] = entry]]
            /\ deleted' = IF op.act = "write" THEN deleted \ {f} ELSE deleted
            /\ Goto(r, IF DOMAIN left = {} THEN "save" ELSE "apply")
    BY DEF Apply
  <1> DEFINE op == j.todo[f]
             left == [g \in DOMAIN j.todo \ {f} |-> j.todo[g]]
             entry == CASE op.entry = "set"  -> j.version
                        [] op.entry = "drop" -> None
                        [] op.entry = "keep" -> j.manifest.files[f]
             n == [j EXCEPT !.todo = left, !.manifest.files[f] = entry]
             p == IF DOMAIN left = {} THEN "save" ELSE "apply"
  <1>3. f \in DOMAIN j.todo /\ op \in Ops
    BY <1>1, <1>2, TodoTypes DEF IsNext, Jobs
  <1>4. left \in Todos
    <2>1. DOMAIN j.todo \ {f} \in SUBSET Files
      BY <1>1, TodoTypes DEF Jobs
    <2>2. left \in [DOMAIN j.todo \ {f} -> Ops]
      BY <1>1, TodoTypes DEF Jobs
    <2> QED  BY <2>1, <2>2, TodoTypes
  <1>5. entry \in Versions \cup {None}
    BY <1>1, <1>3 DEF Ops, Manifests
  <1>6. job' = [job EXCEPT ![r] = n] /\ pc' = [pc EXCEPT ![r] = p]
    BY <1>2 DEF Goto
  <1>7. DOMAIN left = DOMAIN j.todo \ {f} /\ \A g \in DOMAIN left : left[g] = j.todo[g]
    OBVIOUS
  <1>8. /\ IsNext(j, f)
        /\ disk' = CASE op.act = "write"  -> [disk EXCEPT ![f] = j.version]
                     [] op.act = "remove" -> [disk EXCEPT ![f] = None]
                     [] op.act = "none"   -> disk
        /\ deleted' = IF op.act = "write" THEN deleted \ {f} ELSE deleted
        /\ dir' \in BOOLEAN
    BY <1>2
  <1>0. n = After(j, left, f, entry)
    BY DEF After
  <1> HIDE DEF left, entry, n, j
  <1>9. /\ n \in Jobs /\ n.manifest \in Manifests /\ n.todo = left
        /\ n.cmd = j.cmd /\ n.target = j.target /\ n.version = j.version
        /\ n.force = j.force /\ n.agents = j.agents
        /\ n.manifest.targets = j.manifest.targets
        /\ n.manifest.block = j.manifest.block
        /\ n.manifest.files = [j.manifest.files EXCEPT ![f] = entry]
    BY <1>0, <1>1, <1>4, <1>5, AppliedJob
  <1>10. p \in {"apply", "save"} /\ (p = "save" <=> DOMAIN n.todo = {})
    BY <1>9
  <1> HIDE DEF p
  <1>11. Moves(r, p, n)
    BY <1>1, <1>6, <1>9, <1>10 DEF Moves, JobFits, Places, Critical
  <1>12. UNCHANGED <<lockfile, manifest, agents, ino, installed, raced, unlinked, cut>>
    BY DEF Apply
  <1>13. Applying(r, f, p, n)
    BY <1>1, <1>3, <1>7, <1>8, <1>9, <1>10, <1>11 DEF Applying, entry, j
  <1> QED  BY <1>1, <1>8, <1>12, <1>13 DEF j

LEMMA WriteManifestType ==
  ASSUME NEW m \in Manifests, WriteManifest(m), dir \in BOOLEAN
  PROVE  manifest' = Saved(m) /\ manifest' \in Manifests \cup {None} /\ dir' \in BOOLEAN
  BY SavedType DEF WriteManifest

LEMMA SaveStep ==
  ASSUME Typed, NEW r \in Runs, Save(r)
  PROVE  /\ pc[r] = "save" /\ job[r] \in Jobs /\ job[r].manifest \in Manifests
         /\ DOMAIN job[r].todo = {}
         /\ manifest' = Saved(job[r].manifest) /\ manifest' \in Manifests \cup {None}
         /\ dir' \in BOOLEAN
         /\ UNCHANGED <<lockfile, disk, agents, ino, deleted, raced, unlinked, cut>>
         /\ \/ Completes(r) /\ \E n : Moves(r, "unlock", n)
            \/ /\ installed' = IF manifest' = None THEN {} ELSE installed
               /\ job[r].agents \in AgentsPlans \ {None}
               /\ Moves(r, "agents", job[r])
  <1>1. /\ pc[r] = "save" /\ job[r] \in Jobs /\ job[r].manifest \in Manifests
        /\ DOMAIN job[r].todo = {}
    BY DEF Save, Typed, JobTypes, JobFits
  <1>2. /\ manifest' = Saved(job[r].manifest) /\ manifest' \in Manifests \cup {None}
        /\ dir' \in BOOLEAN
    BY <1>1, WriteManifestType DEF Save, Typed, TypeOK
  <1>3. CASE job[r].agents = None
    <2>1. Completes(r) /\ Release(r, TRUE)
      BY <1>3 DEF Save
    <2>2. \E n : Moves(r, "unlock", n)
      BY <1>1, <2>1, ReleaseMoves
    <2> QED  BY <1>1, <1>2, <2>1, <2>2 DEF Save
  <1>4. CASE job[r].agents # None
    <2>1. job[r].agents \in AgentsPlans \ {None}
      BY <1>1, <1>4 DEF Jobs
    <2>2. "agents" \in Places
      BY DEF Places, Critical
    <2>3. Moves(r, "agents", job[r])
      BY <1>1, <1>4, <2>1, <2>2, GotoMoves DEF Save, Working, Planned
    <2> QED  BY <1>1, <1>2, <1>4, <2>1, <2>3 DEF Save
  <1> QED  BY <1>3, <1>4

LEMMA WriteAgentsStep ==
  ASSUME Typed, NEW r \in Runs, WriteAgents(r)
  PROVE  /\ pc[r] = "agents" /\ job[r] \in Jobs /\ job[r].agents \in AgentsPlans \ {None}
         /\ agents' = job[r].agents.to /\ agents' \in AgentsStates
         /\ UNCHANGED <<root, ino, history>>
         /\ Moves(r, "record", job[r])
  <1>1. pc[r] = "agents" /\ job[r] \in Jobs /\ job[r].agents \in AgentsPlans \ {None}
    BY DEF WriteAgents, Typed, JobTypes, JobFits
  <1>2. agents' = job[r].agents.to /\ agents' \in AgentsStates
    BY <1>1 DEF WriteAgents, AgentsPlans, AgentsStates
  <1>3. "record" \in Places
    BY DEF Places, Critical
  <1>4. Moves(r, "record", job[r])
    BY <1>1, <1>3, GotoMoves DEF WriteAgents, Working, Planned
  <1> QED  BY <1>1, <1>2, <1>4 DEF WriteAgents

LEMMA RecordStep ==
  ASSUME Typed, NEW r \in Runs, Record(r)
  PROVE  /\ pc[r] = "record" /\ job[r] \in Jobs /\ DOMAIN job[r].todo = {}
         /\ manifest' \in Manifests \cup {None} /\ dir' \in BOOLEAN
         /\ UNCHANGED <<lockfile, disk, agents, ino, deleted, raced, unlinked, cut>>
         /\ Completes(r) /\ \E n : Moves(r, "unlock", n)
         /\ \E m \in Manifests, w \in Manifests :
              /\ m = (IF manifest = None THEN EmptyManifest ELSE manifest)
              /\ w.targets = m.targets /\ w.files = m.files
              /\ manifest' = Saved(w)
  <1> DEFINE m == IF manifest = None THEN EmptyManifest ELSE manifest
             a == job[r].agents
             c == a.record # None /\ (a.created \/ m.created)
             w == [m EXCEPT !.block = a.record, !.created = c]
  <1>1. /\ pc[r] = "record" /\ job[r] \in Jobs /\ a \in AgentsPlans
        /\ DOMAIN job[r].todo = {}
    BY DEF Record, Typed, JobTypes, JobFits
  <1>2. m \in Manifests
    BY EmptyType DEF Typed, TypeOK
  <1>3. a.record \in Versions \cup {None} /\ c \in BOOLEAN
    BY <1>1 DEF AgentsPlans
  <1>4. Completes(r) /\ Release(r, TRUE) /\ WriteManifest(w)
    BY DEF Record
  <1> HIDE DEF m, a, c
  <1>5. w \in Manifests /\ w.targets = m.targets /\ w.files = m.files
    BY <1>2, <1>3 DEF Manifests
  <1> HIDE DEF w
  <1>6. /\ manifest' = Saved(w) /\ manifest' \in Manifests \cup {None} /\ dir' \in BOOLEAN
    BY <1>4, <1>5, WriteManifestType DEF Typed, TypeOK
  <1>7. \E n : Moves(r, "unlock", n)
    BY <1>1, <1>4, ReleaseMoves
  <1> QED  BY <1>1, <1>2, <1>4, <1>5, <1>6, <1>7 DEF Record, m

(* A failed write ends the plan; so does a failed operation, which saves the
   manifest of what was done if it can. *)
LEMMA FailStep ==
  ASSUME Typed, NEW r \in Runs, ApplyFails(r) \/ WriteFails(r)
  PROVE  /\ pc[r] \in Planned
         /\ UNCHANGED <<lockfile, disk, agents, ino, installed, deleted, raced, unlinked>>
         /\ \E n : Moves(r, "unlock", n)
         /\ dir' \in BOOLEAN
         /\ \/ cut' = TRUE /\ manifest' = manifest
            \/ /\ cut' = cut /\ pc[r] = "apply"
               /\ job[r] \in Jobs /\ job[r].manifest \in Manifests
               /\ job[r].version \in Versions
               /\ manifest' = Saved(job[r].manifest)
               /\ \E f \in Files : /\ IsNext(job[r], f) /\ job[r].todo[f] \in Ops
                                   /\ job[r].todo[f].act # "none"
  <1>1. pc[r] \in Planned /\ Release(r, TRUE)
    BY DEF ApplyFails, WriteFails, Planned
  <1>2. \E n : Moves(r, "unlock", n)
    BY <1>1, ReleaseMoves DEF Planned
  <1>3. UNCHANGED <<lockfile, disk, agents, ino, installed, deleted, raced, unlinked>>
    BY DEF ApplyFails, WriteFails, root
  <1>4. CASE cut' = TRUE /\ UNCHANGED <<manifest, dir>>
    BY <1>1, <1>2, <1>3, <1>4 DEF Typed, TypeOK
  <1>5. CASE ApplyFails(r) /\ WriteManifest(job[r].manifest) /\ UNCHANGED cut
    <2>1. /\ pc[r] = "apply" /\ job[r] \in Jobs /\ job[r].manifest \in Manifests
          /\ job[r].version \in Versions
      BY <1>5 DEF ApplyFails, Typed, JobTypes, JobFits, Working, Planned
    <2>2. PICK f \in Files : IsNext(job[r], f) /\ job[r].todo[f].act # "none"
      BY <1>5 DEF ApplyFails
    <2>3. job[r].todo[f] \in Ops
      BY <2>1, <2>2, TodoTypes DEF IsNext, Jobs
    <2>4. manifest' = Saved(job[r].manifest) /\ dir' \in BOOLEAN
      BY <1>5, <2>1, WriteManifestType DEF Typed, TypeOK
    <2> QED  BY <1>1, <1>2, <1>3, <1>5, <2>1, <2>2, <2>3, <2>4
  <1> QED  BY <1>4, <1>5 DEF ApplyFails, WriteFails, root

-----------------------------------------------------------------------------
(* The invariants *)

(* A user's edits are in the way of a plan only if it is forced, or was made
   before them. *)
EditFits(p, j) ==
    /\ p = "apply" =>
         \A f \in DOMAIN j.todo : disk[f] = User /\ j.todo[f].act # "none" => j.force \/ f \in raced
    /\ p \in {"apply", "save", "agents"} /\ j.agents # None =>
         \/ AgentsMd \in raced
         \/ /\ j.agents.to.own = agents.own
            /\ agents.block = User => j.force

EditInv == \A r \in Runs : EditFits(pc[r], job[r])

(* Every file of the installer's is in m. *)
OwnIn(m) == \A f \in Files : disk[f] \in Versions => m # None /\ m.files[f] = disk[f]

(* What is left as it is will be recorded as it is. *)
LeavesFit(j) ==
    \A f \in DOMAIN j.todo :
        j.todo[f].act = "none" /\ disk[f] \in Versions =>
            j.todo[f].entry = "keep" \/ (j.todo[f].entry = "set" /\ disk[f] = j.version)

OwnFits(p, j) ==
    /\ p = "apply" => LeavesFit(j)
    /\ p \in {"apply", "save"} => OwnIn(j.manifest)

OwnInv ==
    ~unlinked /\ ~cut =>
        /\ \A r \in Runs : OwnFits(pc[r], job[r])
        /\ (\A r \in Runs : pc[r] \notin {"apply", "save"}) => OwnIn(manifest)

(* A manifest that save_manifest keeps. *)
Worth(m) == Recorded(m) # {} \/ m.block # None

EveryVersion(f) == \A v \in Versions : f \in Ships[v]

(* The files every version ships are there once the plan is done. *)
Provides(j) ==
    \A f \in Files \ deleted :
        EveryVersion(f) => disk[f] # None \/ (f \in DOMAIN j.todo /\ j.todo[f].act = "write")

(* Files that are shipped are not removed; the others are recorded until they are. *)
TodoFits(j) ==
    \A f \in DOMAIN j.todo :
        IF f \in Shipped(j) THEN j.todo[f].act # "remove" /\ j.todo[f].entry # "drop"
        ELSE j.todo[f].act # "write" /\ j.manifest.files[f] # None

Kept ==
    installed # {} =>
        /\ manifest # None /\ installed \subseteq manifest.targets
        /\ \A f \in Files \ deleted : EveryVersion(f) => disk[f] # None

SharedFits(p, j) ==
    /\ p \in {"apply", "save"} => installed \subseteq j.manifest.targets
    /\ p = "apply" =>
         \/ installed = {}
         \/ /\ j.cmd = "install"
            /\ Worth(j.manifest) \/ DOMAIN j.todo \cap Shipped(j) = {}
    /\ p \in Planned /\ j.cmd = "install" => Provides(j)

RootWorth == manifest # None => Worth(manifest)
TodosFit == \A r \in Runs : pc[r] = "apply" => TodoFits(job[r])

SharedInv ==
    /\ RootWorth /\ TodosFit
    /\ ~unlinked => Kept /\ \A r \in Runs : SharedFits(pc[r], job[r])

-----------------------------------------------------------------------------
LEMMA TypedInit == Init => Typed
  <1> SUFFICES ASSUME Init PROVE Typed
    OBVIOUS
  <1>1. job \in [Runs -> Jobs \cup {None}] /\ \A r \in Runs : pc[r] = "idle"
    BY DEF Init
  <1>2. agents \in AgentsStates
    <2>1. PICK o \in BOOLEAN : agents = [exists |-> o, own |-> o, block |-> None]
      BY DEF Init
    <2> QED  BY <2>1 DEF AgentsStates
  <1>3. TypeOK
    BY <1>2 DEF Init, TypeOK, Places
  <1> QED  BY <1>1, <1>3 DEF Typed, JobTypes

(* The places that hold open files, and the lock, have their types. *)
LEMMA InodesTyped ==
  ASSUME TypeOK, [Next]_vars
  PROVE  ino' \in [Runs -> Inodes \cup {None}] /\ lockfile' \in Inodes \cup {None}
         /\ unlinked' \in BOOLEAN
  <1>1. ASSUME NEW r \in Runs, OpenLock(r)
        PROVE  ino' \in [Runs -> Inodes \cup {None}] /\ lockfile' \in Inodes \cup {None}
    BY <1>1 DEF OpenLock, Ends, TypeOK
  <1>2. ASSUME NEW r \in Runs, RemoveLock(r)
        PROVE  ino' = ino /\ lockfile' = None /\ unlinked' \in BOOLEAN
    BY <1>2 DEF RemoveLock, TypeOK
  <1>3. ASSUME NEW r \in Runs, Plan(r)
        PROVE  UNCHANGED <<ino, lockfile, unlinked>>
    BY <1>3 DEF Plan, root
  <1>4. ASSUME NEW r \in Runs, Apply(r)
        PROVE  UNCHANGED <<ino, lockfile, unlinked>>
    BY <1>4 DEF Apply
  <1> QED  BY <1>1, <1>2, <1>3, <1>4 DEF TypeOK, Next, Start, Step, MakeRoot, OpenLock,
              TryLock, GiveUp, ApplyFails, Save, WriteAgents, Record, WriteFails, Unlock,
              CheckEmpty, RemoveRoot, Leave, Kill, Ends, EditFile, EditAgents,
              root, history, vars

LEMMA UserStep ==
  ASSUME Typed, (\E f \in Files : EditFile(f)) \/ EditAgents
  PROVE  /\ UNCHANGED <<dir, lockfile, manifest, pc, ino, job, installed, unlinked, cut>>
         /\ disk' \in [Files -> Versions \cup {User, None}] /\ deleted' \subseteq Files
         /\ agents' \in AgentsStates /\ raced \subseteq raced'
         /\ \A f \in Files : disk'[f] # disk[f] =>
              /\ disk'[f] \in {User, None}
              /\ Executing => f \in raced'
         /\ \A f \in Files \ deleted' : disk[f] # None => disk'[f] # None
         /\ \A f \in deleted \ deleted' : disk'[f] # None
         /\ agents' # agents /\ Executing => AgentsMd \in raced'
  <1> USE DEF Typed
  <1>1. ASSUME NEW f \in Files, EditFile(f)
        PROVE  /\ agents' = agents /\ raced \subseteq raced' /\ deleted' \subseteq Files
               /\ disk' \in [Files -> Versions \cup {User, None}]
               /\ \A g \in Files : disk'[g] # disk[g] =>
                    disk'[g] \in {User, None} /\ (Executing => g \in raced')
               /\ \A g \in Files \ deleted' : disk[g] # None => disk'[g] # None
               /\ \A g \in deleted \ deleted' : disk'[g] # None
               /\ UNCHANGED <<dir, lockfile, manifest, pc, ino, job, installed, unlinked, cut>>
    BY <1>1, SkillsAssumption DEF EditFile, Raced, TypeOK
  <1>2. CASE EditAgents
    <2>1. UNCHANGED <<root, pc, ino, job, installed, deleted, unlinked, cut>>
      BY <1>2 DEF EditAgents
    <2>2. raced \subseteq raced' /\ (Executing => AgentsMd \in raced')
      BY <1>2 DEF EditAgents, Raced
    <2>3. agents' \in AgentsStates
      <3>1. agents \in AgentsStates
        BY DEF TypeOK
      <3>2. [agents EXCEPT !.block = User] \in AgentsStates
        BY <3>1 DEF AgentsStates
      <3>3. agents.block \in Versions \cup {User, Broken, None} /\ agents.own \in BOOLEAN
        BY <3>1 DEF AgentsStates
      <3>4. \/ agents' = [exists |-> FALSE, own |-> FALSE, block |-> None]
            \/ agents' = [exists |-> TRUE, own |-> TRUE, block |-> agents.block]
            \/ agents' = [exists |-> TRUE, own |-> agents.own, block |-> Broken]
            \/ agents' = [exists |-> TRUE, own |-> agents.own, block |-> None]
            \/ agents' = [agents EXCEPT !.block = User]
        BY <1>2 DEF EditAgents
      <3>5. \A e, o \in BOOLEAN, b \in Versions \cup {User, Broken, None} :
              [exists |-> e, own |-> o, block |-> b] \in AgentsStates
        BY DEF AgentsStates
      <3> QED  BY <3>2, <3>3, <3>4, <3>5
    <2> QED  BY <2>1, <2>2, <2>3 DEF root, TypeOK
  <1> QED  BY <1>1, <1>2 DEF TypeOK

LEMMA TypedStep == Typed /\ [Next]_vars => Typed'
  <1> SUFFICES ASSUME Typed, [Next]_vars PROVE Typed'
    OBVIOUS
  <1> DEFINE Quiet(r) ==
               \/ Start(r) \/ MakeRoot(r) \/ OpenLock(r) \/ TryLock(r) \/ GiveUp(r) \/ Unlock(r)
               \/ CheckEmpty(r) \/ RemoveLock(r) \/ RemoveRoot(r) \/ Leave(r) \/ Kill(r)
  <1>0. ino' \in [Runs -> Inodes \cup {None}] /\ lockfile' \in Inodes \cup {None}
        /\ unlinked' \in BOOLEAN
    BY InodesTyped DEF Typed
  <1>1. ASSUME NEW r \in Runs, NEW p, NEW n, Moves(r, p, n), dir' \in BOOLEAN,
               disk' \in [Files -> Versions \cup {User, None}],
               manifest' \in Manifests \cup {None}, agents' \in AgentsStates,
               installed' \subseteq Targets, deleted' \subseteq Files, cut' \in BOOLEAN
        PROVE  Typed'
    BY <1>0, <1>1, MovesKeep DEF Typed, TypeOK
  <1>2. ASSUME NEW r \in Runs, Quiet(r)
        PROVE  Typed'
    BY <1>1, <1>2, QuietStep DEF Typed, TypeOK
  <1>3. ASSUME NEW r \in Runs, Plan(r)
        PROVE  Typed'
    <2>1. /\ installed' \subseteq installed
          /\ UNCHANGED <<root, agents, deleted, cut>>
      BY <1>3, PlanStep
    <2>2. \E p, n : Moves(r, p, n)
      BY <1>3, PlanStep DEF Planning
    <2> QED  BY <1>1, <2>1, <2>2 DEF Typed, TypeOK, root
  <1>4. ASSUME NEW r \in Runs, Apply(r)
        PROVE  Typed'
    <2>1. PICK f, p, n : Applying(r, f, p, n)
      BY <1>4, ApplyStep
    <2>2. /\ Moves(r, p, n)
          /\ disk' \in {disk, [disk EXCEPT ![f] = job[r].version], [disk EXCEPT ![f] = None]}
          /\ deleted' \subseteq deleted
      BY <2>1 DEF Applying, Ops
    <2>3. /\ job[r].version \in Versions /\ dir' \in BOOLEAN
          /\ UNCHANGED <<manifest, agents, installed, cut>>
      BY <1>4, ApplyStep
    <2> QED  BY <1>1, <2>2, <2>3 DEF Typed, TypeOK
  <1>5. ASSUME NEW r \in Runs, Completes(r), job[r] \in Jobs
        PROVE  installed' \subseteq Targets
    BY <1>5 DEF Completes, Typed, TypeOK, Jobs
  <1>6. ASSUME NEW r \in Runs, Save(r)
        PROVE  Typed'
    BY <1>1, <1>5, <1>6, SaveStep DEF Typed, TypeOK
  <1>7. ASSUME NEW r \in Runs, WriteAgents(r)
        PROVE  Typed'
    BY <1>1, <1>7, WriteAgentsStep DEF Typed, TypeOK, root, history
  <1>8. ASSUME NEW r \in Runs, Record(r)
        PROVE  Typed'
    BY <1>1, <1>5, <1>8, RecordStep DEF Typed, TypeOK
  <1>9. ASSUME NEW r \in Runs, ApplyFails(r) \/ WriteFails(r)
        PROVE  Typed'
    <2>1. manifest' \in Manifests \cup {None} /\ cut' \in BOOLEAN
      BY <1>9, FailStep, SavedType DEF Typed, TypeOK
    <2> QED  BY <1>1, <1>9, <2>1, FailStep DEF Typed, TypeOK
  <1>10. CASE (\E f \in Files : EditFile(f)) \/ EditAgents
    BY <1>0, <1>10, UserStep DEF Typed, TypeOK, JobTypes
  <1>11. CASE UNCHANGED vars
    BY <1>0, <1>11 DEF Typed, TypeOK, JobTypes, vars, root, history
  <1> QED  BY <1>2, <1>3, <1>4, <1>6, <1>7, <1>8, <1>9, <1>10, <1>11 DEF Next, Step

-----------------------------------------------------------------------------
(* The user's edits *)

(* A plan has no operation on a file the user wrote, unless it is forced. *)
LEMMA PlanRespects ==
  ASSUME Typed, NEW r \in Runs, job[r] \in Jobs, job[r].version \in Versions,
         NEW p, NEW n, Planning(r, p, n)
  PROVE  EditFits(p, n)
  <1> DEFINE j == job[r]
  <1>0. n \in Jobs /\ n.force = j.force /\ n.cmd = j.cmd /\ j.cmd \in {"install", "uninstall"}
    BY DEF Planning, Jobs
  <1>1. ASSUME NEW f \in DOMAIN n.todo, disk[f] = User, n.todo[f].act # "none"
        PROVE  j.force
    <2>1. CASE j.cmd = "install"
      <3>1. PICK m \in Manifests : m = (IF manifest = None THEN EmptyManifest ELSE manifest)
        BY EmptyType DEF Typed, TypeOK
      <3>2. n.todo = InstallPlan(j).todo
        BY <1>0, <2>1 DEF Planning
      <3>3. n.todo[f] = IF f \in Ships[j.version] THEN InstallOp(j, f, m.files[f])
                        ELSE RemovalOp(f, m.files[f])
        BY <3>1, <3>2, InstallPlanIs
      <3>4. f \in Files
        BY <1>0, TodoTypes DEF Jobs
      <3>5. m.files[f] # User
        BY <3>4, SkillsAssumption DEF Manifests
      <3>6. disk[f] # j.version /\ disk[f] # None
        BY <1>1, SkillsAssumption
      <3> QED  BY <1>1, <3>3, <3>5, <3>6 DEF InstallOp, RemovalOp
    <2>2. CASE j.cmd = "uninstall"
      <3>1. manifest \in Manifests /\ n.todo = UninstallPlan(j).todo
        BY <1>0, <2>2 DEF Planning
      <3>2. n.todo[f] = RemovalOp(f, manifest.files[f])
        BY <3>1, UninstallPlanIs
      <3>3. f \in Files
        BY <1>0, TodoTypes DEF Jobs
      <3>4. manifest.files[f] # User
        BY <3>1, <3>3, SkillsAssumption DEF Manifests
      <3> QED  BY <1>1, <3>2, <3>4 DEF RemovalOp
    <2> QED  BY <1>0, <2>1, <2>2
  <1>2. n.agents = None \/ /\ n.agents.to.own = agents.own
                           /\ agents.block = User => j.force
    <2> DEFINE plan == IF n.cmd = "install" THEN InstallPlan(j) ELSE UninstallPlan(j)
    <2>1. n.agents = AgentsPlan(j, plan.manifest) /\ n.manifest = plan.manifest
      BY DEF Planning
    <2>2. plan.manifest \in Manifests
      BY <2>1 DEF Planning, Moves, JobFits
    <2> HIDE DEF plan
    <2> QED  BY <2>1, <2>2, AgentsPlanIs DEF Typed
  <1>3. p \in {"apply", "save"}
    BY DEF Planning
  <1> QED  BY <1>0, <1>1, <1>2, <1>3 DEF EditFits

LEMMA EditStep == Typed /\ EditInv /\ [Next]_vars => EditInv'
  <1> SUFFICES ASSUME Typed, EditInv, [Next]_vars PROVE EditInv'
    OBVIOUS
  <1> DEFINE Quiet(r) ==
               \/ Start(r) \/ MakeRoot(r) \/ OpenLock(r) \/ TryLock(r) \/ GiveUp(r) \/ Unlock(r)
               \/ CheckEmpty(r) \/ RemoveLock(r) \/ RemoveRoot(r) \/ Leave(r) \/ Kill(r)
             Spares ==
               /\ raced \subseteq raced'
               /\ \A f \in Files : disk'[f] = User => disk[f] = User \/ f \in raced'
               /\ \/ AgentsMd \in raced'
                  \/ agents' = agents
                  \/ agents'.own = agents.own /\ agents'.block # User
  <1>1. ASSUME NEW p, NEW j, EditFits(p, j), p # "idle" => j \in Jobs, Spares
        PROVE  EditFits(p, j)'
    <2>1. p = "apply" => DOMAIN j.todo \subseteq Files
      BY <1>1, TodoTypes DEF Jobs
    <2> QED  BY <1>1, <2>1 DEF EditFits
  <1>2. ASSUME NEW r \in Runs, NEW p, NEW n, Moves(r, p, n), EditFits(p, n)', Spares
        PROVE  EditInv'
    <2> SUFFICES ASSUME NEW s \in Runs PROVE EditFits(pc[s], job[s])'
      BY DEF EditInv
    <2>1. CASE s = r
      BY <1>2, <2>1, MovesKeep DEF EditFits
    <2>2. CASE s # r
      <3>1. pc'[s] = pc[s] /\ job'[s] = job[s]
        BY <1>2, <2>2, MovesKeep
      <3>2. EditFits(pc[s], job[s]) /\ (pc[s] # "idle" => job[s] \in Jobs)
        BY DEF EditInv, Typed, JobTypes, JobFits
      <3>3. ASSUME NEW p2, NEW j2, p2 = pc[s], j2 = job[s]
            PROVE  EditFits(p2, j2)'
        BY <1>1, <1>2, <3>2, <3>3
      <3> QED  BY <3>1, <3>3 DEF EditFits
    <2> QED  BY <2>1, <2>2
  <1>3. ASSUME NEW p, NEW n, p \notin {"apply", "save", "agents"}
        PROVE  EditFits(p, n)'
    BY <1>3 DEF EditFits
  <1>4. ASSUME UNCHANGED <<disk, agents, raced>>
        PROVE  Spares
    BY <1>4
  <1> HIDE DEF Spares
  <1>5. ASSUME NEW r \in Runs, Quiet(r)
        PROVE  EditInv'
    BY <1>2, <1>3, <1>4, <1>5, QuietStep DEF Planned
  <1>6. ASSUME NEW r \in Runs, Plan(r)
        PROVE  EditInv'
    <2>1. UNCHANGED <<disk, agents, raced>>
      BY <1>6, PlanStep DEF root
    <2>2. CASE \E n : Moves(r, "unlock", n)
      BY <1>2, <1>3, <1>4, <2>1, <2>2
    <2>3. ASSUME NEW p, NEW n, Planning(r, p, n)
          PROVE  EditInv'
      <3>1. EditFits(p, n)
        BY <1>6, <2>3, PlanStep, PlanRespects
      <3>2. EditFits(p, n)'
        BY <2>1, <3>1 DEF EditFits
      <3> QED  BY <1>2, <1>4, <2>1, <2>3, <3>2 DEF Planning
    <2> QED  BY <1>6, <2>2, <2>3, PlanStep
  <1>7. ASSUME NEW r \in Runs, Apply(r)
        PROVE  EditInv'
    <2>1. PICK f, p, n : Applying(r, f, p, n)
      BY <1>7, ApplyStep
    <2>2. /\ pc[r] = "apply" /\ job[r].version \in Versions
          /\ UNCHANGED <<agents, raced>>
      BY <1>7, ApplyStep
    <2>3. /\ Moves(r, p, n) /\ p \in {"apply", "save"}
          /\ DOMAIN n.todo \subseteq DOMAIN job[r].todo
          /\ \A g \in DOMAIN n.todo : n.todo[g] = job[r].todo[g]
          /\ n.force = job[r].force /\ n.agents = job[r].agents
          /\ disk' \in {disk, [disk EXCEPT ![f] = job[r].version], [disk EXCEPT ![f] = None]}
      BY <2>1 DEF Applying, Ops
    <2>4. \A g \in Files : disk'[g] = User => disk[g] = User
      BY <2>2, <2>3, SkillsAssumption DEF Typed, TypeOK
    <2>5. EditFits("apply", job[r])
      BY <2>2 DEF EditInv
    <2>6. Spares
      BY <2>2, <2>4 DEF Spares
    <2>7. DOMAIN n.todo \subseteq Files
      BY <2>1, TodoTypes DEF Applying, Jobs
    <2>8. EditFits(p, n)'
      BY <2>2, <2>3, <2>4, <2>5, <2>7 DEF EditFits
    <2> QED  BY <1>2, <2>3, <2>6, <2>8
  <1>8. ASSUME NEW r \in Runs, Save(r)
        PROVE  EditInv'
    <2>1. UNCHANGED <<disk, agents, raced>> /\ pc[r] = "save"
      BY <1>8, SaveStep
    <2>2. CASE Moves(r, "agents", job[r])
      <3>1. EditFits("agents", job[r])
        BY <2>1 DEF EditInv, EditFits
      <3>2. ASSUME NEW j, j = job[r]
            PROVE  EditFits("agents", j)'
        BY <2>1, <3>1, <3>2 DEF EditFits
      <3> QED  BY <1>2, <1>4, <2>1, <2>2, <3>2
    <2> QED  BY <1>2, <1>3, <1>4, <1>8, <2>1, <2>2, SaveStep
  <1>9. ASSUME NEW r \in Runs, WriteAgents(r)
        PROVE  EditInv'
    <2>1. /\ pc[r] = "agents" /\ job[r].agents \in AgentsPlans \ {None}
          /\ agents' = job[r].agents.to /\ UNCHANGED <<disk, raced>>
          /\ Moves(r, "record", job[r])
      BY <1>9, WriteAgentsStep DEF root, history
    <2>2. AgentsMd \in raced \/ job[r].agents.to.own = agents.own
      BY <2>1 DEF EditInv, EditFits
    <2>3. job[r].agents.to.block # User
      BY <2>1, SkillsAssumption DEF AgentsPlans
    <2>4. Spares
      BY <2>1, <2>2, <2>3 DEF Spares
    <2> QED  BY <1>2, <1>3, <2>1, <2>4
  <1>10. ASSUME NEW r \in Runs, Record(r) \/ ApplyFails(r) \/ WriteFails(r)
         PROVE  EditInv'
    <2>1. UNCHANGED <<disk, agents, raced>> /\ \E n : Moves(r, "unlock", n)
      BY <1>10, RecordStep, FailStep
    <2> QED  BY <1>2, <1>3, <1>4, <2>1
  <1>11. ASSUME UNCHANGED <<pc, job>>, raced \subseteq raced',
                \A f \in Files : disk'[f] = User /\ Executing => disk[f] = User \/ f \in raced',
                agents' # agents /\ Executing => AgentsMd \in raced'
         PROVE  EditInv'
    <2> SUFFICES ASSUME NEW s \in Runs PROVE EditFits(pc[s], job[s])'
      BY DEF EditInv
    <2>1. CASE pc[s] \in Planned
      <3>1. Spares
        BY <1>11, <2>1 DEF Spares, Executing, Planned
      <3>2. EditFits(pc[s], job[s]) /\ (pc[s] # "idle" => job[s] \in Jobs)
        BY DEF EditInv, Typed, JobTypes, JobFits
      <3>3. ASSUME NEW p2, NEW j2, p2 = pc[s], j2 = job[s]
            PROVE  EditFits(p2, j2)'
        BY <1>1, <3>1, <3>2, <3>3
      <3> QED  BY <1>11, <3>3 DEF EditFits
    <2>2. CASE pc[s] \notin Planned
      BY <1>11, <2>2 DEF EditFits, Planned
    <2> QED  BY <2>1, <2>2
  <1>12. CASE (\E f \in Files : EditFile(f)) \/ EditAgents
    BY <1>11, <1>12, UserStep
  <1>13. CASE UNCHANGED vars
    BY <1>11, <1>13 DEF vars, root, history
  <1> QED  BY <1>5, <1>6, <1>7, <1>8, <1>9, <1>10, <1>12, <1>13 DEF Next, Step

LEMMA EditsStep ==
  ASSUME Typed, EditInv, [Next]_vars, <<pc, job>>' # <<pc, job>>
  PROVE  /\ \A f \in Files : disk[f] = User /\ disk'[f] # User => \E r \in Runs : Overwrites(r, f)
         /\ agents.own => agents'.own \/ AgentsMd \in raced
         /\ agents.block = User /\ agents'.block # User => \E r \in Runs : Overwrites(r, AgentsMd)
  <1>1. ASSUME NEW f \in Files, disk[f] = User, disk'[f] # User
        PROVE  \E r \in Runs : Overwrites(r, f)
    <2>1. PICK r \in Runs : Apply(r)
      BY <1>1, QuietStep, PlanStep, SaveStep, WriteAgentsStep, RecordStep, FailStep, UserStep
         DEF Next, Step, root, history, vars
    <2>2. PICK g, p, n : Applying(r, g, p, n)
      BY <2>1, ApplyStep
    <2>3. f = g /\ f \in DOMAIN job[r].todo /\ job[r].todo[f].act # "none"
      BY <1>1, <2>2 DEF Applying, IsNext, Ops, Typed, TypeOK
    <2>4. pc[r] = "apply" /\ EditFits("apply", job[r])
      BY <2>1, ApplyStep DEF EditInv
    <2> QED  BY <1>1, <2>3, <2>4 DEF EditFits, Overwrites
  <1>2. ASSUME agents' # agents
        PROVE  \E r \in Runs : WriteAgents(r)
    BY <1>2, QuietStep, PlanStep, ApplyStep, SaveStep, RecordStep, FailStep, UserStep
       DEF Next, Step, root, history, vars
  <1>3. ASSUME NEW r \in Runs, WriteAgents(r)
        PROVE  /\ pc[r] = "agents"
               /\ \/ AgentsMd \in raced
                  \/ agents'.own = agents.own /\ (agents.block = User => job[r].force)
    BY <1>3, WriteAgentsStep DEF EditInv, EditFits
  <1> QED  BY <1>1, <1>2, <1>3 DEF Overwrites

(* What the user wrote, in a skill file or in AGENTS.md, is changed only by a
   forced install or a run that was executing its plan when the user wrote it
   (decide, plan_removal, plan_install_agents_md), for any number of processes,
   targets, versions and files, and whatever the lock does. *)
THEOREM EditsAreKept == Spec => EditsKept
  <1>1. Init => EditInv
    BY DEF Init, EditInv, EditFits
  <1>2. Typed /\ EditInv /\ [Next]_vars =>
          [<<pc, job>>' # <<pc, job>> =>
             /\ \A f \in Files : disk[f] = User /\ disk'[f] # User => \E r \in Runs : Overwrites(r, f)
             /\ agents.own => agents'.own \/ AgentsMd \in raced
             /\ agents.block = User /\ agents'.block # User => \E r \in Runs : Overwrites(r, AgentsMd)]_vars
    BY EditsStep
  <1> QED  BY <1>1, <1>2, TypedInit, TypedStep, EditStep, PTL DEF Spec, EditsKept

-----------------------------------------------------------------------------
(* The installer's own files *)

(* While the lock excludes, a process that holds it is alone in its plan. *)
LEMMA Alone ==
  ASSUME LockInv, ~unlinked, NEW r \in Runs, pc[r] \in Critical
  PROVE  \A s \in Runs \ {r} : pc[s] \notin Critical
  BY LockSuffices DEF LockExcludes, OneWriter

LEMMA OwnAlone ==
  ASSUME Typed, NEW r \in Runs, NEW p, NEW n, Moves(r, p, n),
         \A s \in Runs \ {r} : pc[s] \notin {"apply", "save"},
         OwnFits(p, n)', p \notin {"apply", "save"} => OwnIn(manifest)'
  PROVE  OwnInv'
  <1>1. ASSUME NEW s \in Runs
        PROVE  OwnFits(pc[s], job[s])'
    BY <1>1, MovesKeep DEF OwnFits
  <1>2. (\A s \in Runs : pc[s] \notin {"apply", "save"})' => OwnIn(manifest)'
    BY MovesKeep
  <1> QED  BY <1>1, <1>2 DEF OwnInv

(* What a plan leaves alone is the installer's only if it will be recorded so. *)
LEMMA PlanLeaves ==
  ASSUME Typed, NEW r \in Runs, job[r] \in Jobs, job[r].version \in Versions,
         NEW p, NEW n, Planning(r, p, n)
  PROVE  /\ LeavesFit(n)
         /\ n.manifest.files = (IF manifest = None THEN EmptyManifest ELSE manifest).files
  <1> DEFINE j == job[r]
  <1>0. n.cmd = j.cmd /\ n.version = j.version /\ n \in Jobs /\ j.cmd \in {"install", "uninstall"}
    BY DEF Planning, Jobs
  <1>1. ASSUME NEW f, NEW recorded, disk[f] \in Versions, NEW op,
               op \in {InstallOp(j, f, recorded), RemovalOp(f, recorded)}, op.act = "none"
        PROVE  op.entry = "keep" \/ (op.entry = "set" /\ disk[f] = j.version)
    BY <1>1, SkillsAssumption DEF InstallOp, RemovalOp
  <1>2. CASE j.cmd = "install"
    <2>1. PICK m \in Manifests : m = (IF manifest = None THEN EmptyManifest ELSE manifest)
      BY EmptyType DEF Typed, TypeOK
    <2>2. n.todo = InstallPlan(j).todo /\ n.manifest = InstallPlan(j).manifest
      BY <1>0, <1>2 DEF Planning
    <2>3. n.manifest.files = m.files
          /\ \A f \in DOMAIN n.todo :
               n.todo[f] \in {InstallOp(j, f, m.files[f]), RemovalOp(f, m.files[f])}
      BY <2>1, <2>2, InstallPlanIs
    <2> QED  BY <1>0, <1>1, <2>1, <2>3 DEF LeavesFit
  <1>3. CASE j.cmd = "uninstall"
    <2>1. manifest \in Manifests /\ n.todo = UninstallPlan(j).todo
          /\ n.manifest = UninstallPlan(j).manifest
      BY <1>0, <1>3 DEF Planning
    <2>2. n.manifest.files = manifest.files
          /\ \A f \in DOMAIN n.todo : n.todo[f] = RemovalOp(f, manifest.files[f])
      BY <2>1, UninstallPlanIs
    <2> QED  BY <1>0, <1>1, <2>1, <2>2, NothingAssumption DEF LeavesFit
  <1> QED  BY <1>0, <1>2, <1>3

(* An operation leaves the installer's files recorded in the manifest in memory. *)
LEMMA ApplyOwns ==
  ASSUME Typed, NEW r \in Runs, job[r] \in Jobs, job[r].manifest \in Manifests,
         job[r].version \in Versions,
         NEW f, NEW p, NEW n, Applying(r, f, p, n), LeavesFit(job[r]), OwnIn(job[r].manifest)
  PROVE  LeavesFit(n)' /\ OwnIn(n.manifest)'
  <1> DEFINE j == job[r]
             op == j.todo[f]
  <1>1. /\ f \in Files /\ f \in DOMAIN j.todo /\ op \in Ops /\ n.version = j.version
        /\ DOMAIN n.todo = DOMAIN j.todo \ {f}
        /\ \A g \in DOMAIN n.todo : n.todo[g] = j.todo[g]
        /\ n.manifest \in Manifests
        /\ \A g \in Files \ {f} : n.manifest.files[g] = j.manifest.files[g]
    BY DEF Applying, IsNext, Manifests
  <1>2. disk \in [Files -> Versions \cup {User, None}]
    BY DEF Typed, TypeOK
  <1>3. \A g \in Files \ {f} : disk'[g] = disk[g]
    BY <1>1, <1>2 DEF Applying, Ops
  <1>4. DOMAIN j.todo \subseteq Files
    BY TodoTypes DEF Jobs
  <1>5. LeavesFit(n)'
    BY <1>1, <1>3, <1>4 DEF LeavesFit
  <1>6. ASSUME disk'[f] \in Versions
        PROVE  n.manifest.files[f] = disk'[f]
    <2>1. j.manifest.files \in [Files -> Versions \cup {None}]
      BY DEF Manifests
    <2>2. n.manifest.files[f] = CASE op.entry = "set"  -> j.version
                                  [] op.entry = "drop" -> None
                                  [] op.entry = "keep" -> j.manifest.files[f]
      BY <1>1, <2>1 DEF Applying
    <2>3. disk'[f] = CASE op.act = "write"  -> j.version
                       [] op.act = "remove" -> None
                       [] op.act = "none"   -> disk[f]
      BY <1>1, <1>2 DEF Applying, Ops
    <2>4. CASE op.act = "write"
      BY <1>1, <2>2, <2>3, <2>4 DEF Ops
    <2>5. CASE op.act = "remove"
      BY <1>6, <2>3, <2>5, SkillsAssumption
    <2>6. CASE op.act = "none"
      <3>1. disk'[f] = disk[f]
        BY <2>3, <2>6
      <3>2. op.entry = "keep" \/ (op.entry = "set" /\ disk[f] = j.version)
        BY <1>1, <1>6, <2>6, <3>1 DEF LeavesFit
      <3> QED  BY <1>1, <1>6, <2>2, <3>1, <3>2 DEF OwnIn
    <2> QED  BY <1>1, <2>4, <2>5, <2>6 DEF Ops
  <1>7. n.manifest # None
    BY <1>1, NothingAssumption
  <1> QED  BY <1>1, <1>3, <1>5, <1>6, <1>7 DEF OwnIn

(* A manifest that records a file of the installer's is saved. *)
LEMMA OwnSaved ==
  ASSUME TypeOK, NEW m \in Manifests, OwnIn(m)
  PROVE  OwnIn(Saved(m))
  <1>1. CASE \E f \in Files : disk[f] \in Versions
    BY <1>1, SkillsAssumption DEF OwnIn, Saved, Recorded
  <1>2. CASE ~\E f \in Files : disk[f] \in Versions
    BY <1>2 DEF OwnIn
  <1> QED  BY <1>1, <1>2

LEMMA OwnStep == Typed /\ LockInv /\ OwnInv /\ [Next]_vars => OwnInv'
  <1> SUFFICES ASSUME Typed, LockInv, OwnInv, [Next]_vars, ~unlinked', ~cut' PROVE OwnInv'
    BY DEF OwnInv
  <1> DEFINE Quiet(r) ==
               \/ Start(r) \/ MakeRoot(r) \/ OpenLock(r) \/ TryLock(r) \/ GiveUp(r) \/ Unlock(r)
               \/ CheckEmpty(r) \/ RemoveLock(r) \/ RemoveRoot(r) \/ Leave(r) \/ Kill(r)
             Idling == \A s \in Runs : pc[s] \notin {"apply", "save"}
  <1>1. ASSUME ~unlinked, ~cut
        PROVE  /\ \A s \in Runs : OwnFits(pc[s], job[s])
               /\ Idling => OwnIn(manifest)
    BY <1>1 DEF OwnInv
  <1>2. ASSUME NEW r \in Runs, NEW p, NEW n, Moves(r, p, n), ~unlinked, ~cut,
               pc[r] \notin {"apply", "save"}, p \notin {"apply", "save"},
               UNCHANGED <<disk, manifest>>
        PROVE  OwnInv'
    <2>1. ASSUME NEW s \in Runs
          PROVE  OwnFits(pc[s], job[s])'
      <3>1. CASE s = r
        BY <1>2, <3>1, MovesKeep DEF OwnFits
      <3>2. CASE s # r
        <4>1. pc'[s] = pc[s] /\ job'[s] = job[s]
          BY <1>2, <3>2, MovesKeep
        <4>2. OwnFits(pc[s], job[s])
          BY <1>1, <1>2
        <4>3. ASSUME NEW p2, NEW j2, p2 = pc[s], j2 = job[s]
              PROVE  OwnFits(p2, j2)'
          BY <1>2, <4>2, <4>3 DEF OwnFits, LeavesFit, OwnIn
        <4> QED  BY <4>1, <4>3 DEF OwnFits, LeavesFit, OwnIn
      <3> QED  BY <3>1, <3>2
    <2>2. Idling' => Idling
      BY <1>2, MovesKeep
    <2>3. Idling => OwnIn(manifest)'
      BY <1>1, <1>2 DEF OwnIn
    <2> QED  BY <2>1, <2>2, <2>3 DEF OwnInv
  <1>3. ASSUME NEW r \in Runs, Quiet(r)
        PROVE  OwnInv'
    <2>1. PICK p, n : p \in Places \ Planned /\ Moves(r, p, n)
      BY <1>3, QuietStep
    <2>2. /\ UNCHANGED <<disk, manifest>> /\ (cut => cut') /\ (pc[r] \in Planned => cut')
          /\ unlinked' # unlinked => RemoveLock(r)
      BY <1>3, QuietStep
    <2>3. ~unlinked
      BY <2>2 DEF RemoveLock, Typed, TypeOK
    <2> QED  BY <1>2, <2>1, <2>2, <2>3 DEF Planned
  <1>4. ASSUME NEW r \in Runs, Plan(r)
        PROVE  OwnInv'
    <2>1. /\ pc[r] = "plan" /\ job[r] \in Jobs /\ job[r].version \in Versions
          /\ ~unlinked /\ ~cut /\ UNCHANGED <<disk, manifest>>
      BY <1>4, PlanStep DEF root
    <2>2. ASSUME NEW n, Moves(r, "unlock", n)
          PROVE  OwnInv'
      BY <1>2, <2>1, <2>2
    <2>3. ASSUME NEW p, NEW n, Planning(r, p, n)
          PROVE  OwnInv'
      <3>1. \A s \in Runs \ {r} : pc[s] \notin {"apply", "save"}
        BY <2>1, Alone DEF Critical
      <3>2. OwnIn(manifest)
        BY <1>1, <2>1, <3>1
      <3>3. LeavesFit(n)
            /\ n.manifest.files = (IF manifest = None THEN EmptyManifest ELSE manifest).files
        BY <2>1, <2>3, PlanLeaves
      <3>4. Moves(r, p, n) /\ p \in {"apply", "save"} /\ n.manifest \in Manifests
        BY <2>3 DEF Planning, Moves, JobFits
      <3>5. OwnIn(n.manifest)
        BY <3>2, <3>3, <3>4, NothingAssumption DEF OwnIn
      <3>6. OwnFits(p, n)'
        BY <2>1, <3>3, <3>5 DEF OwnFits, LeavesFit, OwnIn
      <3> QED  BY <3>1, <3>4, <3>6, OwnAlone
    <2> QED  BY <1>4, <2>2, <2>3, PlanStep
  <1>5. ASSUME NEW r \in Runs, Apply(r)
        PROVE  OwnInv'
    <2>1. PICK f, p, n : Applying(r, f, p, n)
      BY <1>5, ApplyStep
    <2>2. /\ pc[r] = "apply" /\ job[r] \in Jobs /\ job[r].version \in Versions
          /\ job[r].manifest \in Manifests /\ ~unlinked /\ ~cut
      BY <1>5, ApplyStep
    <2>3. LeavesFit(job[r]) /\ OwnIn(job[r].manifest)
      BY <1>1, <2>2 DEF OwnFits
    <2>4. OwnFits(p, n)'
      BY <2>1, <2>2, <2>3, ApplyOwns DEF OwnFits
    <2>5. \A s \in Runs \ {r} : pc[s] \notin {"apply", "save"}
      BY <2>2, Alone DEF Critical
    <2>6. Moves(r, p, n) /\ p \in {"apply", "save"}
      BY <2>1 DEF Applying
    <2> QED  BY <2>4, <2>5, <2>6, OwnAlone
  <1>6. ASSUME NEW r \in Runs, Save(r)
        PROVE  OwnInv'
    <2>1. /\ pc[r] = "save" /\ job[r].manifest \in Manifests
          /\ manifest' = Saved(job[r].manifest) /\ disk' = disk /\ ~unlinked /\ ~cut
          /\ \E p, n : p \in {"unlock", "agents"} /\ Moves(r, p, n)
      BY <1>6, SaveStep
    <2>2. OwnIn(job[r].manifest)
      BY <1>1, <2>1 DEF OwnFits
    <2>3. OwnIn(Saved(job[r].manifest))
      BY <2>1, <2>2, OwnSaved DEF Typed
    <2>4. OwnIn(manifest)'
      BY <2>1, <2>3 DEF OwnIn
    <2>5. \A s \in Runs \ {r} : pc[s] \notin {"apply", "save"}
      BY <2>1, Alone DEF Critical
    <2> QED  BY <2>1, <2>4, <2>5, OwnAlone DEF OwnFits
  <1>7. ASSUME NEW r \in Runs, WriteAgents(r)
        PROVE  OwnInv'
    BY <1>2, <1>7, WriteAgentsStep DEF root, history
  <1>8. ASSUME NEW r \in Runs, Record(r)
        PROVE  OwnInv'
    <2>1. /\ pc[r] = "record" /\ disk' = disk /\ ~unlinked /\ ~cut
          /\ \E n : Moves(r, "unlock", n)
      BY <1>8, RecordStep
    <2>2. PICK m \in Manifests, w \in Manifests :
              /\ m = (IF manifest = None THEN EmptyManifest ELSE manifest)
              /\ w.files = m.files
              /\ manifest' = Saved(w)
      BY <1>8, RecordStep
    <2>3. \A s \in Runs \ {r} : pc[s] \notin {"apply", "save"}
      BY <2>1, Alone DEF Critical
    <2>4. OwnIn(manifest)
      BY <1>1, <2>1, <2>3
    <2>5. OwnIn(w)
      BY <2>2, <2>4, NothingAssumption DEF OwnIn
    <2>6. OwnIn(Saved(w))
      BY <2>5, OwnSaved DEF Typed
    <2>7. OwnIn(manifest)'
      BY <2>1, <2>2, <2>6 DEF OwnIn
    <2> QED  BY <2>1, <2>3, <2>7, OwnAlone DEF OwnFits
  <1>9. ASSUME NEW r \in Runs, ApplyFails(r) \/ WriteFails(r)
        PROVE  OwnInv'
    <2>1. /\ disk' = disk /\ ~unlinked /\ ~cut /\ pc[r] = "apply"
          /\ job[r].manifest \in Manifests /\ manifest' = Saved(job[r].manifest)
          /\ \E n : Moves(r, "unlock", n)
      BY <1>9, FailStep
    <2>2. OwnIn(job[r].manifest)
      BY <1>1, <2>1 DEF OwnFits
    <2>3. OwnIn(Saved(job[r].manifest))
      BY <2>1, <2>2, OwnSaved DEF Typed
    <2>4. OwnIn(manifest)'
      BY <2>1, <2>3 DEF OwnIn
    <2>5. \A s \in Runs \ {r} : pc[s] \notin {"apply", "save"}
      BY <2>1, Alone DEF Critical
    <2> QED  BY <2>1, <2>4, <2>5, OwnAlone DEF OwnFits
  <1>10. ASSUME UNCHANGED <<pc, job, manifest, unlinked, cut>>,
                \A f \in Files : disk'[f] \in Versions => disk'[f] = disk[f]
         PROVE  OwnInv'
    <2>1. ASSUME NEW s \in Runs
          PROVE  OwnFits(pc[s], job[s])'
      <3>1. OwnFits(pc[s], job[s]) /\ (pc[s] # "idle" => job[s] \in Jobs)
        BY <1>1, <1>10 DEF Typed, JobTypes, JobFits
      <3>2. ASSUME NEW p2, NEW j2, p2 = pc[s], j2 = job[s]
            PROVE  OwnFits(p2, j2)'
        <4>1. p2 = "apply" => DOMAIN j2.todo \subseteq Files
          BY <3>1, <3>2, TodoTypes DEF Jobs
        <4> QED  BY <1>10, <3>1, <3>2, <4>1 DEF OwnFits, LeavesFit, OwnIn
      <3> QED  BY <1>10, <3>2
    <2>2. Idling' => OwnIn(manifest)'
      BY <1>1, <1>10 DEF OwnIn
    <2> QED  BY <2>1, <2>2 DEF OwnInv
  <1>11. CASE (\E f \in Files : EditFile(f)) \/ EditAgents
    <2>1. \A f \in Files : disk'[f] \in Versions => disk'[f] = disk[f]
      BY <1>11, UserStep, SkillsAssumption
    <2> QED  BY <1>10, <1>11, <2>1, UserStep
  <1>12. CASE UNCHANGED vars
    BY <1>10, <1>12 DEF vars, root, history
  <1> QED  BY <1>3, <1>4, <1>5, <1>6, <1>7, <1>8, <1>9, <1>11, <1>12 DEF Next, Step

LEMMA OwnRecognised == Typed /\ OwnInv => OwnFilesRecognised
  <1> SUFFICES ASSUME OwnInv, ~unlinked, ~cut, NEW f \in Files, disk[f] \in Versions
               PROVE  \/ manifest # None /\ manifest.files[f] = disk[f]
                      \/ \E r \in Runs : /\ pc[r] \in {"apply", "save"}
                                         /\ job[r].manifest.files[f] = disk[f]
    BY DEF OwnFilesRecognised
  <1>1. CASE \A r \in Runs : pc[r] \notin {"apply", "save"}
    BY <1>1 DEF OwnInv, OwnIn
  <1>2. CASE \E r \in Runs : pc[r] \in {"apply", "save"}
    BY <1>2 DEF OwnInv, OwnFits, OwnIn
  <1> QED  BY <1>1, <1>2

(* A skill file that install wrote is in the manifest, or the run that wrote it
   still has to save it, as long as the lock excludes and no run was cut between
   the write and the manifest (execute_root, save_manifest): the installer never
   takes its own file for the user's. *)
THEOREM OwnFilesAreRecognised == Spec => []OwnFilesRecognised
  <1>1. Init => OwnInv
    BY SkillsAssumption DEF Init, OwnInv, OwnFits, OwnIn
  <1>2. LockInv /\ [Next]_vars => LockInv'
    BY LockStep
  <1> QED  BY <1>1, <1>2, TypedInit, TypedStep, LockInitially, OwnStep, OwnRecognised,
              PTL DEF Spec
-----------------------------------------------------------------------------
(* The root that several targets share *)

(* What a plan keeps, provides and leaves to remove. *)
LEMMA PlanShares ==
  ASSUME Typed, NEW r \in Runs, job[r] \in Jobs, job[r].version \in Versions,
         NEW p, NEW n, Planning(r, p, n)
  PROVE  /\ TodoFits(n)
         /\ \/ /\ n.cmd = "install" /\ Provides(n)
               /\ manifest # None =>
                    /\ manifest.targets \subseteq n.manifest.targets
                    /\ n.manifest.files = manifest.files /\ n.manifest.block = manifest.block
            \/ /\ n.cmd = "uninstall" /\ manifest # None
               /\ manifest.targets \ {job[r].target} \subseteq n.manifest.targets
               /\ DOMAIN n.todo # {} => manifest.targets \subseteq {job[r].target}
  <1> DEFINE j == job[r]
  <1>0. n.cmd = j.cmd /\ n.version = j.version /\ n \in Jobs /\ j.cmd \in {"install", "uninstall"}
    BY DEF Planning, Jobs
  <1>1. \A f, recorded :
          /\ InstallOp(j, f, recorded).act # "remove" /\ InstallOp(j, f, recorded).entry # "drop"
          /\ RemovalOp(f, recorded).act # "write"
    BY DEF InstallOp, RemovalOp
  <1>2. CASE j.cmd = "install"
    <2>1. PICK m \in Manifests : m = (IF manifest = None THEN EmptyManifest ELSE manifest)
      BY EmptyType DEF Typed, TypeOK
    <2>2. n.todo = InstallPlan(j).todo /\ n.manifest = InstallPlan(j).manifest
      BY <1>0, <1>2 DEF Planning
    <2>3. /\ n.manifest.targets = m.targets \cup {j.target}
          /\ n.manifest.files = m.files /\ n.manifest.block = m.block
          /\ DOMAIN n.todo = Ships[j.version] \cup Recorded(m)
          /\ \A f \in DOMAIN n.todo :
               n.todo[f] = IF f \in Ships[j.version] THEN InstallOp(j, f, m.files[f])
                           ELSE RemovalOp(f, m.files[f])
      BY <2>1, <2>2, InstallPlanIs
    <2>4. Shipped(n) = Ships[j.version]
      BY <1>0, <1>2 DEF Shipped
    <2>5. TodoFits(n)
      <3>1. \A f \in DOMAIN n.todo : f \notin Ships[j.version] => n.manifest.files[f] # None
        BY <2>3 DEF Recorded
      <3> QED  BY <1>1, <2>3, <2>4, <3>1 DEF TodoFits
    <2>6. Provides(n)
      BY <1>0, <2>3 DEF Provides, EveryVersion, InstallOp
    <2> QED  BY <1>0, <1>2, <2>1, <2>3, <2>5, <2>6
  <1>3. CASE j.cmd = "uninstall"
    <2>1. manifest \in Manifests /\ n.todo = UninstallPlan(j).todo
          /\ n.manifest = UninstallPlan(j).manifest
      BY <1>0, <1>3 DEF Planning
    <2>2. /\ n.manifest.targets = manifest.targets \ {j.target}
          /\ n.manifest.files = manifest.files
          /\ DOMAIN n.todo \subseteq Recorded(manifest)
          /\ DOMAIN n.todo # {} => manifest.targets \subseteq {j.target}
          /\ \A f \in DOMAIN n.todo : n.todo[f] = RemovalOp(f, manifest.files[f])
      BY <2>1, UninstallPlanIs
    <2>3. Shipped(n) = {}
      BY <1>0, <1>3 DEF Shipped
    <2>4. TodoFits(n)
      <3>1. \A f \in DOMAIN n.todo : n.manifest.files[f] # None
        BY <2>2 DEF Recorded
      <3> QED  BY <1>1, <2>2, <2>3, <3>1 DEF TodoFits
    <2> QED  BY <1>0, <1>3, <2>1, <2>2, <2>4, NothingAssumption
  <1> QED  BY <1>0, <1>2, <1>3

(* What is left to do after an operation. *)
LEMMA ApplyShares ==
  ASSUME Typed, NEW r \in Runs, job[r] \in Jobs, job[r].manifest \in Manifests,
         job[r].version \in Versions,
         NEW f, NEW p, NEW n, Applying(r, f, p, n), TodoFits(job[r])
  PROVE  /\ TodoFits(n)
         /\ Worth(job[r].manifest) => Worth(n.manifest) \/ DOMAIN n.todo \cap Shipped(n) = {}
         /\ job[r].cmd = "install" =>
              /\ Provides(job[r]) => Provides(n)'
              /\ \A g \in Files \ deleted' : EveryVersion(g) =>
                   disk'[g] # None \/ (g \notin deleted /\ disk[g] = None)
  <1> DEFINE j == job[r]
             op == j.todo[f]
  <1>1. /\ f \in Files /\ f \in DOMAIN j.todo /\ op \in Ops /\ IsNext(j, f)
        /\ DOMAIN n.todo = DOMAIN j.todo \ {f}
        /\ \A g \in DOMAIN n.todo : n.todo[g] = j.todo[g]
        /\ n.manifest.block = j.manifest.block
        /\ \A g \in Files \ {f} : n.manifest.files[g] = j.manifest.files[g]
        /\ n.cmd = j.cmd /\ n.version = j.version
    BY DEF Applying, IsNext, Manifests
  <1>2. disk \in [Files -> Versions \cup {User, None}]
    BY DEF Typed, TypeOK
  <1>3. \A g \in Files \ {f} : disk'[g] = disk[g]
    BY <1>1, <1>2 DEF Applying, Ops
  <1>4. DOMAIN j.todo \subseteq Files
    BY TodoTypes DEF Jobs
  <1>5. Shipped(n) = Shipped(j)
    BY <1>1 DEF Shipped
  <1>6. TodoFits(n)
    BY <1>1, <1>4, <1>5 DEF TodoFits
  <1>7. n.manifest.files[f] = CASE op.entry = "set"  -> j.version
                                [] op.entry = "drop" -> None
                                [] op.entry = "keep" -> j.manifest.files[f]
    BY <1>1 DEF Applying, Manifests
  <1>8. ASSUME Worth(j.manifest)
        PROVE  Worth(n.manifest) \/ DOMAIN n.todo \cap Shipped(n) = {}
    <2>1. CASE op.entry = "set"
      BY <1>1, <1>7, <2>1, SkillsAssumption DEF Worth, Recorded
    <2>2. CASE op.entry = "keep"
      <3>1. \A g \in Files : n.manifest.files[g] = j.manifest.files[g]
        BY <1>1, <1>7, <2>2
      <3> QED  BY <1>1, <1>8, <3>1 DEF Worth, Recorded
    <2>3. CASE op.entry = "drop"
      <3>1. f \notin Shipped(j)
        BY <1>1, <2>3 DEF TodoFits
      <3>2. \A g \in DOMAIN n.todo : g \notin Shipped(j)
        BY <1>1, <3>1 DEF IsNext, Before
      <3> QED  BY <1>5, <3>2
    <2> QED  BY <1>1, <2>1, <2>2, <2>3 DEF Ops
  <1>9. ASSUME j.cmd = "install", EveryVersion(f)
        PROVE  op.act # "remove"
    BY <1>1, <1>9 DEF TodoFits, Shipped, EveryVersion
  <1>10. disk'[f] = CASE op.act = "write"  -> j.version
                      [] op.act = "remove" -> None
                      [] op.act = "none"   -> disk[f]
    BY <1>1, <1>2 DEF Applying, Ops
  <1>11. deleted' = IF op.act = "write" THEN deleted \ {f} ELSE deleted
    BY DEF Applying
  <1>12. ASSUME j.cmd = "install", NEW g \in Files \ deleted', EveryVersion(g)
         PROVE  /\ disk'[g] # None \/ (g \notin deleted /\ disk[g] = None)
                /\ Provides(j) => \/ disk'[g] # None
                                  \/ g \in DOMAIN n.todo /\ n.todo[g].act = "write"
    <2>1. CASE g = f /\ op.act = "write"
      BY <1>10, <2>1, SkillsAssumption
    <2>2. CASE g = f /\ op.act = "none"
      BY <1>10, <1>11, <1>12, <2>2 DEF Provides
    <2>3. CASE g # f
      BY <1>1, <1>3, <1>11, <1>12, <2>3 DEF Provides
    <2> QED  BY <1>1, <1>9, <1>12, <2>1, <2>2, <2>3 DEF Ops
  <1>13. ASSUME j.cmd = "install", Provides(j)
         PROVE  Provides(n)'
    BY <1>12, <1>13 DEF Provides, EveryVersion
  <1> QED  BY <1>6, <1>8, <1>12, <1>13

LEMMA WorthStep ==
  ASSUME Typed, RootWorth, [Next]_vars
  PROVE  RootWorth'
  <1>1. CASE manifest' = manifest
    BY <1>1 DEF RootWorth, Worth, Recorded
  <1>2. ASSUME NEW m, manifest' = Saved(m)
        PROVE  RootWorth'
    BY <1>2 DEF RootWorth, Worth, Recorded, Saved
  <1>3. manifest' = manifest \/ \E m : manifest' = Saved(m)
    BY QuietStep, PlanStep, ApplyStep, SaveStep, WriteAgentsStep, RecordStep, FailStep, UserStep
       DEF Next, Step, root, vars
  <1> QED  BY <1>1, <1>2, <1>3

LEMMA TodosStep ==
  ASSUME Typed, TodosFit, [Next]_vars
  PROVE  TodosFit'
  <1> DEFINE Quiet(r) ==
               \/ Start(r) \/ MakeRoot(r) \/ OpenLock(r) \/ TryLock(r) \/ GiveUp(r) \/ Unlock(r)
               \/ CheckEmpty(r) \/ RemoveLock(r) \/ RemoveRoot(r) \/ Leave(r) \/ Kill(r)
  <1>1. ASSUME NEW r \in Runs, NEW p, NEW n, Moves(r, p, n), p = "apply" => TodoFits(n)
        PROVE  TodosFit'
    BY <1>1, MovesKeep DEF TodosFit, TodoFits, Shipped
  <1>2. ASSUME NEW r \in Runs, NEW p, NEW n, Moves(r, p, n), p # "apply"
        PROVE  TodosFit'
    BY <1>1, <1>2
  <1>3. ASSUME NEW r \in Runs, Quiet(r)
        PROVE  TodosFit'
    BY <1>2, <1>3, QuietStep DEF Planned
  <1>4. ASSUME NEW r \in Runs, Plan(r)
        PROVE  TodosFit'
    <2>1. job[r] \in Jobs /\ job[r].version \in Versions
      BY <1>4, PlanStep
    <2>2. ASSUME NEW n, Moves(r, "unlock", n)
          PROVE  TodosFit'
      BY <1>2, <2>2
    <2>3. ASSUME NEW p, NEW n, Planning(r, p, n)
          PROVE  TodosFit'
      <3>1. TodoFits(n) /\ Moves(r, p, n)
        BY <2>1, <2>3, PlanShares DEF Planning
      <3> QED  BY <1>1, <3>1
    <2> QED  BY <1>4, <2>2, <2>3, PlanStep
  <1>5. ASSUME NEW r \in Runs, Apply(r)
        PROVE  TodosFit'
    <2>1. PICK f, p, n : Applying(r, f, p, n)
      BY <1>5, ApplyStep
    <2>2. TodoFits(n)
      BY <1>5, <2>1, ApplyStep, ApplyShares DEF TodosFit
    <2> QED  BY <1>1, <2>1, <2>2 DEF Applying
  <1>6. ASSUME NEW r \in Runs,
               Save(r) \/ WriteAgents(r) \/ Record(r) \/ ApplyFails(r) \/ WriteFails(r)
        PROVE  TodosFit'
    <2>1. \E p, n : p # "apply" /\ Moves(r, p, n)
      BY <1>6, SaveStep, WriteAgentsStep, RecordStep, FailStep
    <2> QED  BY <1>2, <2>1
  <1>7. CASE UNCHANGED <<pc, job>>
    BY <1>7 DEF TodosFit, TodoFits, Shipped
  <1> QED  BY <1>3, <1>4, <1>5, <1>6, <1>7, UserStep DEF Next, Step, vars

LEMMA SharedAlone ==
  ASSUME Typed, NEW r \in Runs, NEW p, NEW n, Moves(r, p, n),
         \A s \in Runs \ {r} : pc[s] \notin Planned, SharedFits(p, n)'
  PROVE  \A s \in Runs : SharedFits(pc[s], job[s])'
  <1> SUFFICES ASSUME NEW s \in Runs PROVE SharedFits(pc[s], job[s])'
    OBVIOUS
  <1>1. CASE s = r
    BY <1>1, MovesKeep DEF SharedFits, Provides, EveryVersion, Worth, Recorded, Shipped
  <1>2. CASE s # r
    <2>1. pc'[s] = pc[s] /\ pc[s] \notin Planned
      BY <1>2, MovesKeep
    <2> QED  BY <2>1 DEF SharedFits, Planned
  <1> QED  BY <1>1, <1>2

(* Away from the plans' execution nothing is shared but the set of targets. *)
LEMMA SharedQuiet ==
  ASSUME Typed, NEW r \in Runs, NEW p, NEW n, Moves(r, p, n), p \notin Planned,
         Kept, \A s \in Runs : SharedFits(pc[s], job[s]),
         UNCHANGED <<disk, manifest, deleted>>, installed' \subseteq installed
  PROVE  Kept' /\ \A s \in Runs : SharedFits(pc[s], job[s])'
  <1>1. Kept'
    BY DEF Kept, EveryVersion
  <1> SUFFICES ASSUME NEW s \in Runs PROVE SharedFits(pc[s], job[s])'
    BY <1>1
  <1>2. CASE s = r
    BY <1>2, MovesKeep DEF SharedFits, Planned
  <1>3. CASE s # r
    <2>1. pc'[s] = pc[s] /\ job'[s] = job[s]
      BY <1>3, MovesKeep
    <2>2. ASSUME NEW p2, NEW j2, p2 = pc[s], j2 = job[s]
          PROVE  SharedFits(p2, j2)'
      <3>1. SharedFits(p2, j2)
        BY <2>2
      <3>2. Provides(j2) => Provides(j2)'
        BY DEF Provides, EveryVersion
      <3> QED  BY <3>1, <3>2 DEF SharedFits, Worth, Recorded, Shipped
    <2> QED  BY <2>1, <2>2 DEF SharedFits, Provides, EveryVersion, Worth, Recorded, Shipped
  <1> QED  BY <1>2, <1>3

(* Once the last write is recorded, the completed targets are. *)
LEMMA CompletesKeeps ==
  ASSUME Typed, NEW r \in Runs, job[r] \in Jobs, Completes(r), NEW m \in Manifests,
         manifest' = Saved(m), installed \subseteq m.targets, DOMAIN job[r].todo = {},
         job[r].cmd = "install" => Provides(job[r]),
         installed # {} =>
             \A f \in Files \ deleted : EveryVersion(f) => disk[f] # None,
         UNCHANGED <<disk, deleted>>
  PROVE  Kept'
  <1>1. CASE manifest' = None
    BY <1>1 DEF Completes, Kept
  <1>2. CASE manifest' # None
    <2>1. manifest' = m
      BY <1>2 DEF Saved
    <2>2. installed' \subseteq m.targets
      BY <2>1 DEF Completes
    <2>3. installed' # {} => installed # {} \/ job[r].cmd = "install"
      BY <1>2 DEF Completes
    <2>4. installed' # {} => \A f \in Files \ deleted : EveryVersion(f) => disk[f] # None
      BY <2>3 DEF Provides
    <2> QED  BY <1>2, <2>1, <2>2, <2>4 DEF Kept, EveryVersion
  <1> QED  BY <1>1, <1>2

LEMMA SharedStep == Typed /\ LockInv /\ SharedInv /\ [Next]_vars => SharedInv'
  <1> SUFFICES ASSUME Typed, LockInv, SharedInv, [Next]_vars, ~unlinked'
               PROVE  Kept' /\ \A s \in Runs : SharedFits(pc[s], job[s])'
    BY WorthStep, TodosStep DEF SharedInv
  <1> DEFINE Quiet(r) ==
               \/ Start(r) \/ MakeRoot(r) \/ OpenLock(r) \/ TryLock(r) \/ GiveUp(r) \/ Unlock(r)
               \/ CheckEmpty(r) \/ RemoveLock(r) \/ RemoveRoot(r) \/ Leave(r) \/ Kill(r)
             Goal == Kept' /\ \A s \in Runs : SharedFits(pc[s], job[s])'
  <1>1. ASSUME ~unlinked
        PROVE  /\ Kept /\ \A s \in Runs : SharedFits(pc[s], job[s])
               /\ \A r \in Runs : pc[r] \in Planned \cup {"plan"} =>
                    \A s \in Runs \ {r} : pc[s] \notin Planned
    BY <1>1, Alone DEF SharedInv, Critical, Planned
  <1>2. Planned \subseteq Critical
    BY DEF Planned, Critical
  <1>3. ASSUME NEW r \in Runs, Quiet(r)
        PROVE  Goal
    <2>1. PICK p, n : p \in Places \ Planned /\ Moves(r, p, n)
      BY <1>3, QuietStep
    <2>2. /\ UNCHANGED <<disk, manifest, deleted, installed>>
          /\ unlinked' # unlinked => RemoveLock(r)
      BY <1>3, QuietStep
    <2>3. ~unlinked
      BY <2>2 DEF RemoveLock, Typed, TypeOK
    <2> QED  BY <1>1, <2>1, <2>2, <2>3, SharedQuiet
  <1>4. ASSUME NEW r \in Runs, Plan(r)
        PROVE  Goal
    <2>1. /\ pc[r] = "plan" /\ job[r] \in Jobs /\ job[r].version \in Versions
          /\ ~unlinked /\ UNCHANGED <<disk, manifest, deleted>>
          /\ installed' = IF job[r].cmd = "uninstall" THEN installed \ {job[r].target}
                          ELSE installed
      BY <1>4, PlanStep DEF root
    <2>2. ASSUME NEW n, Moves(r, "unlock", n)
          PROVE  Goal
      BY <1>1, <2>1, <2>2, SharedQuiet DEF Planned
    <2>3. ASSUME NEW p, NEW n, Planning(r, p, n)
          PROVE  Goal
      <3>1. Kept'
        BY <1>1, <2>1 DEF Kept, EveryVersion
      <3>2. /\ Moves(r, p, n) /\ p \in {"apply", "save"} /\ n.cmd = job[r].cmd
            /\ p = "save" <=> DOMAIN n.todo = {}
        BY <2>3 DEF Planning
      <3>3. /\ \/ /\ n.cmd = "install" /\ Provides(n)
                  /\ manifest # None =>
                       /\ manifest.targets \subseteq n.manifest.targets
                       /\ n.manifest.files = manifest.files /\ n.manifest.block = manifest.block
               \/ /\ n.cmd = "uninstall" /\ manifest # None
                  /\ manifest.targets \ {job[r].target} \subseteq n.manifest.targets
                  /\ DOMAIN n.todo # {} => manifest.targets \subseteq {job[r].target}
        BY <2>1, <2>3, PlanShares
      <3>4. installed # {} => manifest # None /\ installed \subseteq manifest.targets
                              /\ Worth(manifest)
        BY <1>1, <2>1 DEF Kept, SharedInv, RootWorth
      <3>5. SharedFits(p, n)'
        <4>1. CASE n.cmd = "install"
          <5>1. Provides(n)'
            BY <2>1, <3>3, <4>1 DEF Provides, EveryVersion
          <5>2. installed' = installed
            BY <2>1, <3>2, <4>1
          <5>3. installed # {} => Worth(n.manifest) /\ installed \subseteq n.manifest.targets
            BY <3>3, <3>4, <4>1 DEF Worth, Recorded
          <5> QED  BY <3>2, <4>1, <5>1, <5>2, <5>3 DEF SharedFits, Worth, Recorded, Shipped
        <4>2. CASE n.cmd = "uninstall"
          <5>1. installed' = installed \ {job[r].target}
            BY <2>1, <3>2, <4>2
          <5>2. installed' \subseteq n.manifest.targets
                /\ (DOMAIN n.todo # {} => installed' = {})
            BY <3>3, <3>4, <4>2, <5>1
          <5> QED  BY <3>2, <4>2, <5>2 DEF SharedFits
        <4> QED  BY <3>3, <4>1, <4>2
      <3> QED  BY <1>1, <2>1, <3>1, <3>2, <3>5, SharedAlone
    <2> QED  BY <1>4, <2>2, <2>3, PlanStep
  <1>5. ASSUME NEW r \in Runs, Apply(r)
        PROVE  Goal
    <2>1. PICK f, p, n : Applying(r, f, p, n)
      BY <1>5, ApplyStep
    <2>2. /\ pc[r] = "apply" /\ job[r] \in Jobs /\ job[r].version \in Versions
          /\ job[r].manifest \in Manifests /\ ~unlinked
          /\ UNCHANGED <<manifest, installed>>
      BY <1>5, ApplyStep
    <2>3. /\ Moves(r, p, n) /\ p \in {"apply", "save"} /\ n.cmd = job[r].cmd
          /\ n.manifest.targets = job[r].manifest.targets /\ Shipped(n) = Shipped(job[r])
          /\ DOMAIN n.todo \subseteq DOMAIN job[r].todo
      BY <2>1 DEF Applying, Shipped
    <2>4. SharedFits("apply", job[r]) /\ TodoFits(job[r])
      BY <1>1, <2>2 DEF SharedInv, TodosFit
    <2>5. /\ Worth(job[r].manifest) => Worth(n.manifest) \/ DOMAIN n.todo \cap Shipped(n) = {}
          /\ job[r].cmd = "install" =>
               /\ Provides(job[r]) => Provides(n)'
               /\ \A g \in Files \ deleted' : EveryVersion(g) =>
                    disk'[g] # None \/ (g \notin deleted /\ disk[g] = None)
      BY <2>1, <2>2, <2>4, ApplyShares
    <2>6. Kept'
      <3>1. installed # {} => job[r].cmd = "install"
        BY <2>4 DEF SharedFits
      <3>2. installed # {} => \A g \in Files \ deleted' : EveryVersion(g) => disk'[g] # None
        BY <1>1, <2>2, <2>5, <3>1 DEF Kept
      <3> QED  BY <1>1, <2>2, <3>2 DEF Kept, EveryVersion
    <2>7. SharedFits(p, n)'
      <3>1. installed # {} =>
              /\ n.cmd = "install"
              /\ Worth(n.manifest) \/ DOMAIN n.todo \cap Shipped(n) = {}
        BY <2>3, <2>4, <2>5 DEF SharedFits
      <3>2. n.cmd = "install" => Provides(n)'
        BY <2>3, <2>4, <2>5 DEF SharedFits, Planned
      <3>3. installed \subseteq n.manifest.targets
        BY <2>3, <2>4 DEF SharedFits
      <3> QED  BY <2>2, <3>1, <3>2, <3>3 DEF SharedFits, Worth, Recorded, Shipped
    <2>8. \A s \in Runs \ {r} : pc[s] \notin Planned
      BY <1>1, <2>2 DEF Planned
    <2> QED  BY <2>3, <2>6, <2>7, <2>8, SharedAlone
  <1>6. ASSUME NEW r \in Runs, Save(r)
        PROVE  Goal
    <2>1. /\ pc[r] = "save" /\ job[r] \in Jobs /\ job[r].manifest \in Manifests
          /\ manifest' = Saved(job[r].manifest) /\ ~unlinked /\ UNCHANGED <<disk, deleted>>
          /\ DOMAIN job[r].todo = {}
      BY <1>6, SaveStep
    <2>2. /\ SharedFits("save", job[r]) /\ Kept
          /\ \A s \in Runs \ {r} : pc[s] \notin Planned
      BY <1>1, <2>1 DEF Planned
    <2>3. /\ installed \subseteq job[r].manifest.targets
          /\ job[r].cmd = "install" => Provides(job[r])
      BY <2>2 DEF SharedFits, Planned
    <2>4. CASE Completes(r) /\ \E n : Moves(r, "unlock", n)
      <3>1. Kept'
        BY <2>1, <2>2, <2>3, <2>4, CompletesKeeps DEF Kept
      <3>2. \A n : SharedFits("unlock", n)'
        BY DEF SharedFits, Planned
      <3> QED  BY <2>2, <2>4, <3>1, <3>2, SharedAlone
    <2>5. CASE /\ installed' = IF manifest' = None THEN {} ELSE installed
               /\ Moves(r, "agents", job[r])
      <3>1. Kept'
        BY <2>1, <2>2, <2>3, <2>5 DEF Kept, EveryVersion, Saved
      <3>2. ASSUME NEW j, j = job[r]
            PROVE  SharedFits("agents", j)'
        BY <2>1, <2>3, <3>2 DEF SharedFits, Provides, EveryVersion
      <3> QED  BY <2>2, <2>5, <3>1, <3>2, SharedAlone
    <2> QED  BY <1>6, <2>4, <2>5, SaveStep
  <1>7. ASSUME NEW r \in Runs, WriteAgents(r)
        PROVE  Goal
    <2>1. /\ pc[r] = "agents" /\ UNCHANGED <<disk, deleted, manifest, installed>>
          /\ ~unlinked /\ Moves(r, "record", job[r])
      BY <1>7, WriteAgentsStep DEF root, history
    <2>2. /\ SharedFits("agents", job[r]) /\ Kept
          /\ \A s \in Runs \ {r} : pc[s] \notin Planned
      BY <1>1, <2>1 DEF Planned
    <2>3. Kept'
      BY <2>1, <2>2 DEF Kept, EveryVersion
    <2>4. ASSUME NEW j, j = job[r]
          PROVE  SharedFits("record", j)'
      BY <2>1, <2>2, <2>4 DEF SharedFits, Provides, EveryVersion, Planned
    <2> QED  BY <2>1, <2>2, <2>3, <2>4, SharedAlone
  <1>8. ASSUME NEW r \in Runs, Record(r)
        PROVE  Goal
    <2>1. /\ pc[r] = "record" /\ job[r] \in Jobs /\ DOMAIN job[r].todo = {}
          /\ UNCHANGED <<disk, deleted>> /\ ~unlinked
          /\ Completes(r) /\ \E n : Moves(r, "unlock", n)
      BY <1>8, RecordStep
    <2>2. /\ SharedFits("record", job[r]) /\ Kept
          /\ \A s \in Runs \ {r} : pc[s] \notin Planned
      BY <1>1, <2>1 DEF Planned
    <2>3. PICK m \in Manifests, w \in Manifests :
              /\ m = (IF manifest = None THEN EmptyManifest ELSE manifest)
              /\ w.targets = m.targets
              /\ manifest' = Saved(w)
      BY <1>8, RecordStep
    <2>4. /\ installed \subseteq w.targets
          /\ job[r].cmd = "install" => Provides(job[r])
      BY <2>2, <2>3 DEF SharedFits, Planned, Kept
    <2>5. Kept'
      BY <2>1, <2>2, <2>3, <2>4, CompletesKeeps DEF Kept
    <2>6. \A n : SharedFits("unlock", n)'
      BY DEF SharedFits, Planned
    <2> QED  BY <2>1, <2>2, <2>5, <2>6, SharedAlone
  <1>9. ASSUME NEW r \in Runs, ApplyFails(r) \/ WriteFails(r)
        PROVE  Goal
    <2>1. /\ pc[r] \in Planned /\ UNCHANGED <<disk, deleted, installed>> /\ ~unlinked
          /\ \E n : Moves(r, "unlock", n)
      BY <1>9, FailStep
    <2>2. Kept /\ \A s \in Runs \ {r} : pc[s] \notin Planned
      BY <1>1, <2>1
    <2>3. Kept'
      <3>1. CASE manifest' = manifest
        BY <2>1, <2>2, <3>1 DEF Kept, EveryVersion
      <3>2. CASE manifest' # manifest
        <4>1. /\ pc[r] = "apply" /\ manifest' = Saved(job[r].manifest)
              /\ job[r].manifest \in Manifests /\ job[r] \in Jobs
          BY <1>9, <3>2, FailStep
        <4>2. PICK f \in Files : IsNext(job[r], f)
          BY <1>9, <3>2, FailStep
        <4>3. SharedFits("apply", job[r]) /\ TodoFits(job[r])
          BY <1>1, <2>1, <4>1 DEF SharedInv, TodosFit
        <4>4. installed # {} => Worth(job[r].manifest)
          BY <4>2, <4>3 DEF SharedFits, TodoFits, IsNext, Worth, Recorded
        <4>5. installed # {} => manifest' = job[r].manifest
          BY <4>1, <4>4 DEF Saved, Worth
        <4>6. installed \subseteq job[r].manifest.targets
          BY <4>3 DEF SharedFits
        <4> QED  BY <2>1, <2>2, <4>1, <4>5, <4>6, NothingAssumption DEF Kept, EveryVersion
      <3> QED  BY <3>1, <3>2
    <2>4. \A n : SharedFits("unlock", n)'
      BY DEF SharedFits, Planned
    <2> QED  BY <2>1, <2>2, <2>3, <2>4, SharedAlone
  <1>10. ASSUME UNCHANGED <<pc, job, manifest, installed, unlinked>>,
                \A f \in Files \ deleted' : \/ f \notin deleted /\ (disk[f] # None => disk'[f] # None)
                                            \/ f \in deleted /\ disk'[f] # None
         PROVE  Goal
    <2>1. Kept'
      BY <1>1, <1>10 DEF Kept, EveryVersion
    <2>2. ASSUME NEW s \in Runs
          PROVE  SharedFits(pc[s], job[s])'
      <3>1. ASSUME NEW p2, NEW j2, p2 = pc[s], j2 = job[s]
            PROVE  SharedFits(p2, j2)'
        <4>1. SharedFits(p2, j2)
          BY <1>1, <1>10, <3>1
        <4>2. Provides(j2) => Provides(j2)'
          BY <1>10 DEF Provides, EveryVersion
        <4> QED  BY <1>10, <4>1, <4>2 DEF SharedFits, Worth, Recorded, Shipped
      <3> QED  BY <1>10, <3>1 DEF SharedFits, Provides, EveryVersion, Worth, Recorded, Shipped
    <2> QED  BY <2>1, <2>2
  <1>11. CASE (\E f \in Files : EditFile(f)) \/ EditAgents
    <2>1. \A f \in Files \ deleted' : \/ f \notin deleted /\ (disk[f] # None => disk'[f] # None)
                                      \/ f \in deleted /\ disk'[f] # None
      BY <1>11, UserStep
    <2> QED  BY <1>10, <1>11, <2>1, UserStep
  <1>12. CASE UNCHANGED vars
    BY <1>10, <1>12 DEF Goal, Kept, SharedInv, SharedFits, Provides, EveryVersion, Worth,
                        Recorded, Shipped, vars, root, history
  <1> QED  BY <1>3, <1>4, <1>5, <1>6, <1>7, <1>8, <1>9, <1>11, <1>12 DEF Next, Step

(* A root that several targets share keeps what an install completed: the target
   stays recorded and the files every version ships stay, whatever the other
   targets' installs and uninstalls, failed writes, kills and edits do, as long
   as the lock excludes (plan_uninstall_root, save_manifest, execute_root). *)
THEOREM SharedRootIsKept == Spec => []SharedRootKept
  <1>1. Init => SharedInv
    BY DEF Init, SharedInv, RootWorth, TodosFit, Kept, SharedFits, Planned
  <1>2. LockInv /\ [Next]_vars => LockInv'
    BY LockStep
  <1>3. SharedInv => SharedRootKept
    BY DEF SharedInv, Kept, SharedRootKept, EveryVersion
  <1> QED  BY <1>1, <1>2, <1>3, TypedInit, TypedStep, LockInitially, SharedStep, PTL DEF Spec

(* The root, AGENTS.md, the processes and what each has in hand have their types. *)
THEOREM InstallerTypes == Spec => []TypeOK
  <1>1. Typed => TypeOK
    BY DEF Typed
  <1> QED  BY <1>1, TypedInit, TypedStep, PTL DEF Spec

=============================================================================
