------------------------------- MODULE Skills -------------------------------
(***************************************************************************)
(* The skills installer (src/src/skills.rs): processes that install into   *)
(* and uninstall from one shared skills root (`.agents/skills`), the root's *)
(* manifest and lock file, the managed block of AGENTS.md next to it, the  *)
(* user who edits those files, failed writes and killed processes.         *)
(*                                                                         *)
(* A file's content is the version of the binary that wrote it, or User;   *)
(* its sha256 is the content itself.  Reading the root while a run plans   *)
(* is one step: the run then holds the root's lock.                        *)
(***************************************************************************)
EXTENDS Naturals, Sequences, FiniteSets

CONSTANTS
    Runs,         \* the processes that run `skills install` or `uninstall`
    Targets,      \* the targets that share the root
    AgentsMd,     \* the target that also manages the block of AGENTS.md
    Versions,     \* the versions of the binary
    FileOrder,    \* the relative paths of the skill files, in path order
    Ships,        \* [Versions -> SUBSET files]: what a version embeds
    User,         \* the content of a file the user wrote or edited
    Broken,       \* an AGENTS.md whose markers do not pair up
    None,         \* no file, no block, no manifest, no recorded hash
    Inodes,       \* identities of lock files
    MaxCommands,  \* bound: commands started
    MaxFaults     \* bound: edits by the user, failed writes and killed processes

Files == {FileOrder[i] : i \in 1 .. Len(FileOrder)}

ASSUME SkillsAssumption ==
    /\ AgentsMd \in Targets
    /\ Ships \in [Versions -> SUBSET Files]
    /\ None \notin Inodes
    /\ {User, Broken, None} \cap Versions = {} /\ User \notin {Broken, None}

VARIABLES
    dir,        \* does the root directory exist?
    lockfile,   \* the inode at the lock file's path, or None
    disk,       \* [Files -> content or None]: the skill files in the root
    manifest,   \* the manifest in the root, or None
    agents,     \* AGENTS.md: does it hold text of the user's, and its block
    pc,         \* [Runs -> what the process does next]
    ino,        \* [Runs -> the inode of the lock file it has open, or None]
    job,        \* [Runs -> its command and its plan, or None]
    commands, faults,   \* counters of the bounds
    \* history
    installed,  \* targets whose install completed and was recorded, unless the record
                \* became empty or their uninstall was planned since
    deleted,    \* files the user deleted
    raced,      \* files (or AgentsMd) the user changed while a run executed its plan
    unlinked,   \* was a lock file removed while another process had it open?
    cut         \* did a run end between a write and the manifest that records it?

root == <<dir, lockfile, disk, manifest>>
history == <<installed, deleted, raced, unlinked, cut>>
vars == <<root, agents, pc, ino, job, commands, faults, history>>

(* The pcs at which a process holds the lock on the inode it has open. *)
Critical == {"plan", "apply", "save", "agents", "record", "unlock"}
Places == Critical \cup {"idle", "mkdir", "open", "wait", "check", "rmlock", "rmdir", "leave"}

Manifests ==
    [targets : SUBSET Targets, files : [Files -> Versions \cup {None}],
     block : Versions \cup {None}, created : BOOLEAN]

ASSUME NothingAssumption == None \notin Manifests

EmptyManifest ==
    [targets |-> {}, files |-> [f \in Files |-> None], block |-> None, created |-> FALSE]

(* Two AGENTS.md states: absent is no text and no block.  `own` is text of the
   user's outside the block. *)
AgentsStates == [exists : BOOLEAN, own : BOOLEAN, block : Versions \cup {User, Broken, None}]

Init ==
    /\ dir = FALSE /\ lockfile = None /\ manifest = None
    /\ disk = [f \in Files |-> None]
    /\ agents \in {[exists |-> o, own |-> o, block |-> None] : o \in BOOLEAN}
    /\ pc = [r \in Runs |-> "idle"] /\ ino = [r \in Runs |-> None]
    /\ job = [r \in Runs |-> None]
    /\ commands = 0 /\ faults = 0
    /\ installed = {} /\ deleted = {} /\ raced = {} /\ unlinked = FALSE /\ cut = FALSE

-----------------------------------------------------------------------------
(* The lock of the root. *)

(* Does the root hold the lock file and nothing else? *)
NothingElse == manifest = None /\ \A f \in Files : disk[f] = None

(* A plan's operations: one for each file it is about. *)
NoOps == [f \in {} |-> None]

Goto(r, place) == pc' = [pc EXCEPT ![r] = place]

(* The plan is done with; what is left is to release the lock. *)
Release(r, planned) ==
    /\ Goto(r, "unlock")
    /\ job' = [job EXCEPT ![r] = [@ EXCEPT !.planned = planned, !.version = None, !.force = FALSE, !.todo = NoOps,
                                           !.manifest = None, !.agents = None]]

(* The process ends: the OS closes its files. *)
Ends(r) ==
    /\ Goto(r, "idle")
    /\ ino' = [ino EXCEPT ![r] = None]
    /\ job' = [job EXCEPT ![r] = None]

(* A command starts; `uninstall` leaves a root that is not a directory alone and
   looks at no version. *)
Start(r) ==
    /\ pc[r] = "idle" /\ commands < MaxCommands
    /\ \E t \in Targets, v \in Versions, c \in {"install", "uninstall"}, force \in BOOLEAN :
        /\ c = "uninstall" => dir /\ ~force /\ v = CHOOSE w \in Versions : TRUE
        /\ job' = [job EXCEPT ![r] = [cmd |-> c, target |-> t, version |-> v, force |-> force,
                                      made |-> FALSE, planned |-> FALSE, todo |-> NoOps,
                                      manifest |-> None, agents |-> None]]
    /\ Goto(r, "mkdir")
    /\ commands' = commands + 1
    /\ UNCHANGED <<root, agents, ino, faults, history>>

(* lock_root creates the missing directories and remembers them. *)
MakeRoot(r) ==
    /\ pc[r] = "mkdir"
    /\ dir' = TRUE
    /\ job' = [job EXCEPT ![r].made = ~dir]
    /\ Goto(r, "open")
    /\ UNCHANGED <<lockfile, disk, manifest, agents, ino, commands, faults, history>>

(* open_lock_file opens the lock file, creating it; a directory removed since
   then is an error, and the command ends. *)
OpenLock(r) ==
    /\ pc[r] = "open"
    /\ \/ /\ ~dir /\ Ends(r) /\ UNCHANGED lockfile
       \/ /\ dir /\ lockfile # None
          /\ ino' = [ino EXCEPT ![r] = lockfile]
          /\ Goto(r, "wait") /\ UNCHANGED <<lockfile, job>>
       \/ /\ dir /\ lockfile = None
          /\ \E i \in Inodes :
                /\ \A s \in Runs : ino[s] # i
                /\ lockfile' = i /\ ino' = [ino EXCEPT ![r] = i]
          /\ Goto(r, "wait") /\ UNCHANGED job
    /\ UNCHANGED <<dir, disk, manifest, agents, commands, faults, history>>

(* Mutant: the wait ends without the lock. *)
TryLockAnyway(r) ==
    /\ pc[r] = "wait"
    /\ Goto(r, "plan")
    /\ UNCHANGED <<root, agents, ino, job, commands, faults, history>>

Blocked(r) == \E s \in Runs \ {r} : ino[s] = ino[r] /\ pc[s] \in Critical

TryLock(r) ==
    /\ pc[r] = "wait" /\ ~Blocked(r)
    /\ Goto(r, "plan")
    /\ UNCHANGED <<root, agents, ino, job, commands, faults, history>>

(* LOCK_WAIT has passed and another process still holds the lock. *)
GiveUp(r) ==
    /\ pc[r] = "wait" /\ Blocked(r)
    /\ Ends(r)
    /\ UNCHANGED <<root, agents, commands, faults, history>>

(* RootLock::drop: unlock and close the file, and go on to remove it when this
   run uninstalled or created the directory. *)
Unlock(r) ==
    /\ pc[r] = "unlock"
    /\ ino' = [ino EXCEPT ![r] = None]
    /\ IF job[r].cmd = "uninstall" \/ job[r].made
       THEN Goto(r, "check") /\ UNCHANGED job
       ELSE Goto(r, "idle") /\ job' = [job EXCEPT ![r] = None]
    /\ UNCHANGED <<root, agents, commands, faults, history>>

(* The listing of the root: is the lock file alone in it? *)
CheckEmpty(r) ==
    /\ pc[r] = "check"
    /\ Goto(r, IF dir /\ lockfile # None /\ NothingElse THEN "rmlock" ELSE "leave")
    /\ UNCHANGED <<root, agents, ino, job, commands, faults, history>>

RemoveLock(r) ==
    /\ pc[r] = "rmlock"
    /\ lockfile' = None
    /\ unlinked' = (unlinked \/ (lockfile # None /\ \E s \in Runs : ino[s] = lockfile))
    /\ Goto(r, "rmdir")
    /\ UNCHANGED <<dir, disk, manifest, agents, ino, job, commands, faults, installed, deleted, raced, cut>>

(* remove_dir fails on a directory that is not empty. *)
DirLeft == dir /\ ~(lockfile = None /\ NothingElse)

RemoveRoot(r) ==
    /\ pc[r] = "rmdir"
    /\ dir' = DirLeft
    /\ Goto(r, "leave")
    /\ UNCHANGED <<lockfile, disk, manifest, agents, ino, job, commands, faults, history>>

(* The last remove_dir of an uninstall that was not refused; the command ends. *)
Leave(r) ==
    /\ pc[r] = "leave"
    /\ dir' = IF job[r].cmd = "uninstall" /\ job[r].planned THEN DirLeft ELSE dir
    /\ Ends(r)
    /\ UNCHANGED <<lockfile, disk, manifest, agents, commands, faults, history>>

-----------------------------------------------------------------------------
(* Planning. *)

(* Mutant: a recorded file is taken for unedited. *)
InstallOpTrusting(j, f, recorded) ==
    [act |-> IF disk[f] = j.version THEN "none" ELSE "write", entry |-> "set"]

(* decide: what install does with one file the binary ships. *)
InstallOp(j, f, recorded) ==
    LET current == disk[f]
        op(act, entry) == [act |-> act, entry |-> entry]
    IN  IF current = None THEN op("write", "set")
        ELSE IF current = j.version THEN op("none", "set")
        ELSE IF j.force \/ recorded = current THEN op("write", "set")
        ELSE op("none", "keep")

(* plan_removal: remove a recorded file unless it was edited. *)
RemovalOp(f, recorded) ==
    [act   |-> IF disk[f] = recorded THEN "remove" ELSE "none",
     entry |-> IF disk[f] \in {None, recorded} THEN "drop" ELSE "keep"]

Recorded(m) == {f \in Files : m.files[f] # None}

(* plan_install_root: the files this version ships, and the recorded ones it no
   longer ships. *)
InstallPlan(j) ==
    LET m == IF manifest = None THEN EmptyManifest ELSE manifest
    IN  [manifest |-> [m EXCEPT !.targets = @ \cup {j.target}],
         todo |-> [f \in Ships[j.version] \cup Recorded(m) |->
                     IF f \in Ships[j.version] THEN InstallOp(j, f, m.files[f])
                     ELSE RemovalOp(f, m.files[f])]]

(* Mutant: the files go with the first target. *)
UninstallPlanEager(j) ==
    [manifest |-> [manifest EXCEPT !.targets = @ \ {j.target}],
     todo |-> [f \in Recorded(manifest) |-> RemovalOp(f, manifest.files[f])]]

(* plan_uninstall_root: the files go with the last target. *)
UninstallPlan(j) ==
    LET left == manifest.targets \ {j.target}
    IN  [manifest |-> [manifest EXCEPT !.targets = left],
         todo |-> IF left # {} THEN NoOps
                  ELSE [f \in Recorded(manifest) |-> RemovalOp(f, manifest.files[f])]]

(* plan_install_agents_md and plan_uninstall_agents_md: the new AGENTS.md, the
   block hash to record (None clears it) and whether this run creates the file;
   None when nothing is to be written or recorded. *)
AgentsInstall(j, recorded) ==
    LET ours == agents.block = None \/ agents.block = j.version
                \/ j.force \/ agents.block = recorded
    IN  IF ~ours THEN None
        ELSE [to |-> [exists |-> TRUE, own |-> agents.own, block |-> j.version],
              record |-> j.version, created |-> ~agents.exists]

AgentsUninstall(recorded, created) ==
    IF ~agents.exists \/ agents.block = None \/ agents.block # recorded THEN None
    ELSE [to |-> [exists |-> agents.own \/ ~created, own |-> agents.own, block |-> None],
          record |-> None, created |-> FALSE]

AgentsPlan(j, m) ==
    IF j.target # AgentsMd THEN None
    ELSE IF j.cmd = "install" THEN AgentsInstall(j, m.block)
    ELSE AgentsUninstall(m.block, m.created)

(* Validate and plan everything before the first write.  A bad AGENTS.md refuses
   the whole command; an uninstall without a manifest has nothing to do. *)
Plan(r) ==
    /\ pc[r] = "plan"
    /\ LET j == job[r]
           refused == j.target = AgentsMd /\ agents.block = Broken
           nothing == j.cmd = "uninstall" /\ manifest = None
           plan == IF j.cmd = "install" THEN InstallPlan(j) ELSE UninstallPlan(j)
       IN  IF refused \/ nothing
           THEN Release(r, ~refused)
           ELSE /\ job' = [job EXCEPT ![r] =
                              [@ EXCEPT !.todo = plan.todo,
                                        !.manifest = plan.manifest,
                                        !.agents = AgentsPlan(j, plan.manifest)]]
                /\ Goto(r, IF DOMAIN plan.todo = {} THEN "save" ELSE "apply")
    /\ installed' = IF job[r].cmd = "uninstall" THEN installed \ {job[r].target} ELSE installed
    /\ UNCHANGED <<root, agents, ino, commands, faults, deleted, raced, unlinked, cut>>

-----------------------------------------------------------------------------
(* Executing the plan. *)

(* save_manifest: a manifest that records nothing is removed. *)
Saved(m) == IF Recorded(m) = {} /\ m.block = None THEN None ELSE m

WriteManifest(m) ==
    /\ manifest' = Saved(m)
    /\ dir' = (dir \/ Saved(m) # None)

(* The operations are done in this order: install's files before those that are
   no longer shipped, and by path. *)
Shipped(j) == IF j.cmd = "install" THEN Ships[j.version] ELSE {}
Index(f) == CHOOSE i \in 1 .. Len(FileOrder) : FileOrder[i] = f

Before(j, f, g) ==
    \/ f \in Shipped(j) /\ g \notin Shipped(j)
    \/ (f \in Shipped(j) <=> g \in Shipped(j)) /\ Index(f) < Index(g)

IsNext(j, f) == f \in DOMAIN j.todo /\ \A g \in DOMAIN j.todo \ {f} : Before(j, f, g)

(* One operation of execute_root: the file, then the manifest in memory. *)
Apply(r) ==
    /\ pc[r] = "apply"
    /\ \E f \in Files :
        LET j == job[r]
            op == j.todo[f]
            left == [g \in DOMAIN j.todo \ {f} |-> j.todo[g]]
            entry == CASE op.entry = "set"  -> j.version
                       [] op.entry = "drop" -> None
                       [] op.entry = "keep" -> j.manifest.files[f]
        IN  /\ IsNext(j, f)
            /\ op.act = "remove" => disk[f] # None
            /\ disk' = CASE op.act = "write"  -> [disk EXCEPT ![f] = j.version]
                         [] op.act = "remove" -> [disk EXCEPT ![f] = None]
                         [] op.act = "none"   -> disk
            /\ dir' = (dir \/ op.act = "write")
            /\ job' = [job EXCEPT ![r] = [@ EXCEPT !.todo = left, !.manifest.files[f] = entry]]
            /\ deleted' = IF op.act = "write" THEN deleted \ {f} ELSE deleted
            /\ Goto(r, IF DOMAIN left = {} THEN "save" ELSE "apply")
    /\ UNCHANGED <<lockfile, manifest, agents, ino, commands, faults, installed, raced, unlinked, cut>>

(* Mutant: what was done before the failure is not saved. *)
ApplyFailsUnsaved(r) ==
    /\ faults < MaxFaults /\ faults' = faults + 1
    /\ pc[r] = "apply" /\ \E f \in Files : IsNext(job[r], f) /\ job[r].todo[f].act # "none"
    /\ Release(r, TRUE)
    /\ UNCHANGED <<root, agents, ino, commands, installed, deleted, raced, unlinked, cut>>

(* A write or a removal that fails (a removal of a file that is gone always
   does): the manifest is saved for what was done so far, which may fail too. *)
ApplyFails(r) ==
    /\ faults < MaxFaults /\ faults' = faults + 1
    /\ pc[r] = "apply" /\ \E f \in Files : IsNext(job[r], f) /\ job[r].todo[f].act # "none"
    /\ \/ WriteManifest(job[r].manifest) /\ UNCHANGED cut
       \/ cut' = TRUE /\ UNCHANGED <<manifest, dir>>
    /\ Release(r, TRUE)
    /\ UNCHANGED <<lockfile, disk, agents, ino, commands, installed, deleted, raced, unlinked>>

Completes(r) ==
    installed' = IF manifest' = None THEN {}
                 ELSE IF job[r].cmd = "install" /\ job[r].target \in manifest'.targets
                 THEN installed \cup {job[r].target} ELSE installed

(* The manifest of the root is written last. *)
Save(r) ==
    /\ pc[r] = "save"
    /\ WriteManifest(job[r].manifest)
    /\ IF job[r].agents = None
       THEN Completes(r) /\ Release(r, TRUE)
       ELSE /\ Goto(r, "agents") /\ UNCHANGED job
            /\ installed' = IF manifest' = None THEN {} ELSE installed
    /\ UNCHANGED <<lockfile, disk, agents, ino, commands, faults, deleted, raced, unlinked, cut>>

(* execute_agents_md: AGENTS.md first, then its block in a manifest read again. *)
WriteAgents(r) ==
    /\ pc[r] = "agents"
    /\ agents' = job[r].agents.to
    /\ Goto(r, "record")
    /\ UNCHANGED <<root, ino, job, commands, faults, history>>

Record(r) ==
    /\ pc[r] = "record"
    /\ LET m == IF manifest = None THEN EmptyManifest ELSE manifest
           plan == job[r].agents
       IN  WriteManifest([m EXCEPT !.block = plan.record,
                                   !.created = plan.record # None /\ (plan.created \/ @)])
    /\ Completes(r)
    /\ Release(r, TRUE)
    /\ UNCHANGED <<lockfile, disk, agents, ino, commands, faults, deleted, raced, unlinked, cut>>

(* Another write fails: the command stops where it is. *)
WriteFails(r) ==
    /\ faults < MaxFaults /\ faults' = faults + 1
    /\ pc[r] \in {"save", "agents", "record"}
    /\ cut' = TRUE
    /\ Release(r, TRUE)
    /\ UNCHANGED <<root, agents, ino, commands, installed, deleted, raced, unlinked>>

(* The process is killed: the OS releases its lock. *)
Kill(r) ==
    /\ faults < MaxFaults /\ faults' = faults + 1
    /\ pc[r] # "idle"
    /\ Ends(r)
    /\ cut' = (cut \/ pc[r] \in {"apply", "save", "agents", "record"})
    /\ UNCHANGED <<root, agents, commands, installed, deleted, raced, unlinked>>

-----------------------------------------------------------------------------
(* The user, who takes no lock. *)

Executing == \E r \in Runs : pc[r] \in {"apply", "save", "agents", "record"}
Raced(x) == raced' = IF Executing THEN raced \cup {x} ELSE raced

EditFile(f) ==
    /\ faults < MaxFaults /\ faults' = faults + 1
    /\ dir
    /\ \/ disk' = [disk EXCEPT ![f] = User] /\ deleted' = deleted \ {f}
       \/ disk[f] # None /\ disk' = [disk EXCEPT ![f] = None] /\ deleted' = deleted \cup {f}
    /\ Raced(f)
    /\ UNCHANGED <<dir, lockfile, manifest, agents, pc, ino, job, commands,
                   installed, unlinked, cut>>

EditAgents ==
    /\ faults < MaxFaults /\ faults' = faults + 1
    /\ agents' \in {[exists |-> FALSE, own |-> FALSE, block |-> None],
                    [exists |-> TRUE, own |-> TRUE, block |-> agents.block],
                    [exists |-> TRUE, own |-> agents.own, block |-> Broken],
                    [exists |-> TRUE, own |-> agents.own, block |-> None]}
                   \cup (IF agents.block = None THEN {}
                         ELSE {[agents EXCEPT !.block = User]})
    /\ agents' # agents
    /\ Raced(AgentsMd)
    /\ UNCHANGED <<root, pc, ino, job, commands, installed, deleted, unlinked, cut>>

Step(r) ==
    \/ MakeRoot(r) \/ OpenLock(r) \/ TryLock(r) \/ GiveUp(r)
    \/ Plan(r) \/ Apply(r) \/ ApplyFails(r) \/ Save(r) \/ WriteAgents(r) \/ Record(r)
    \/ WriteFails(r) \/ Unlock(r) \/ CheckEmpty(r) \/ RemoveLock(r) \/ RemoveRoot(r) \/ Leave(r)

Next ==
    \/ \E r \in Runs : Start(r) \/ Step(r) \/ Kill(r)
    \/ \E f \in Files : EditFile(f)
    \/ EditAgents

Spec == Init /\ [][Next]_vars

-----------------------------------------------------------------------------
(* Type invariant: the root, AGENTS.md, the lock file's inode and the processes'
   program counters have the values the installer's types allow. *)
TypeOK ==
    /\ dir \in BOOLEAN /\ lockfile \in Inodes \cup {None}
    /\ disk \in [Files -> Versions \cup {User, None}]
    /\ manifest = None \/ manifest \in Manifests
    /\ agents \in AgentsStates
    /\ pc \in [Runs -> Places]
    /\ ino \in [Runs -> Inodes \cup {None}]
    /\ installed \subseteq Targets /\ deleted \subseteq Files
    /\ unlinked \in BOOLEAN /\ cut \in BOOLEAN

(* At most one process is between taking the root's lock and releasing it, as
   the module comment of skills.rs promises ("under a per-root lock file"). *)
OneWriter == \A r, s \in Runs : pc[r] \in Critical /\ pc[s] \in Critical => r = s

(* What the lock does give: processes exclude each other as long as no lock file
   was removed while another process had it open. *)
LockExcludes == ~unlinked => OneWriter

(* A root shared by several targets keeps its files until the last of them is
   uninstalled: a target whose install completed stays recorded, and the files
   every version ships stay, whatever the other targets' commands, failures and
   kills do.  Needs the lock. *)
SharedRootKept ==
    ~unlinked /\ installed # {} =>
        /\ manifest # None /\ installed \subseteq manifest.targets
        /\ \A f \in Files \ deleted : (\A v \in Versions : f \in Ships[v]) => disk[f] # None

(* A file that install wrote is recognised as its own afterwards: it is in the
   manifest, or the run that wrote it is still to save it.  Holds unless a run
   was cut between the write and the manifest. *)
OwnFilesRecognised ==
    ~unlinked /\ ~cut =>
        \A f \in Files : disk[f] \in Versions =>
            \/ manifest # None /\ manifest.files[f] = disk[f]
            \/ \E r \in Runs : pc[r] \in {"apply", "save"} /\ job[r].manifest.files[f] = disk[f]

(* What the user wrote, in a skill file or in AGENTS.md, is changed only by the
   user, by a forced install, or by a run that was already executing its plan
   when the user wrote it. *)
Overwrites(r, x) == (pc[r] \in {"apply", "agents"} /\ job[r].force) \/ x \in raced
EditsKept ==
    [][<<pc, job>>' # <<pc, job>> =>
        /\ \A f \in Files : disk[f] = User /\ disk'[f] # User => \E r \in Runs : Overwrites(r, f)
        /\ agents.own => agents'.own \/ AgentsMd \in raced
        /\ agents.block = User /\ agents'.block # User => \E r \in Runs : Overwrites(r, AgentsMd)]_vars

=============================================================================
