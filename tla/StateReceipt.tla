---------------------------- MODULE StateReceipt ----------------------------
(***************************************************************************)
(* The state receipt (src/src/plan_store.rs): a sidecar file that names    *)
(* the plans of the database, by which a process that opens the store      *)
(* notices that the database was emptied or replaced while nothing ran.    *)
(*                                                                         *)
(* A database transaction is atomic and durable.  The receipt is not part  *)
(* of it: it is read before, and rewritten after, in steps of their own,   *)
(* between which other processes run and a process may crash.  Two calls   *)
(* that one server answers at a time interleave like two processes: the    *)
(* connection is given back before the receipt is rewritten.               *)
(***************************************************************************)
EXTENDS Integers, FiniteSets

CONSTANTS
  Proc,           (* processes that share the database file                *)
  Plan,           (* plan ids, each created at most once                   *)
  NoPlan,         (* the write in progress creates no plan                 *)
  Modes,          (* the settings of CPM_PLANNER_STATE_MODE in use         *)
  RefreshFails    (* writing the receipt may fail (full disk, permissions) *)

ASSUME StateReceiptAssumption ==
  /\ Modes \subseteq {"normal", "initialize", "recover"}
  /\ NoPlan \notin Plan
  /\ RefreshFails \in BOOLEAN

VARIABLES
  file,           (* the database file: absent, empty (0 bytes), or store  *)
  plans,          (* plans committed in it                                 *)
  unswept,        (* those of them with an expired lease                   *)
  receipt,        (* plan ids the receipt names; {} too when there is none *)
  pc,             (* where each process is                                 *)
  mode,           (* the mode it was started in                            *)
  prior,          (* the receipt it read when it opened the store          *)
  snapshot,       (* the plan ids it is about to write to the receipt      *)
  pending,        (* the plan whose submission it has not answered yet     *)
  refusal,        (* why its last start was refused, or none               *)
  acked,          (* plans whose submission was answered                   *)
  lost            (* plans that something else removed from the database   *)

db == <<file, plans, unswept>>
proc == <<mode, prior, snapshot, pending, refusal>>
vars == <<db, receipt, pc, proc, acked, lost>>

Opening == {"connect", "read", "migrate", "sweep", "compare"}

Opened == {"collect", "install", "serve", "recollect", "reinstall"}

TypeOK ==
  /\ file \in {"absent", "empty", "store"}
  /\ plans \subseteq Plan
  /\ unswept \subseteq plans
  /\ receipt \subseteq Plan
  /\ pc \in [Proc -> Opening \cup Opened \cup {"down"}]
  /\ mode \in [Proc -> {"normal", "initialize", "recover"}]
  /\ prior \in [Proc -> SUBSET Plan]
  /\ snapshot \in [Proc -> SUBSET Plan]
  /\ pending \in [Proc -> Plan \cup {NoPlan}]
  /\ refusal \in [Proc -> {"none", "empty", "loss"}]
  /\ acked \subseteq Plan
  /\ lost \subseteq Plan
  /\ file # "store" => plans = {}
  /\ plans \cap lost = {}

(* There is no database yet, or one from before there were receipts. *)
Init ==
  /\ \/ file = "absent" /\ plans = {}
     \/ file = "store" /\ plans \in SUBSET Plan
  /\ unswept = {} /\ receipt = {} /\ acked = {} /\ lost = {}
  /\ pc = [p \in Proc |-> "down"]
  /\ mode = [p \in Proc |-> "normal"]
  /\ prior = [p \in Proc |-> {}]
  /\ snapshot = [p \in Proc |-> {}]
  /\ pending = [p \in Proc |-> NoPlan]
  /\ refusal = [p \in Proc |-> "none"]

At(p, here, next) == pc[p] = here /\ pc' = [pc EXCEPT ![p] = next]

-----------------------------------------------------------------------------
(* Opening the store: open_with_report *)

(* An existing empty file is refused in normal mode. *)
Start(p, m) ==
  /\ pc[p] = "down"
  /\ IF file = "empty" /\ m = "normal"
     THEN /\ refusal' = [refusal EXCEPT ![p] = "empty"]
          /\ UNCHANGED <<pc, mode>>
     ELSE /\ At(p, "down", "connect")
          /\ refusal' = [refusal EXCEPT ![p] = "none"]
          /\ mode' = [mode EXCEPT ![p] = m]
  /\ UNCHANGED <<db, receipt, prior, snapshot, pending, acked, lost>>

(* Connection::open creates the file, empty, when there is none. *)
Connect(p) ==
  /\ At(p, "connect", "read")
  /\ file' = IF file = "absent" THEN "empty" ELSE file
  /\ UNCHANGED <<plans, unswept, receipt, proc, acked, lost>>

ReadReceipt(p) ==
  /\ At(p, "read", "migrate")
  /\ prior' = [prior EXCEPT ![p] = receipt]
  /\ UNCHANGED <<db, receipt, mode, snapshot, pending, refusal, acked, lost>>

(* init: the journal mode and the migrations write the schema. *)
Migrate(p) ==
  /\ At(p, "migrate", "sweep")
  /\ file' = "store"
  /\ UNCHANGED <<plans, unswept, receipt, proc, acked, lost>>

(* init: quarantine_expired, whatever the comparison will say. *)
Sweep(p) ==
  /\ At(p, "sweep", "compare")
  /\ unswept' = {}
  /\ UNCHANGED <<file, plans, receipt, proc, acked, lost>>

Missing(p) == prior[p] \ plans

(* Mutant of CompareReceipt: initialize mode accepts any loss. *)
CompareInNormalModeOnly(p) ==
  /\ IF Missing(p) # {} /\ mode[p] = "normal"
     THEN /\ At(p, "compare", "down")
          /\ refusal' = [refusal EXCEPT ![p] = "loss"]
     ELSE /\ At(p, "compare", "collect")
          /\ UNCHANGED refusal
  /\ acked' = IF mode[p] = "recover" THEN acked \ Missing(p) ELSE acked
  /\ UNCHANGED <<db, receipt, mode, prior, snapshot, pending, lost>>

(* Plans the receipt knows and the database does not are refused, except   *)
(* in recover mode, by which the operator accepts that they are gone.      *)
CompareReceipt(p) ==
  /\ IF Missing(p) # {} /\ mode[p] # "recover"
     THEN /\ At(p, "compare", "down")
          /\ refusal' = [refusal EXCEPT ![p] = "loss"]
     ELSE /\ At(p, "compare", "collect")
          /\ UNCHANGED refusal
  /\ acked' = IF mode[p] = "recover" THEN acked \ Missing(p) ELSE acked
  /\ UNCHANGED <<db, receipt, mode, prior, snapshot, pending, lost>>

-----------------------------------------------------------------------------
(* refresh_receipt, at the end of an open and of every write *)

CollectPlanIds(p) ==
  /\ At(p, "collect", "install") \/ At(p, "recollect", "reinstall")
  /\ snapshot' = [snapshot EXCEPT ![p] = plans]
  /\ UNCHANGED <<db, receipt, mode, prior, pending, refusal, acked, lost>>

(* The temporary file is renamed over the receipt, and the call returns.   *)
InstallReceipt(p) ==
  /\ At(p, "install", "serve") \/ At(p, "reinstall", "serve")
  /\ receipt' = snapshot[p]
  /\ acked' = acked \cup ({pending[p]} \ {NoPlan})
  /\ pending' = [pending EXCEPT ![p] = NoPlan]
  /\ UNCHANGED <<db, mode, prior, snapshot, refusal, lost>>

(* The receipt cannot be written.  An open fails; a call returns an error  *)
(* although it has committed, and its caller does not learn the plan id.   *)
FailRefresh(p) ==
  /\ RefreshFails
  /\ At(p, "install", "down") \/ At(p, "reinstall", "serve")
  /\ pending' = [pending EXCEPT ![p] = NoPlan]
  /\ UNCHANGED <<db, receipt, mode, prior, snapshot, refusal, acked, lost>>

-----------------------------------------------------------------------------
(* Serving *)

(* Mutant of Submit: the receipt is written inside the transaction, which  *)
(* a crash then rolls back.                                                *)
SubmitReceiptFirst(p, x) ==
  /\ At(p, "serve", "down")
  /\ x \notin plans \cup lost
  /\ receipt' = plans \cup {x}
  /\ UNCHANGED <<db, proc, acked, lost>>

(* submit_or_get of a new graph: commit, then refresh, then answer. *)
Submit(p, x) ==
  /\ At(p, "serve", "recollect")
  /\ x \notin plans \cup lost
  /\ plans' = plans \cup {x}
  /\ pending' = [pending EXCEPT ![p] = x]
  /\ UNCHANGED <<file, unswept, receipt, mode, prior, snapshot, refusal,
                 acked, lost>>

(* submit_or_get of a known graph answers without refreshing. *)
SubmitAgain(p, x) ==
  /\ pc[p] = "serve"
  /\ x \in plans
  /\ acked' = acked \cup {x}
  /\ UNCHANGED <<db, receipt, pc, proc, lost>>

(* Any other write, such as a lease that will expire. *)
Write(p, x) ==
  /\ At(p, "serve", "recollect")
  /\ x \in plans
  /\ \/ unswept' = unswept \cup {x}
     \/ UNCHANGED unswept
  /\ UNCHANGED <<file, plans, receipt, proc, acked, lost>>

(* A process stops at any point: a call in progress is never answered.     *)
Crash(p) ==
  /\ pc[p] # "down"
  /\ pc' = [pc EXCEPT ![p] = "down"]
  /\ pending' = [pending EXCEPT ![p] = NoPlan]
  /\ UNCHANGED <<db, receipt, mode, prior, snapshot, refusal, acked, lost>>

(***************************************************************************)
(* The environment, while no process runs: the file is deleted, truncated, *)
(* or replaced by an older copy that lacks some plans.  Once is the bound. *)
(***************************************************************************)
Lose(S) ==
  /\ \A p \in Proc : pc[p] = "down"
  /\ lost = {}
  /\ S # {} /\ S \subseteq plans
  /\ lost' = S
  /\ plans' = plans \ S
  /\ unswept' = unswept \ S
  /\ \/ UNCHANGED file
     \/ S = plans /\ file' \in {"absent", "empty"}
  /\ UNCHANGED <<receipt, pc, proc, acked>>

-----------------------------------------------------------------------------
ProcStep(p) ==
  \/ \E m \in Modes : Start(p, m)
  \/ Connect(p) \/ ReadReceipt(p) \/ Migrate(p) \/ Sweep(p)
  \/ CompareReceipt(p)
  \/ CollectPlanIds(p) \/ InstallReceipt(p) \/ FailRefresh(p)
  \/ \E x \in Plan : Submit(p, x) \/ SubmitAgain(p, x) \/ Write(p, x)
  \/ Crash(p)

Next == (\E p \in Proc : ProcStep(p)) \/ \E S \in SUBSET Plan : Lose(S)

Spec == Init /\ [][Next]_vars

-----------------------------------------------------------------------------
(* A start is refused for a loss only when there was one: whatever other   *)
(* processes commit while it compares, and wherever they crash, the        *)
(* receipt names no plan that was never committed (refresh_receipt after   *)
(* the commit; open_with_report reads the receipt before the plan ids).    *)
NoFalseLoss ==
  \A p \in Proc : refusal[p] = "loss" => prior[p] \cap lost # {}

Recovers(p) == mode[p] = "recover" /\ pc[p] = "install" /\ pc'[p] = "serve"

(* A lost plan that the receipt names stays in it, and keeps refusing      *)
(* starts, until a start in recover mode accepts the loss.                 *)
LossStaysKnown ==
  [][receipt \cap lost \subseteq receipt' \/ \E p \in Proc : Recovers(p)]_vars

(* No process opens the store while a plan whose submission was answered   *)
(* is lost and no operator has accepted it: "opening refuses an existing   *)
(* empty database or missing previously known plans" (CHANGELOG.md).       *)
LossIsRefused ==
  acked \cap lost # {} => \A p \in Proc : pc[p] \notin Opened

-----------------------------------------------------------------------------
(* What the documentation says and the code does not keep. *)

(* README.md on CPM_PLANNER_STATE_MODE: when the receipt detects missing   *)
(* known plans, "startup refuses to mutate it".                            *)
RefusedUnmutated ==
  [][\A p \in Proc :
       /\ pc[p] \in {"migrate", "sweep", "compare"} /\ pc'[p] # pc[p]
       /\ file = "store" /\ mode[p] = "normal" /\ Missing(p) # {}
       => UNCHANGED db]_vars

(* CHANGELOG.md: an open refuses "missing previously known plans unless an *)
(* explicit initialization/recovery mode acknowledges it", so a plan the   *)
(* receipt has named is not forgotten by any other write of the receipt.   *)
KnownStaysKnown ==
  [][receipt \subseteq receipt' \/ \E p \in Proc : Recovers(p)]_vars

=============================================================================
