-------------------------- MODULE StateReceiptProofs --------------------------
(***************************************************************************)
(* Theorems about StateReceipt, for any number of processes and plans.     *)
(*                                                                         *)
(* A start is refused for a loss only when plans were lost.  The inductive *)
(* invariant traces every set of plan ids that is on its way into the      *)
(* receipt, or out of it into a comparison, back to committed plans: it    *)
(* names only plans that are in the database or were lost from it.  No     *)
(* step takes a plan out of plans and lost together, so this survives      *)
(* every interleaving and every crash.                                     *)
(***************************************************************************)
EXTENDS StateReceipt, TLAPS

Known == plans \cup lost

(* What the receipt and its copies name was committed. *)
NamesCommitted ==
  /\ receipt \subseteq Known
  /\ \A p \in Proc : prior[p] \subseteq Known /\ snapshot[p] \subseteq Known

(* A process that is starting or serving has not been refused. *)
RefusedIsDown == \A p \in Proc : pc[p] # "down" => refusal[p] = "none"

(* Whoever has migrated the store has a store. *)
StoreExists ==
  \A p \in Proc : pc[p] \in {"sweep", "compare"} \cup Opened => file = "store"

ReceiptInv ==
  TypeOK /\ StoreExists /\ NamesCommitted /\ RefusedIsDown /\ NoFalseLoss

(* The parts of the state that only grow. *)
LEMMA KnownGrows ==
  ASSUME TypeOK, [Next]_vars
  PROVE  Known \subseteq Known'
<1> USE DEF Known, db, proc
<1>1. CASE UNCHANGED vars
  BY <1>1 DEF vars
<1>2. ASSUME NEW p \in Proc, ProcStep(p)
      PROVE  Known \subseteq Known'
  BY <1>2 DEF ProcStep, Start, Connect, ReadReceipt, Migrate, Sweep,
     CompareReceipt, CollectPlanIds, InstallReceipt, FailRefresh, Submit,
     SubmitAgain, Write, Crash
<1>3. ASSUME NEW S \in SUBSET Plan, Lose(S)
      PROVE  Known \subseteq Known'
  BY <1>3 DEF Lose
<1> QED  BY <1>1, <1>2, <1>3 DEF Next

LEMMA InitInv == Init => ReceiptInv
BY DEF Init, ReceiptInv, TypeOK, StoreExists, NamesCommitted, RefusedIsDown, NoFalseLoss,
   Opening, Opened

(* Every action keeps the types. *)
LEMMA TypeStep ==
  ASSUME TypeOK, StoreExists, [Next]_vars
  PROVE  TypeOK'
<1> USE StateReceiptAssumption DEF TypeOK, StoreExists, Opening, Opened, db, proc, At
<1>1. CASE UNCHANGED vars
  BY <1>1 DEF vars
<1>2. ASSUME NEW p \in Proc, ProcStep(p)
      PROVE  TypeOK'
  <2>1. ASSUME NEW m \in Modes, Start(p, m)
        PROVE  TypeOK'
    BY <2>1 DEF Start
  <2>2. ASSUME Connect(p)
        PROVE  TypeOK'
    BY <2>2 DEF Connect
  <2>3. ASSUME ReadReceipt(p)
        PROVE  TypeOK'
    BY <2>3 DEF ReadReceipt
  <2>4. ASSUME Migrate(p)
        PROVE  TypeOK'
    BY <2>4 DEF Migrate
  <2>5. ASSUME Sweep(p)
        PROVE  TypeOK'
    BY <2>5 DEF Sweep
  <2>6. ASSUME CompareReceipt(p)
        PROVE  TypeOK'
    BY <2>6 DEF CompareReceipt, Missing
  <2>7. ASSUME CollectPlanIds(p)
        PROVE  TypeOK'
    BY <2>7 DEF CollectPlanIds
  <2>8. ASSUME InstallReceipt(p)
        PROVE  TypeOK'
    BY <2>8 DEF InstallReceipt
  <2>9. ASSUME FailRefresh(p)
        PROVE  TypeOK'
    BY <2>9 DEF FailRefresh
  <2>10. ASSUME NEW x \in Plan, Submit(p, x)
        PROVE  TypeOK'
    BY <2>10 DEF Submit
  <2>11. ASSUME NEW x \in Plan, SubmitAgain(p, x)
        PROVE  TypeOK'
    BY <2>11 DEF SubmitAgain
  <2>12. ASSUME NEW x \in Plan, Write(p, x)
        PROVE  TypeOK'
    BY <2>12 DEF Write
  <2>13. ASSUME Crash(p)
        PROVE  TypeOK'
    BY <2>13 DEF Crash
  <2> QED
    BY <1>2, <2>1, <2>2, <2>3, <2>4, <2>5, <2>6, <2>7,
       <2>8, <2>9, <2>10, <2>11, <2>12, <2>13 DEF ProcStep
<1>3. ASSUME NEW S \in SUBSET Plan, Lose(S)
      PROVE  TypeOK'
  BY <1>3 DEF Lose
<1> QED  BY <1>1, <1>2, <1>3 DEF Next

(* The store stays while any process has it open. *)
LEMMA StoreStep ==
  ASSUME TypeOK, StoreExists, [Next]_vars
  PROVE  StoreExists'
<1> USE DEF TypeOK, StoreExists, Opening, Opened, db, proc, At
<1>1. CASE UNCHANGED vars
  BY <1>1 DEF vars
<1>2. ASSUME NEW p \in Proc, ProcStep(p)
      PROVE  StoreExists'
  <2>1. ASSUME NEW m \in Modes, Start(p, m)
        PROVE  StoreExists'
    BY <2>1 DEF Start
  <2>2. ASSUME Connect(p)
        PROVE  StoreExists'
    BY <2>2 DEF Connect
  <2>3. ASSUME ReadReceipt(p)
        PROVE  StoreExists'
    BY <2>3 DEF ReadReceipt
  <2>4. ASSUME Migrate(p)
        PROVE  StoreExists'
    BY <2>4 DEF Migrate
  <2>5. ASSUME Sweep(p)
        PROVE  StoreExists'
    BY <2>5 DEF Sweep
  <2>6. ASSUME CompareReceipt(p)
        PROVE  StoreExists'
    BY <2>6 DEF CompareReceipt
  <2>7. ASSUME CollectPlanIds(p)
        PROVE  StoreExists'
    BY <2>7 DEF CollectPlanIds
  <2>8. ASSUME InstallReceipt(p)
        PROVE  StoreExists'
    BY <2>8 DEF InstallReceipt
  <2>9. ASSUME FailRefresh(p)
        PROVE  StoreExists'
    BY <2>9 DEF FailRefresh
  <2>10. ASSUME NEW x \in Plan, Submit(p, x)
        PROVE  StoreExists'
    BY <2>10 DEF Submit
  <2>11. ASSUME NEW x \in Plan, SubmitAgain(p, x)
        PROVE  StoreExists'
    BY <2>11 DEF SubmitAgain
  <2>12. ASSUME NEW x \in Plan, Write(p, x)
        PROVE  StoreExists'
    BY <2>12 DEF Write
  <2>13. ASSUME Crash(p)
        PROVE  StoreExists'
    BY <2>13 DEF Crash
  <2> QED
    BY <1>2, <2>1, <2>2, <2>3, <2>4, <2>5, <2>6, <2>7,
       <2>8, <2>9, <2>10, <2>11, <2>12, <2>13 DEF ProcStep
<1>3. ASSUME NEW S \in SUBSET Plan, Lose(S)
      PROVE  StoreExists'
  BY <1>3 DEF Lose
<1> QED  BY <1>1, <1>2, <1>3 DEF Next

(* The receipt and its copies pass on names of committed plans only. *)
LEMMA NamesStep ==
  ASSUME TypeOK, NamesCommitted, [Next]_vars
  PROVE  NamesCommitted'
<1> USE KnownGrows DEF TypeOK, NamesCommitted, db, proc
<1>1. CASE UNCHANGED vars
  BY <1>1 DEF vars
<1>2. ASSUME NEW p \in Proc, ProcStep(p)
      PROVE  NamesCommitted'
  <2>1. ASSUME NEW m \in Modes, Start(p, m)
        PROVE  NamesCommitted'
    BY <2>1 DEF Start
  <2>2. ASSUME Connect(p)
        PROVE  NamesCommitted'
    BY <2>2 DEF Connect
  <2>3. ASSUME ReadReceipt(p)
        PROVE  NamesCommitted'
    BY <2>3 DEF ReadReceipt
  <2>4. ASSUME Migrate(p)
        PROVE  NamesCommitted'
    BY <2>4 DEF Migrate
  <2>5. ASSUME Sweep(p)
        PROVE  NamesCommitted'
    BY <2>5 DEF Sweep
  <2>6. ASSUME CompareReceipt(p)
        PROVE  NamesCommitted'
    BY <2>6 DEF CompareReceipt
  <2>7. ASSUME CollectPlanIds(p)
        PROVE  NamesCommitted'
    BY <2>7 DEF CollectPlanIds, Known
  <2>8. ASSUME InstallReceipt(p)
        PROVE  NamesCommitted'
    BY <2>8 DEF InstallReceipt
  <2>9. ASSUME FailRefresh(p)
        PROVE  NamesCommitted'
    BY <2>9 DEF FailRefresh
  <2>10. ASSUME NEW x \in Plan, Submit(p, x)
        PROVE  NamesCommitted'
    BY <2>10 DEF Submit
  <2>11. ASSUME NEW x \in Plan, SubmitAgain(p, x)
        PROVE  NamesCommitted'
    BY <2>11 DEF SubmitAgain
  <2>12. ASSUME NEW x \in Plan, Write(p, x)
        PROVE  NamesCommitted'
    BY <2>12 DEF Write
  <2>13. ASSUME Crash(p)
        PROVE  NamesCommitted'
    BY <2>13 DEF Crash
  <2> QED
    BY <1>2, <2>1, <2>2, <2>3, <2>4, <2>5, <2>6, <2>7,
       <2>8, <2>9, <2>10, <2>11, <2>12, <2>13 DEF ProcStep
<1>3. ASSUME NEW S \in SUBSET Plan, Lose(S)
      PROVE  NamesCommitted'
  BY <1>3 DEF Lose
<1> QED  BY <1>1, <1>2, <1>3 DEF Next

(* Only a stopped process carries a refusal, and a refusal for a loss     *)
(* names a lost plan.                                                      *)
LEMMA RefusalStep ==
  ASSUME ReceiptInv, [Next]_vars
  PROVE  (RefusedIsDown /\ NoFalseLoss)'
<1> USE DEF ReceiptInv, TypeOK, NamesCommitted, RefusedIsDown, NoFalseLoss,
           Known, Opening, Opened, db, proc, At
<1>1. CASE UNCHANGED vars
  BY <1>1 DEF vars
<1>2. ASSUME NEW p \in Proc, ProcStep(p)
      PROVE  (RefusedIsDown /\ NoFalseLoss)'
  <2>1. ASSUME NEW m \in Modes, Start(p, m)
        PROVE  (RefusedIsDown /\ NoFalseLoss)'
    BY <2>1 DEF Start
  <2>2. ASSUME Connect(p)
        PROVE  (RefusedIsDown /\ NoFalseLoss)'
    BY <2>2 DEF Connect
  <2>3. ASSUME ReadReceipt(p)
        PROVE  (RefusedIsDown /\ NoFalseLoss)'
    BY <2>3 DEF ReadReceipt
  <2>4. ASSUME Migrate(p)
        PROVE  (RefusedIsDown /\ NoFalseLoss)'
    BY <2>4 DEF Migrate
  <2>5. ASSUME Sweep(p)
        PROVE  (RefusedIsDown /\ NoFalseLoss)'
    BY <2>5 DEF Sweep
  <2>6. ASSUME CompareReceipt(p)
        PROVE  (RefusedIsDown /\ NoFalseLoss)'
    BY <2>6 DEF CompareReceipt, Missing
  <2>7. ASSUME CollectPlanIds(p)
        PROVE  (RefusedIsDown /\ NoFalseLoss)'
    BY <2>7 DEF CollectPlanIds
  <2>8. ASSUME InstallReceipt(p)
        PROVE  (RefusedIsDown /\ NoFalseLoss)'
    BY <2>8 DEF InstallReceipt
  <2>9. ASSUME FailRefresh(p)
        PROVE  (RefusedIsDown /\ NoFalseLoss)'
    BY <2>9 DEF FailRefresh
  <2>10. ASSUME NEW x \in Plan, Submit(p, x)
        PROVE  (RefusedIsDown /\ NoFalseLoss)'
    BY <2>10 DEF Submit
  <2>11. ASSUME NEW x \in Plan, SubmitAgain(p, x)
        PROVE  (RefusedIsDown /\ NoFalseLoss)'
    BY <2>11 DEF SubmitAgain
  <2>12. ASSUME NEW x \in Plan, Write(p, x)
        PROVE  (RefusedIsDown /\ NoFalseLoss)'
    BY <2>12 DEF Write
  <2>13. ASSUME Crash(p)
        PROVE  (RefusedIsDown /\ NoFalseLoss)'
    BY <2>13 DEF Crash
  <2> QED
    BY <1>2, <2>1, <2>2, <2>3, <2>4, <2>5, <2>6, <2>7,
       <2>8, <2>9, <2>10, <2>11, <2>12, <2>13 DEF ProcStep
<1>3. ASSUME NEW S \in SUBSET Plan, Lose(S)
      PROVE  (RefusedIsDown /\ NoFalseLoss)'
  BY <1>3 DEF Lose
<1> QED  BY <1>1, <1>2, <1>3 DEF Next

LEMMA StepInv == ReceiptInv /\ [Next]_vars => ReceiptInv'
BY TypeStep, StoreStep, NamesStep, RefusalStep DEF ReceiptInv

(* No start is refused for a loss unless plans it knew were lost, however  *)
(* many processes open, commit, rewrite the receipt and crash.             *)
THEOREM NoFalseAlarm == Spec => []NoFalseLoss
<1>1. ReceiptInv => NoFalseLoss
  BY DEF ReceiptInv
<1> QED  BY <1>1, InitInv, StepInv, PTL DEF Spec

(* The types of StateReceipt are preserved. *)
THEOREM ReceiptTypeCorrect == Spec => []TypeOK
<1>1. ReceiptInv => TypeOK
  BY DEF ReceiptInv
<1> QED  BY <1>1, InitInv, StepInv, PTL DEF Spec

-----------------------------------------------------------------------------
(* One call at a time, by one process, with a receipt that can be written: *)
(* what StateReceipt needs to notice the loss of every plan it answered    *)
(* for.  Either half of the assumption is needed (README.md, Findings).    *)
Solo ==
  /\ \A p, q \in Proc : p = q
  /\ ~ RefreshFails

(* The receipt a start compares with is the current one; a call answers    *)
(* only when the receipt names everything the database holds.              *)
InStep(p) ==
  /\ pc[p] \in {"migrate", "sweep", "compare"} => prior[p] = receipt
  /\ pc[p] \in {"install", "reinstall"} => snapshot[p] = plans
  /\ pc[p] = "serve" => plans \subseteq receipt
  /\ pending[p] # NoPlan =>
       pc[p] \in {"recollect", "reinstall"} /\ pending[p] \in plans

(* Every answered plan is named by the receipt, and is in the database     *)
(* unless it was lost and no process has opened the store since.           *)
SoloInv ==
  /\ acked \subseteq receipt
  /\ acked \subseteq Known
  /\ \A p \in Proc : InStep(p)
  /\ LossIsRefused

LEMMA SoloInit == Init => SoloInv
BY DEF Init, SoloInv, Known, InStep, LossIsRefused

LEMMA SoloNext ==
  ASSUME Solo, TypeOK, SoloInv, [Next]_vars
  PROVE  SoloInv'
<1> USE StateReceiptAssumption DEF Solo, TypeOK, SoloInv, Known, InStep,
       LossIsRefused, Opening, Opened, db, proc, At
<1>1. CASE UNCHANGED vars
  BY <1>1 DEF vars
<1>2. ASSUME NEW p \in Proc, ProcStep(p)
      PROVE  SoloInv'
  <2>1. ASSUME NEW m \in Modes, Start(p, m)
        PROVE  SoloInv'
    BY <2>1 DEF Start
  <2>2. ASSUME Connect(p)
        PROVE  SoloInv'
    BY <2>2 DEF Connect
  <2>3. ASSUME ReadReceipt(p)
        PROVE  SoloInv'
    BY <2>3 DEF ReadReceipt
  <2>4. ASSUME Migrate(p)
        PROVE  SoloInv'
    BY <2>4 DEF Migrate
  <2>5. ASSUME Sweep(p)
        PROVE  SoloInv'
    BY <2>5 DEF Sweep
  <2>6. ASSUME CompareReceipt(p)
        PROVE  SoloInv'
    BY <2>6 DEF CompareReceipt, Missing
  <2>7. ASSUME CollectPlanIds(p)
        PROVE  SoloInv'
    BY <2>7 DEF CollectPlanIds
  <2>8. ASSUME InstallReceipt(p)
        PROVE  SoloInv'
    BY <2>8 DEF InstallReceipt
  <2>9. ASSUME FailRefresh(p)
        PROVE  SoloInv'
    BY <2>9 DEF FailRefresh
  <2>10. ASSUME NEW x \in Plan, Submit(p, x)
        PROVE  SoloInv'
    BY <2>10 DEF Submit
  <2>11. ASSUME NEW x \in Plan, SubmitAgain(p, x)
        PROVE  SoloInv'
    BY <2>11 DEF SubmitAgain
  <2>12. ASSUME NEW x \in Plan, Write(p, x)
        PROVE  SoloInv'
    BY <2>12 DEF Write
  <2>13. ASSUME Crash(p)
        PROVE  SoloInv'
    BY <2>13 DEF Crash
  <2> QED
    BY <1>2, <2>1, <2>2, <2>3, <2>4, <2>5, <2>6, <2>7,
       <2>8, <2>9, <2>10, <2>11, <2>12, <2>13 DEF ProcStep
<1>3. ASSUME NEW S \in SUBSET Plan, Lose(S)
      PROVE  SoloInv'
  BY <1>3 DEF Lose
<1> QED  BY <1>1, <1>2, <1>3 DEF Next

(* One process whose receipt can be written never opens the store while a  *)
(* plan whose submission it answered is lost and unacknowledged, wherever  *)
(* it crashes and in whatever modes it is restarted.                       *)
THEOREM SoloLossRefused ==
  ASSUME Solo
  PROVE  Spec => []LossIsRefused
<1>1. ReceiptInv /\ SoloInv /\ [Next]_vars => (ReceiptInv /\ SoloInv)'
  BY StepInv, SoloNext DEF ReceiptInv
<1>2. SoloInv => LossIsRefused
  BY DEF SoloInv
<1> QED  BY <1>1, <1>2, InitInv, SoloInit, PTL DEF Spec

-----------------------------------------------------------------------------
(* A loss that the receipt still names *)

(* From the moment of the loss every process is a new one.  Whoever has    *)
(* come past the comparison in another mode than recover found nothing     *)
(* that is lost in the receipt, or it was taken out since, which happens   *)
(* once and for good; and nobody can write a lost plan back, since plan    *)
(* ids are collected from the database.                                    *)
Heeds(p) ==
  /\ pc[p] \in {"migrate", "sweep", "compare"} => receipt \cap lost \subseteq prior[p]
  /\ pc[p] \in {"collect", "install"} => mode[p] = "recover" \/ receipt \cap lost = {}
  /\ pc[p] \in {"install", "reinstall"} => snapshot[p] \cap lost = {}
  /\ pc[p] \in {"serve", "recollect", "reinstall"} => receipt \cap lost = {}

LossHeeded == \A p \in Proc : Heeds(p)

Remembered == receipt \cap lost \subseteq receipt' \/ \E p \in Proc : Recovers(p)

LEMMA HeedStep ==
  ASSUME TypeOK, LossHeeded, [Next]_vars
  PROVE  LossHeeded' /\ Remembered
<1> USE StateReceiptAssumption DEF TypeOK, LossHeeded, Heeds, Remembered, db, proc, At
<1>1. CASE UNCHANGED vars
  BY <1>1 DEF vars
<1>2. ASSUME NEW p \in Proc, ProcStep(p)
      PROVE  LossHeeded' /\ Remembered
  <2>1. ASSUME NEW m \in Modes, Start(p, m)
        PROVE  LossHeeded' /\ Remembered
    BY <2>1 DEF Start
  <2>2. ASSUME Connect(p)
        PROVE  LossHeeded' /\ Remembered
    BY <2>2 DEF Connect
  <2>3. ASSUME ReadReceipt(p)
        PROVE  LossHeeded' /\ Remembered
    BY <2>3 DEF ReadReceipt
  <2>4. ASSUME Migrate(p)
        PROVE  LossHeeded' /\ Remembered
    BY <2>4 DEF Migrate
  <2>5. ASSUME Sweep(p)
        PROVE  LossHeeded' /\ Remembered
    BY <2>5 DEF Sweep
  <2>6. ASSUME CompareReceipt(p)
        PROVE  LossHeeded' /\ Remembered
    BY <2>6 DEF CompareReceipt, Missing
  <2>7. ASSUME CollectPlanIds(p)
        PROVE  LossHeeded' /\ Remembered
    BY <2>7 DEF CollectPlanIds
  <2>8. ASSUME InstallReceipt(p)
        PROVE  LossHeeded' /\ Remembered
    BY <2>8 DEF InstallReceipt, Recovers
  <2>9. ASSUME FailRefresh(p)
        PROVE  LossHeeded' /\ Remembered
    BY <2>9 DEF FailRefresh
  <2>10. ASSUME NEW x \in Plan, Submit(p, x)
        PROVE  LossHeeded' /\ Remembered
    BY <2>10 DEF Submit
  <2>11. ASSUME NEW x \in Plan, SubmitAgain(p, x)
        PROVE  LossHeeded' /\ Remembered
    BY <2>11 DEF SubmitAgain
  <2>12. ASSUME NEW x \in Plan, Write(p, x)
        PROVE  LossHeeded' /\ Remembered
    BY <2>12 DEF Write
  <2>13. ASSUME Crash(p)
        PROVE  LossHeeded' /\ Remembered
    BY <2>13 DEF Crash
  <2> QED
    BY <1>2, <2>1, <2>2, <2>3, <2>4, <2>5, <2>6, <2>7,
       <2>8, <2>9, <2>10, <2>11, <2>12, <2>13 DEF ProcStep
<1>3. ASSUME NEW S \in SUBSET Plan, Lose(S)
      PROVE  LossHeeded' /\ Remembered
  BY <1>3 DEF Lose
<1> QED  BY <1>1, <1>2, <1>3 DEF Next

(* A lost plan that the receipt names stays in it, and so keeps refusing   *)
(* starts, until a start in recover mode accepts the loss: no other        *)
(* process, however long it has been running and whatever it was about to  *)
(* write, takes it out.                                                    *)
THEOREM LossIsRemembered == Spec => LossStaysKnown
<1>1. Init => LossHeeded
  BY DEF Init, LossHeeded, Heeds
<1>2. TypeOK /\ LossHeeded /\ [Next]_vars => LossHeeded' /\ [Remembered]_vars
  BY HeedStep
<1> QED  BY <1>1, <1>2, ReceiptTypeCorrect, PTL DEF Spec, LossStaysKnown, Remembered

=============================================================================
