-------------------------- MODULE NsDeploy_proofs --------------------------
(***************************************************************************)
(* Theorems about NsDeploy, for every descriptor and every bound.          *)
(***************************************************************************)
EXTENDS NsDeploy, TLAPS

-----------------------------------------------------------------------------
(* Types                                                                    *)

LEMMA InitTypes == Init => TypeOK
<1> SUFFICES ASSUME Init PROVE TypeOK
  OBVIOUS
<1>1. nsr \in NsrType
  BY DEF Init, NsrType
<1>2. NoVca \in [Vca -> VcaType]
  BY DEF NoVca, VcaType, Statuses
<1>3. kdu \in [Kdu -> KduType]
  BY DEF Init, KduType
<1>4. ops \in [OpNum -> OpType]
  BY DEF Init, OpType
<1>5. main \in MainType
  BY DEF Init, Idle, MainType, MainPcs
<1>6. copy \in CopyType
  BY <1>2 DEF Init, NoCopy, CopyType
<1>7. /\ vt \in [OpNum -> [Vca -> Pcs]] /\ kt \in [OpNum -> [Kdu -> Pcs]]
      /\ rt \in [OpNum -> Pcs] /\ dt \in [OpNum -> Pcs]
  BY DEF Init, Pcs
<1>8. creq \in CreqType
  BY SizeAssumption DEF Init, CreqType
<1>9. vnfr \in VnfrType
  BY DEF Init, VnfrType
<1>10. cur \in 0..MaxOps /\ faults \in 0..MaxFaults
  BY SizeAssumption, BudgetAssumption DEF Init
<1> QED
  BY <1>1, <1>2, <1>3, <1>4, <1>5, <1>6, <1>7, <1>8, <1>9, <1>10
     DEF Init, TypeOK

\* Every call that fails counts.
LEMMA FaultTypes == ASSUME TypeOK, Fault PROVE faults' \in 0..MaxFaults
BY BudgetAssumption DEF TypeOK, Fault

\* The main coroutine moves on.
LEMMA MainMoves ==
    ASSUME TypeOK, NEW pc \in MainPcs, NEW exc \in BOOLEAN, NEW todo \in SUBSET Kdu
    PROVE  /\ [main EXCEPT !.pc = pc] \in MainType
           /\ [main EXCEPT !.pc = pc, !.exc = exc] \in MainType
           /\ [main EXCEPT !.todo = todo] \in MainType
           /\ [pc |-> pc, exc |-> exc, todo |-> todo] \in MainType
           /\ Idle \in MainType
BY DEF TypeOK, MainType, Idle, MainPcs

\* Tasks.
LEMMA TaskMoves ==
    ASSUME TypeOK, NEW n \in OpNum, NEW pc \in Pcs
    PROVE  /\ \A v \in Vca : [vt EXCEPT ![n][v] = pc] \in [OpNum -> [Vca -> Pcs]]
           /\ \A k \in Kdu : [kt EXCEPT ![n][k] = pc] \in [OpNum -> [Kdu -> Pcs]]
           /\ [rt EXCEPT ![n] = pc] \in [OpNum -> Pcs]
           /\ [dt EXCEPT ![n] = pc] \in [OpNum -> Pcs]
BY DEF TypeOK

LEMMA NoCopyType == NoCopy \in CopyType
BY DEF NoCopy, NoVca, CopyType, VcaType, Statuses

\* An operation begins while none runs.
LEMMA NextNumber ==
    ASSUME TypeOK, Another
    PROVE  cur + 1 \in OpNum /\ cur + 1 \in 0..MaxOps
BY SizeAssumption DEF TypeOK, Another, OpNum

LEMMA OutcomeType ==
    ASSUME TypeOK, NEW failed \in BOOLEAN
    PROVE  Outcome(failed) \in [OpNum -> OpType]
<1> DEFINE state == IF failed THEN "FAILED" ELSE "COMPLETED"
<1>1. \A n \in OpNum : [ops[n] EXCEPT !.state = state] \in OpType
  BY DEF TypeOK, OpType
<1> QED
  BY <1>1 DEF Outcome, TypeOK

\* An operation that runs, or that is cancelled, has a number.
Numbered ==
    /\ main.pc # "idle" => cur \in OpNum
    /\ creq.state # "none" => creq.op \in OpNum

LEMMA WaitedType ==
    ASSUME TypeOK, Waited, cur \in OpNum PROVE late' \subseteq OpNum
BY DEF Waited, TypeOK

LEMMA LaunchVcasTypes ==
    ASSUME TypeOK, LaunchVcas, cur \in OpNum
    PROVE  vca' \in [Vca -> VcaType] /\ vt' \in [OpNum -> [Vca -> Pcs]]
<1>1. \A v \in Vca :
        [vca[v] EXCEPT !.known = TRUE, !.status = IF Type(v) = "native"
                                         THEN @ ELSE "CREATING"] \in VcaType
  BY DEF TypeOK, VcaType, Statuses
<1>2. {"boot", "create"} \subseteq Pcs
  BY DEF Pcs
<1>3. [v \in Vca |-> IF Type(v) = "native" THEN "boot" ELSE "create"]
        \in [Vca -> Pcs]
  BY <1>2
<1> QED
  BY <1>1, <1>3 DEF LaunchVcas, TypeOK

LEMMA LaunchRestTypes ==
    ASSUME TypeOK, LaunchRest, cur \in OpNum
    PROVE  /\ kt' \in [OpNum -> [Kdu -> Pcs]] /\ rt' \in [OpNum -> Pcs]
           /\ main' \in MainType
<1>1. {"work", "off"} \subseteq Pcs /\ "wait" \in MainPcs
  BY DEF Pcs, MainPcs
<1>2. main' \in MainType
  BY <1>1, MainMoves DEF LaunchRest
<1> QED
  BY <1>1, <1>2 DEF LaunchRest, TypeOK

\* What both starts do alike.
LEMMA NewOperation ==
    ASSUME TypeOK, Another, NEW kind \in {"instantiate", "terminate"}
    PROVE  [ops EXCEPT ![cur + 1] = [kind |-> kind, state |-> "PROCESSING"]]
               \in [OpNum -> OpType]
BY DEF TypeOK, OpType

LEMMA StartInstantiateTypes ==
    ASSUME TypeOK, Numbered, StartInstantiate
    PROVE  TypeOK' /\ Numbered'
<1>0. Another /\ cur' = cur + 1
  BY DEF StartInstantiate
<1>1. cur' \in OpNum /\ cur' \in 0..MaxOps
  BY <1>0, NextNumber
<1>2. nsr' \in NsrType
  BY DEF StartInstantiate, TypeOK, NsrType
<1>3. ops' \in [OpNum -> OpType]
  BY <1>0, NewOperation DEF StartInstantiate
<1>4. main' \in MainType
  BY DEF StartInstantiate, MainType, MainPcs
<1>5. copy' \in CopyType
  BY DEF StartInstantiate, TypeOK, CopyType
<1>6. kdu' \in [Kdu -> KduType]
  BY DEF StartInstantiate, TypeOK, KduType
<1>7. creq' = creq
  BY DEF StartInstantiate
<1>8. Numbered'
  BY <1>1, <1>7 DEF Numbered
<1> QED
  BY <1>1, <1>2, <1>3, <1>4, <1>5, <1>6, <1>8
     DEF StartInstantiate, TypeOK, extVars, taskVars

LEMMA StartTerminateTypes ==
    ASSUME TypeOK, Numbered, StartTerminate
    PROVE  TypeOK' /\ Numbered'
<1>0. Another /\ cur' = cur + 1
  BY DEF StartTerminate
<1>1. cur' \in OpNum /\ cur' \in 0..MaxOps
  BY <1>0, NextNumber
<1>2. nsr' \in NsrType
  BY DEF StartTerminate, TypeOK, NsrType
<1>3. ops' \in [OpNum -> OpType]
  BY <1>0, NewOperation DEF StartTerminate
<1>4. main' \in MainType
  BY DEF StartTerminate, MainType, MainPcs
<1>5. copy' \in CopyType
  BY DEF StartTerminate, TypeOK, CopyType
<1>6. vt' \in [OpNum -> [Vca -> Pcs]]
  <2>1. \A v \in Vca : DestroyStart(v) \in Pcs /\ "off" \in Pcs
    BY DEF DestroyStart, AfterPrimitives, Pcs, Ended
  <2>2. [v \in Vca |-> IF vca[v].ee THEN DestroyStart(v) ELSE "off"] \in [Vca -> Pcs]
    BY <2>1
  <2> HIDE DEF DestroyStart
  <2> QED
    BY <2>2 DEF StartTerminate, TypeOK
<1>7. creq' = creq
  BY DEF StartTerminate
<1>8. Numbered'
  BY <1>1, <1>7 DEF Numbered
<1> QED
  BY <1>1, <1>2, <1>3, <1>4, <1>5, <1>6, <1>8 DEF StartTerminate, TypeOK, extVars

LEMMA MainTypes ==
    ASSUME TypeOK, Numbered, MainStep
    PROVE  TypeOK' /\ Numbered'
<1> USE DEF Numbered
<1>1. CASE StartInstantiate \/ StartTerminate
  BY <1>1, StartInstantiateTypes, StartTerminateTypes
<1>2. {"work", "off"} \subseteq Pcs /\ {"wait", "certs", "spaces"} \subseteq MainPcs
  BY DEF Pcs, MainPcs
<1>3. ASSUME NEW k \in Kdu, DeployKdu(k) PROVE TypeOK' /\ Numbered'
  <2>1. kdu' \in [Kdu -> KduType]
    BY <1>3 DEF DeployKdu, TypeOK, KduType
  <2>2. main' \in MainType /\ main'.pc = main.pc
    BY <1>3 DEF DeployKdu, TypeOK, MainType
  <2>3. kt' \in [OpNum -> [Kdu -> Pcs]]
    BY <1>2, <1>3, TaskMoves DEF DeployKdu, Running
  <2> QED
    BY <1>3, <2>1, <2>2, <2>3 DEF DeployKdu, TypeOK, extVars
<1>4. CASE PreparationFails
  <2>1. main' \in MainType
    BY <1>2, <1>4, MainMoves DEF PreparationFails
  <2> QED
    BY <1>4, <2>1, FaultTypes
       DEF PreparationFails, Running, TypeOK, recVars, extVars, taskVars
<1>5. CASE LaunchRo
  <2>0. cur \in OpNum
    BY <1>5 DEF LaunchRo, Running
  <2>1. main' \in MainType
    BY <1>2, <1>5, MainMoves DEF LaunchRo
  <2>3. rt' \in [OpNum -> Pcs]
    BY <1>2, <1>5, <2>0, TaskMoves DEF LaunchRo
  <2>2. vca' \in [Vca -> VcaType] /\ vt' \in [OpNum -> [Vca -> Pcs]]
    BY <1>5, <2>0, LaunchVcasTypes DEF LaunchRo, TypeOK
  <2> QED
    BY <1>5, <2>0, <2>1, <2>2, <2>3 DEF LaunchRo, TypeOK
<1>6. CASE LaunchHelm
  <2>0. cur \in OpNum
    BY <1>6 DEF LaunchHelm, Running
  <2>1. main' \in MainType
    BY <1>2, <1>6, MainMoves DEF LaunchHelm
  <2>2. vca' \in [Vca -> VcaType] /\ vt' \in [OpNum -> [Vca -> Pcs]]
    BY <1>6, <2>0, LaunchVcasTypes DEF LaunchHelm
  <2> QED
    BY <1>6, <2>0, <2>1, <2>2 DEF LaunchHelm, TypeOK, extVars
<1>7. CASE FinishInstantiate \/ FinishTerminate
  <2>0. cur \in OpNum
    BY <1>7 DEF FinishInstantiate, FinishTerminate, Running
  <2>1. main' \in MainType /\ copy' \in CopyType /\ main'.pc = "idle"
    <3>1. main' = Idle /\ copy' = NoCopy
      BY <1>7 DEF FinishInstantiate, FinishTerminate
    <3>2. Idle \in MainType /\ Idle.pc = "idle"
      BY DEF Idle, MainType, MainPcs
    <3> QED
      BY <3>1, <3>2, NoCopyType
  <2>2. ops' \in [OpNum -> OpType]
    BY <1>7, OutcomeType DEF FinishInstantiate, FinishTerminate
  <2>3. nsr' \in NsrType
    BY <1>7 DEF FinishInstantiate, FinishTerminate, TypeOK, NsrType
  <2>4. late' \subseteq OpNum
    BY <1>7, <2>0, WaitedType DEF FinishInstantiate, FinishTerminate, TerminateWaited
  <2> QED
    BY <1>7, <2>1, <2>2, <2>3, <2>4
       DEF FinishInstantiate, FinishTerminate, TypeOK, extVars, taskVars
<1>8. CASE DeleteAll
  <2>0. cur \in OpNum
    BY <1>8 DEF DeleteAll, Running
  <2>1. main' \in MainType
    BY <1>2, <1>8, <2>0, MainMoves, LaunchRestTypes DEF DeleteAll
  <2>2. kt' \in [OpNum -> [Kdu -> Pcs]] /\ rt' \in [OpNum -> Pcs]
    BY <1>8, <2>0, LaunchRestTypes DEF DeleteAll, TypeOK
  <2>3. dt' \in [OpNum -> Pcs]
    BY <1>2, <1>8, <2>0, TaskMoves DEF DeleteAll, TypeOK
  <2>4. vca' \in [Vca -> VcaType]
    <3>1. \A v \in Vca : [vca[v] EXCEPT !.status = "TERMINATING"] \in VcaType
      BY DEF TypeOK, VcaType, Statuses
    <3> QED
      BY <1>8, <3>1 DEF DeleteAll, LaunchRest, TypeOK
  <2> QED
    BY <1>8, <2>0, <2>1, <2>2, <2>3, <2>4 DEF DeleteAll, TypeOK, extVars
<1>9. CASE DeleteSpaces
  <2>0. cur \in OpNum
    BY <1>9 DEF DeleteSpaces, Running
  <2> QED
    BY <1>9, <2>0, LaunchRestTypes DEF DeleteSpaces, TypeOK, recVars
<1>10. CASE SpacesFail
  <2>1. main' \in MainType
    BY <1>2, <1>10, MainMoves DEF SpacesFail
  <2> QED
    BY <1>10, <2>1, FaultTypes
       DEF SpacesFail, Running, TypeOK, recVars, extVars, taskVars
<1> QED
  BY <1>1, <1>3, <1>4, <1>5, <1>6, <1>7, <1>8, <1>9, <1>10 DEF MainStep
-----------------------------------------------------------------------------
(* The tasks                                                                *)

\* A new status, or flag, of an environment.
LEMMA VcaStatus ==
    ASSUME TypeOK, NEW v \in Vca, NEW status \in Statuses, NEW b \in BOOLEAN
    PROVE  /\ [vca EXCEPT ![v].status = status] \in [Vca -> VcaType]
           /\ [vca EXCEPT ![v].ee = TRUE, ![v].status = status,
                          ![v].sw = @ \/ b] \in [Vca -> VcaType]
<1>1. vca[v] \in VcaType
  BY DEF TypeOK
<1>2. /\ [vca[v] EXCEPT !.status = status] \in VcaType
      /\ [vca[v] EXCEPT !.ee = TRUE, !.status = status, !.sw = @ \/ b] \in VcaType
  BY <1>1 DEF VcaType
<1> QED
  BY <1>2 DEF TypeOK

LEMMA VcaFlag ==
    ASSUME TypeOK, NEW v \in Vca, NEW b \in BOOLEAN
    PROVE  /\ [vca EXCEPT ![v].sw = b] \in [Vca -> VcaType]
           /\ [vca EXCEPT ![v].needed = b] \in [Vca -> VcaType]
           /\ [vca EXCEPT ![v].needed = @ \/ b] \in [Vca -> VcaType]
<1>1. vca[v] \in VcaType
  BY DEF TypeOK
<1>2. /\ [vca[v] EXCEPT !.sw = b] \in VcaType
      /\ [vca[v] EXCEPT !.needed = b] \in VcaType
      /\ [vca[v] EXCEPT !.needed = @ \/ b] \in VcaType
  BY <1>1 DEF VcaType
<1> QED
  BY <1>2 DEF TypeOK

\* A step of one task for an environment keeps the rest.
LEMMA VcaFrameTypes ==
    ASSUME TypeOK, Numbered, VcaFrame, NEW n \in OpNum, NEW v \in Vca,
           NEW pc \in Pcs, SetVt(n, v, pc),
           vca' \in [Vca -> VcaType], env' \subseteq Vca,
           faults' \in 0..MaxFaults
    PROVE  TypeOK' /\ Numbered'
<1>1. vt' \in [OpNum -> [Vca -> Pcs]]
  BY TaskMoves DEF SetVt
<1> QED
  BY <1>1 DEF VcaFrame, TypeOK, Numbered

LEMMA VcaTypes ==
    ASSUME TypeOK, Numbered, NEW n \in OpNum, NEW v \in Vca,
           VcaStep(n, v) \/ VcaFails(n, v) \/ DestroyPrimitive(n, v)
             \/ DestroyEe(n, v) \/ DestroyFails(n, v)
    PROVE  TypeOK' /\ Numbered'
<1>1. /\ {"create", "relate", "install", "depend", "vm", "first", "done",
          "more", "failed", "destroy"} \subseteq Pcs
      /\ {"REGISTERING", "INSTALLING SW", "EXECUTING PRIMITIVE", "READY",
          "BROKEN"} \subseteq Statuses
  BY DEF Pcs, Ended, Statuses
<1>2. env \subseteq Vca /\ faults \in 0..MaxFaults /\ vca \in [Vca -> VcaType]
  BY DEF TypeOK
<1>3. CASE Boot(n, v)
  BY <1>1, <1>2, <1>3, VcaStatus, VcaFrameTypes DEF Boot
<1>4. CASE Create(n, v)
  <2>1. (Type(v) = "k8s") \in BOOLEAN
    OBVIOUS
  <2>2. vca' \in [Vca -> VcaType]
    BY <1>1, <1>4, <2>1, VcaStatus DEF Create
  <2> QED
    BY <1>1, <1>2, <1>4, <2>2, VcaFrameTypes DEF Create
<1>5. CASE InstallSw(n, v)
  <2>1. vca' \in [Vca -> VcaType]
    BY <1>5, VcaFlag DEF InstallSw
  <2> QED
    BY <1>1, <1>2, <1>5, <2>1, VcaFrameTypes DEF InstallSw
<1>6. CASE Relate(n, v)
  BY <1>1, <1>2, <1>6, VcaFrameTypes DEF Relate
<1>7. CASE VmUp(n, v)
  BY <1>1, <1>2, <1>7, VcaFrameTypes DEF VmUp
<1>8. CASE Depend(n, v)
  <2>1. vca' \in [Vca -> VcaType]
    <3>1. /\ [vca EXCEPT ![v].status = "EXECUTING PRIMITIVE"]
                \in [Vca -> VcaType]
          /\ [vca EXCEPT ![v].status = "READY"] \in [Vca -> VcaType]
      BY <1>1, VcaStatus
    <3> QED
      BY <1>8, <3>1 DEF Depend
  <2>2. CASE v \in nsd.initial
    BY <1>1, <1>2, <1>8, <2>1, <2>2, VcaFrameTypes DEF Depend
  <2>3. CASE v \notin nsd.initial
    BY <1>1, <1>2, <1>8, <2>1, <2>3, VcaFrameTypes DEF Depend
  <2> QED
    BY <2>2, <2>3
<1>9. CASE FirstPrimitive(n, v)
  <2>1. vca' \in [Vca -> VcaType]
    <3>1. (v \in nsd.terminate) \in BOOLEAN
      OBVIOUS
    <3> QED
      BY <1>9, <3>1, VcaFlag DEF FirstPrimitive
  <2> QED
    BY <1>1, <1>2, <1>9, <2>1, VcaFrameTypes DEF FirstPrimitive
<1>10. CASE MorePrimitives(n, v)
  BY <1>1, <1>2, <1>10, VcaStatus, VcaFrameTypes DEF MorePrimitives
<1>11. CASE VcaFails(n, v)
  <2>1. faults' \in 0..MaxFaults
    BY <1>2, <1>11, FaultTypes DEF VcaFails
  <2>2. env' \subseteq Vca
    BY <1>2, <1>11 DEF VcaFails
  <2>3. vca' \in [Vca -> VcaType]
    BY <1>1, <1>11, VcaStatus DEF VcaFails
  <2> QED
    BY <1>1, <1>11, <2>1, <2>2, <2>3, VcaFrameTypes DEF VcaFails
<1>12. CASE DestroyPrimitive(n, v)
  <2>1. vca' \in [Vca -> VcaType]
    BY <1>12, VcaFlag DEF DestroyPrimitive
  <2>2. AfterPrimitives(v) \in Pcs
    BY <1>1 DEF AfterPrimitives
  <2> QED
    BY <1>2, <1>12, <2>1, <2>2, VcaFrameTypes DEF DestroyPrimitive
<1>13. CASE DestroyEe(n, v)
  <2>1. env' \subseteq Vca
    BY <1>2, <1>13 DEF DestroyEe
  <2> QED
    BY <1>1, <1>2, <1>13, <2>1, VcaFrameTypes DEF DestroyEe
<1>14. CASE DestroyFails(n, v)
  <2>1. faults' \in 0..MaxFaults
    BY <1>2, <1>14, FaultTypes DEF DestroyFails
  <2> QED
    BY <1>1, <1>2, <1>14, <2>1, VcaFrameTypes DEF DestroyFails
<1> QED
  BY <1>3, <1>4, <1>5, <1>6, <1>7, <1>8, <1>9, <1>10, <1>11, <1>12, <1>13,
     <1>14 DEF VcaStep

LEMMA OtherTaskTypes ==
    ASSUME TypeOK, Numbered, NEW n \in OpNum,
           \/ RoDone(n) \/ RoFails(n) \/ DeleteAllDone(n) \/ DeleteAllFails(n)
           \/ RoDelete(n)
           \/ \E k \in Kdu : KduDone(n, k) \/ KduFails(n, k) \/ Uninstall(n, k)
    PROVE  TypeOK' /\ Numbered'
<1> USE DEF Numbered
<1>1. {"done", "failed"} \subseteq Pcs
  BY DEF Pcs, Ended
<1>2. CASE RoDone(n)
  <2>1. rt' \in [OpNum -> Pcs]
    BY <1>1, <1>2, TaskMoves DEF RoDone
  <2> QED
    BY <1>2, <2>1 DEF RoDone, TypeOK, recVars, extVars
<1>3. CASE RoFails(n)
  <2>1. rt' \in [OpNum -> Pcs]
    BY <1>1, <1>3, TaskMoves DEF RoFails
  <2>2. vnfr' \in VnfrType
    BY <1>3 DEF RoFails, TypeOK, VnfrType
  <2>3. faults' \in 0..MaxFaults
    BY <1>3, FaultTypes DEF RoFails, TypeOK
  <2>4. vim' \in BOOLEAN
    BY <1>3 DEF RoFails, TypeOK
  <2> QED
    BY <1>3, <2>1, <2>2, <2>3, <2>4 DEF RoFails, TypeOK
<1>4. CASE DeleteAllDone(n)
  <2>1. dt' \in [OpNum -> Pcs]
    BY <1>1, <1>4, TaskMoves DEF DeleteAllDone
  <2>2. vca' \in [Vca -> VcaType]
    <3>1. \A v \in Vca : [vca[v] EXCEPT !.status = "DELETED"] \in VcaType
      BY DEF TypeOK, VcaType, Statuses
    <3> QED
      BY <1>4, <3>1 DEF DeleteAllDone, TypeOK
  <2> QED
    BY <1>4, <2>1, <2>2 DEF DeleteAllDone, TypeOK
<1>5. CASE DeleteAllFails(n)
  <2>1. dt' \in [OpNum -> Pcs]
    BY <1>1, <1>5, TaskMoves DEF DeleteAllFails
  <2> QED
    BY <1>5, <2>1, FaultTypes DEF DeleteAllFails, TypeOK, recVars, extVars
<1>6. CASE RoDelete(n)
  <2>1. rt' \in [OpNum -> Pcs]
    BY <1>1, <1>6, TaskMoves DEF RoDelete
  <2>2. vnfr' \in VnfrType
    BY <1>6 DEF RoDelete, TypeOK, VnfrType
  <2>3. faults' \in 0..MaxFaults
    BY <1>6, FaultTypes DEF RoDelete, TypeOK
  <2> QED
    BY <1>6, <2>1, <2>2, <2>3 DEF RoDelete, TypeOK
<1>7. ASSUME NEW k \in Kdu, KduDone(n, k) \/ KduFails(n, k)
      PROVE  TypeOK' /\ Numbered'
  <2>0. \A status \in {"READY", "ERROR"} :
           [kdu EXCEPT ![k].status = status] \in [Kdu -> KduType]
    <3>1. \A status \in {"READY", "ERROR"} : [kdu[k] EXCEPT !.status = status] \in KduType
      BY DEF TypeOK, KduType
    <3> QED
      BY <3>1 DEF TypeOK
  <2>1. CASE KduDone(n, k)
    <3>1. kt' \in [OpNum -> [Kdu -> Pcs]]
      BY <1>1, <2>1, TaskMoves DEF KduDone
    <3>2. kdu' \in [Kdu -> KduType] /\ release' \subseteq Kdu
      BY <2>0, <2>1 DEF KduDone, TypeOK
    <3> QED
      BY <2>1, <3>1, <3>2 DEF KduDone, TypeOK
  <2>2. CASE KduFails(n, k)
    <3>1. kt' \in [OpNum -> [Kdu -> Pcs]]
      BY <1>1, <2>2, TaskMoves DEF KduFails
    <3>2. kdu' \in [Kdu -> KduType] /\ release' \subseteq Kdu
      BY <2>0, <2>2 DEF KduFails, TypeOK
    <3>3. faults' \in 0..MaxFaults
      BY <2>2, FaultTypes DEF KduFails
    <3> QED
      BY <2>2, <3>1, <3>2, <3>3 DEF KduFails, TypeOK
  <2> QED
    BY <1>7, <2>1, <2>2
<1>8. ASSUME NEW k \in Kdu, Uninstall(n, k) PROVE TypeOK' /\ Numbered'
  <2>1. kt' \in [OpNum -> [Kdu -> Pcs]]
    BY <1>1, <1>8, TaskMoves DEF Uninstall
  <2>2. faults' \in 0..MaxFaults /\ release' \subseteq Kdu
    BY <1>8, FaultTypes DEF Uninstall, TypeOK
  <2> QED
    BY <1>8, <2>1, <2>2 DEF Uninstall, TypeOK, recVars
<1> QED
  BY <1>2, <1>3, <1>4, <1>5, <1>6, <1>7, <1>8

-----------------------------------------------------------------------------
(* The cancel command                                                       *)

LEMMA CancelledType == ASSUME NEW pc \in Pcs PROVE Cancelled(pc) \in Pcs
BY DEF Cancelled, Pcs, Ended

LEMMA CancelThoseTypes ==
    ASSUME TypeOK, NEW n \in OpNum, NEW V \in SUBSET Vca, NEW K \in SUBSET Kdu,
           NEW rest, CancelThose(n, V, K, rest)
    PROVE  /\ vt' \in [OpNum -> [Vca -> Pcs]] /\ kt' \in [OpNum -> [Kdu -> Pcs]]
           /\ rt' \in [OpNum -> Pcs] /\ dt' \in [OpNum -> Pcs]
           /\ env' \subseteq Vca /\ release' \subseteq Kdu
<1>1. [v \in Vca |-> IF v \in V THEN Cancelled(vt[n][v]) ELSE vt[n][v]]
          \in [Vca -> Pcs]
  BY CancelledType DEF TypeOK
<1>2. [k \in Kdu |-> IF k \in K THEN Cancelled(kt[n][k]) ELSE kt[n][k]]
          \in [Kdu -> Pcs]
  BY CancelledType DEF TypeOK
<1>3. rt' \in [OpNum -> Pcs] /\ dt' \in [OpNum -> Pcs]
  BY CancelledType DEF TypeOK, CancelThose
<1>4. env' \subseteq Vca /\ release' \subseteq Kdu
  BY DEF TypeOK, CancelThose
<1> QED
  BY <1>1, <1>2, <1>3, <1>4 DEF TypeOK, CancelThose

\* The tasks of operation n that a cancel reaches: all, or up to one that failed.
CancelsThose(n) ==
    \E V \in SUBSET Vca, K \in SUBSET Kdu, rest \in BOOLEAN :
        CancelThose(n, V, K, rest)

LEMMA CancelReaches ==
    ASSUME NEW n \in OpNum, CancelTasks(n) \/ CancelUpToFailed(n)
    PROVE  CancelsThose(n)
<1>1. CASE CancelTasks(n)
  BY <1>1 DEF CancelTasks, CancelsThose
<1>2. CASE CancelUpToFailed(n)
  <2>1. BeforeFailed(n) \in SUBSET Vca /\ (FailedKdus(n) = {}) \in BOOLEAN
    BY DEF BeforeFailed
  <2> QED
    BY <1>2, <2>1 DEF CancelUpToFailed, CancelsThose
<1> QED
  BY <1>1, <1>2

LEMMA CancelsThoseTypes ==
    ASSUME TypeOK, NEW n \in OpNum, CancelsThose(n)
    PROVE  /\ vt' \in [OpNum -> [Vca -> Pcs]] /\ kt' \in [OpNum -> [Kdu -> Pcs]]
           /\ rt' \in [OpNum -> Pcs] /\ dt' \in [OpNum -> Pcs]
           /\ env' \subseteq Vca /\ release' \subseteq Kdu
BY CancelThoseTypes DEF CancelsThose

LEMMA CancelTypes ==
    ASSUME TypeOK, Numbered, CancelStep
    PROVE  TypeOK' /\ Numbered'
<1> USE DEF Numbered
<1>1. \A state \in {"taken", "raised", "answered"} :
          [creq EXCEPT !.state = state] \in CreqType
  BY DEF TypeOK, CreqType
<1>2. \A state \in {"taken", "raised", "answered"} :
          [creq EXCEPT !.state = state].op = creq.op
  BY DEF TypeOK, CreqType
<1>3. CASE CancelSend
  <2>1. creq' \in CreqType /\ creq'.op = cur
    BY <1>3 DEF CancelSend, TypeOK, CreqType
  <2> QED
    BY <1>3, <2>1 DEF CancelSend, TypeOK, recVars, extVars, taskVars
<1>4. CASE CancelMain
  <2>0. cur \in OpNum /\ creq.op \in OpNum
    BY <1>4 DEF CancelMain
  <2>1. main' \in MainType
    BY <1>4 DEF CancelMain, MainType, MainPcs
  <2>2. creq' \in CreqType /\ creq'.op = creq.op
    BY <1>1, <1>2, <1>4 DEF CancelMain
  <2>3. CASE main.pc = "wait"
    BY <1>4, <2>0, <2>1, <2>2, <2>3, CancelReaches, CancelsThoseTypes
       DEF CancelMain, TypeOK, recVars
  <2>4. CASE main.pc # "wait"
    BY <1>4, <2>0, <2>1, <2>2, <2>4 DEF CancelMain, TypeOK, recVars, taskVars
  <2> QED
    BY <2>3, <2>4
<1>5. CASE CancelEnd
  <2>0. creq.op \in OpNum
    BY <1>5 DEF CancelEnd
  <2>1. creq' \in CreqType /\ creq'.op = creq.op
    BY <1>1, <1>2, <1>5 DEF CancelEnd
  <2>2. ops' \in [OpNum -> OpType]
    <3>0. ops \in [OpNum -> OpType]
      BY DEF TypeOK
    <3>1. ops[creq.op] \in OpType
      BY <2>0, <3>0
    <3>2. [ops[creq.op] EXCEPT !.state = "FAILED_TEMP"] \in OpType
      BY <3>1 DEF OpType
    <3>3. [ops EXCEPT ![creq.op].state = "FAILED_TEMP"] \in [OpNum -> OpType]
      BY <2>0, <3>0, <3>2
    <3>4. \/ ops' = ops
          \/ ops' = [ops EXCEPT ![creq.op].state = "FAILED_TEMP"]
      BY <1>5 DEF CancelEnd
    <3> QED
      BY <3>0, <3>3, <3>4
  <2>3. /\ vt' \in [OpNum -> [Vca -> Pcs]] /\ kt' \in [OpNum -> [Kdu -> Pcs]]
        /\ rt' \in [OpNum -> Pcs] /\ dt' \in [OpNum -> Pcs]
        /\ env' \subseteq Vca /\ release' \subseteq Kdu
    <3>1. CancelsThose(creq.op) \/ UNCHANGED <<taskVars, env, release>>
      BY <1>5, <2>0, CancelReaches DEF CancelEnd
    <3> QED
      BY <2>0, <3>1, CancelsThoseTypes DEF TypeOK, taskVars
  <2> QED
    BY <1>5, <2>0, <2>1, <2>2, <2>3 DEF CancelEnd, TypeOK, recVars
<1> QED
  BY <1>3, <1>4, <1>5 DEF CancelStep

LEMMA VmReportTypes ==
    ASSUME TypeOK, Numbered, VmReport PROVE TypeOK' /\ Numbered'
<1>1. vnfr' \in VnfrType
  BY DEF VmReport, TypeOK, VnfrType
<1>2. faults' \in 0..MaxFaults
  BY FaultTypes DEF VmReport, TypeOK
<1> QED
  BY <1>1, <1>2 DEF VmReport, TypeOK, Numbered, extVars, taskVars

LEMMA TypesKept ==
    ASSUME TypeOK, Numbered, [Next]_vars PROVE TypeOK' /\ Numbered'
<1>1. ASSUME NEW n \in OpNum, TaskStep(n) PROVE TypeOK' /\ Numbered'
  BY <1>1, VcaTypes, OtherTaskTypes DEF TaskStep
<1>2. CASE UNCHANGED vars
  BY <1>2 DEF vars, recVars, extVars, taskVars, TypeOK, Numbered
<1> QED
  BY <1>1, <1>2, MainTypes, VmReportTypes, CancelTypes DEF Next

\* All variables keep their types, whatever the descriptors and the bounds.
THEOREM NsDeployTypes == Spec => []TypeOK
<1>1. Init => TypeOK /\ Numbered
  BY InitTypes DEF Init, Numbered, Idle
<1>2. TypeOK /\ Numbered /\ [Next]_vars => (TypeOK /\ Numbered)'
  BY TypesKept
<1> QED
  BY <1>1, <1>2, PTL DEF Spec

-----------------------------------------------------------------------------
(* No environment is removed before its terminate primitives               *)

\* An instantiation's awaits; those after the environment was created.
Created == {"install", "relate", "vm", "depend", "first", "more"}
DeployPcs == Created \cup {"boot", "create"}

\* Operations to come have no tasks.
NotBegun ==
    \A n \in OpNum :
        n > cur => dt[n] = "off" /\ \A v \in Vca : vt[n][v] = "off"

\* Tasks are where their operation puts them.
KindsAgree ==
    /\ main.pc \in {"kdus", "certs"} => Deploying(cur)
    /\ main.pc \in {"prims", "spaces"} => Undeploying(cur)
    /\ \A n \in OpNum :
          /\ dt[n] = "work" => Undeploying(n)
          /\ \A v \in Vca :
                /\ vt[n][v] \in DeployPcs => Deploying(n)
                /\ vt[n][v] \in {"last", "destroy"} => Undeploying(n)

\* The record names an environment whose primitives are needed or whose
\* creation has returned; only some are removed one by one.
Recorded ==
    \A v \in Vca :
        /\ vca[v].needed => vca[v].ee /\ v \in nsd.terminate
        /\ \A n \in OpNum :
              /\ vt[n][v] # "work"
              /\ vt[n][v] \in Created => vca[v].ee
              /\ vt[n][v] = "destroy" => DestroysEe(v)

\* Only the last operation has tasks at work, and only while it runs.
Alone ==
    late = {} =>
        \A n \in OpNum :
            n # cur \/ main.pc = "idle" =>
                ~Pending(dt[n]) /\ \A v \in Vca : ~Pending(vt[n][v])

\* A termination has not got past the primitives that are needed.
PrimitivesFirst ==
    (late = {} /\ main.pc # "idle" /\ Undeploying(cur)) =>
        \A v \in Vca :
            vca[v].needed => vt[cur][v] \in {"last", "failed", "cancelled"}

\* When everything is removed at once no primitives are needed.
NoneNeeded ==
    (late = {} /\ (main.pc = "spaces" \/ \E n \in OpNum : dt[n] = "work")) =>
        \A v \in Vca : ~vca[v].needed

NeededInv ==
    /\ TypeOK /\ Numbered
    /\ NotBegun /\ KindsAgree /\ Recorded /\ Alone
    /\ PrimitivesFirst /\ NoneNeeded

\* The juju model of an NS is destroyed with one of its native charms: then
\* only environments that are not in it have terminate primitives.
NativeApart ==
    \A d \in Descriptors :
        (\E v \in Vca : d.type[v] = "native") =>
            \A w \in d.terminate : d.type[w] \in {"helm", "k8s"}

\* What the invariant reads, when a step leaves it alone.
NeededFrame ==
    /\ UNCHANGED <<nsd, cur, vt, dt, late>>
    /\ main'.pc = main.pc
    /\ \A n \in OpNum : ops'[n].kind = ops[n].kind
    /\ \A v \in Vca : /\ vca'[v].needed = vca[v].needed
                      /\ vca[v].ee => vca'[v].ee

LEMMA FrameKeeps ==
    ASSUME NeededInv, TypeOK', Numbered', NeededFrame
    PROVE  NeededInv'
<1> USE DEF NeededFrame
<1>1. cur \in OpNum \/ main.pc = "idle"
  BY DEF NeededInv, Numbered
<1>2. NotBegun'
  BY DEF NeededInv, NotBegun
<1>3. KindsAgree'
  BY <1>1 DEF NeededInv, KindsAgree, Deploying, Undeploying
<1>4. Recorded'
  BY DEF NeededInv, Recorded, DestroysEe, Type
<1>5. Alone'
  BY DEF NeededInv, Alone
<1>6. PrimitivesFirst'
  BY <1>1 DEF NeededInv, PrimitivesFirst, Undeploying
<1>7. NoneNeeded'
  BY DEF NeededInv, NoneNeeded
<1> QED
  BY <1>2, <1>3, <1>4, <1>5, <1>6, <1>7 DEF NeededInv

\* The entries of vt after a step of one task.
LEMMA VtAfter ==
    ASSUME TypeOK, NEW n \in OpNum, NEW v \in Vca, NEW pc, SetVt(n, v, pc)
    PROVE  \A m \in OpNum, w \in Vca :
               vt'[m][w] = IF m = n /\ w = v THEN pc ELSE vt[m][w]
BY DEF TypeOK, SetVt

\* A step of a task that deploys.
LEMMA DeployTaskKeeps ==
    ASSUME NeededInv, TypeOK', Numbered', NEW n \in OpNum, NEW v \in Vca,
           NEW pc, SetVt(n, v, pc),
           UNCHANGED <<nsd, cur, ops, main, dt, late>>,
           vt[n][v] \in DeployPcs, pc \in DeployPcs \cup Ended,
           \A w \in Vca : vca[w].ee => vca'[w].ee,
           pc \in Created => vca'[v].ee,
           \A w \in Vca : vca'[w].needed =>
               \/ vca[w].needed
               \/ w = v /\ v \in nsd.terminate /\ vca'[v].ee
    PROVE  NeededInv'
<1>1. \A m \in OpNum, w \in Vca :
          vt'[m][w] = IF m = n /\ w = v THEN pc ELSE vt[m][w]
  BY VtAfter DEF NeededInv
<1>2. Deploying(n) /\ ~Undeploying(n)
  BY DEF NeededInv, KindsAgree, Deploying, Undeploying
<1>3. ~(n > cur)
  BY DEF NeededInv, NotBegun, DeployPcs, Created
<1>4. late = {} => n = cur /\ main.pc # "idle"
  BY DEF NeededInv, Alone, Pending, DeployPcs, Created, Ended
<1>5. \A m \in OpNum : dt[m] = "work" => Pending(dt[m]) /\ Undeploying(m)
  BY DEF NeededInv, KindsAgree, Pending, Ended
<1>6. NotBegun'
  BY <1>1, <1>3 DEF NeededInv, NotBegun
<1>7. KindsAgree'
  BY <1>1, <1>2
     DEF NeededInv, KindsAgree, Deploying, Undeploying, DeployPcs, Created, Ended
<1>8. Recorded'
  BY <1>1 DEF NeededInv, Recorded, DestroysEe, Type, DeployPcs, Created, Ended
<1>9. Alone'
  BY <1>1, <1>4 DEF NeededInv, Alone
<1>10. late = {} => ~Undeploying(cur)
  BY <1>2, <1>4
<1>11. PrimitivesFirst'
  BY <1>10 DEF PrimitivesFirst, Undeploying
<1>12. late = {} => main.pc # "spaces" /\ \A m \in OpNum : dt[m] # "work"
  BY <1>4, <1>5, <1>10 DEF NeededInv, KindsAgree, Alone
<1>13. NoneNeeded'
  BY <1>12 DEF NoneNeeded
<1> QED
  BY <1>6, <1>7, <1>8, <1>9, <1>11, <1>13 DEF NeededInv

\* A step of a task that removes an environment.
LEMMA DestroyTaskKeeps ==
    ASSUME NeededInv, TypeOK', Numbered', NEW n \in OpNum, NEW v \in Vca,
           NEW pc, SetVt(n, v, pc),
           UNCHANGED <<nsd, cur, ops, main, dt, late>>,
           vt[n][v] \in {"last", "destroy"}, pc \in {"destroy"} \cup Ended,
           pc = "destroy" => DestroysEe(v),
           \A w \in Vca : /\ vca[w].ee => vca'[w].ee
                          /\ vca'[w].needed => vca[w].needed,
           vca'[v].needed => pc = "failed" \/ vt[n][v] = "destroy"
    PROVE  NeededInv'
<1>1. \A m \in OpNum, w \in Vca :
          vt'[m][w] = IF m = n /\ w = v THEN pc ELSE vt[m][w]
  BY VtAfter DEF NeededInv
<1>2. Undeploying(n) /\ ~Deploying(n)
  BY DEF NeededInv, KindsAgree, Deploying, Undeploying
<1>3. ~(n > cur)
  BY DEF NeededInv, NotBegun
<1>4. late = {} => n = cur /\ main.pc # "idle"
  BY DEF NeededInv, Alone, Pending, Ended
<1>5. NotBegun'
  BY <1>1, <1>3 DEF NeededInv, NotBegun
<1>6. KindsAgree'
  BY <1>1, <1>2
     DEF NeededInv, KindsAgree, Deploying, Undeploying, DeployPcs, Created, Ended
<1>7. Recorded'
  BY <1>1 DEF NeededInv, Recorded, DestroysEe, Type, Created, Ended
<1>8. Alone'
  BY <1>1, <1>4 DEF NeededInv, Alone
<1>9. PrimitivesFirst'
  BY <1>1, <1>2, <1>4 DEF NeededInv, PrimitivesFirst, Undeploying
<1>10. NoneNeeded'
  BY DEF NeededInv, NoneNeeded
<1> QED
  BY <1>5, <1>6, <1>7, <1>8, <1>9, <1>10 DEF NeededInv

LEMMA VcaKeeps ==
    ASSUME NeededInv, TypeOK', Numbered', NEW n \in OpNum, NEW v \in Vca,
           VcaStep(n, v) \/ VcaFails(n, v) \/ DestroyPrimitive(n, v)
             \/ DestroyEe(n, v) \/ DestroyFails(n, v)
    PROVE  NeededInv'
<1> USE DEF VcaFrame
<1>1. vca \in [Vca -> VcaType] /\ \A w \in Vca : vca[w] \in VcaType
  BY DEF NeededInv, TypeOK
<1> DEFINE Same == \A w \in Vca : /\ vca'[w].needed = vca[w].needed
                                  /\ vca'[w].ee = vca[w].ee
<1>2. ASSUME NEW s, vca' = [vca EXCEPT ![v].status = s] PROVE Same
  BY <1>1, <1>2 DEF VcaType
<1>3. /\ {"create", "relate", "install", "depend", "vm", "first", "done",
          "more", "failed"} \subseteq DeployPcs \cup Ended
      /\ {"boot", "create"} \cap Created = {}
      /\ {"done", "failed"} \cap (Created \cup DeployPcs) = {}
  BY DEF DeployPcs, Created, Ended
<1>5. CASE Boot(n, v)
  <2>1. vt[n][v] \in DeployPcs
    BY <1>5 DEF Boot, DeployPcs
  <2>2. Same
    BY <1>2, <1>5 DEF Boot
  <2> QED
    BY <1>3, <1>5, <2>1, <2>2, DeployTaskKeeps DEF Boot
<1>6. CASE Create(n, v)
  <2>1. vt[n][v] \in DeployPcs
    BY <1>6 DEF Create, DeployPcs
  <2>2. \A w \in Vca : /\ vca'[w].needed = vca[w].needed
                       /\ vca[w].ee => vca'[w].ee
    BY <1>1, <1>6 DEF Create, VcaType
  <2>3. vca'[v].ee
    BY <1>1, <1>6 DEF Create, VcaType
  <2> QED
    BY <1>3, <1>6, <2>1, <2>2, <2>3, DeployTaskKeeps DEF Create
<1>7. \A w \in Vca, m \in OpNum : vt[m][w] \in Created => vca[w].ee
  BY DEF NeededInv, Recorded
<1>8. CASE InstallSw(n, v)
  <2>1. vt[n][v] \in Created /\ Created \subseteq DeployPcs
    BY <1>8 DEF InstallSw, DeployPcs, Created
  <2>2. Same
    BY <1>1, <1>8 DEF InstallSw, VcaType
  <2> QED
    BY <1>3, <1>7, <1>8, <2>1, <2>2, DeployTaskKeeps DEF InstallSw
<1>9. CASE Relate(n, v)
  <2>1. vt[n][v] \in Created /\ Created \subseteq DeployPcs
    BY <1>9 DEF Relate, DeployPcs, Created
  <2> QED
    BY <1>3, <1>7, <1>9, <2>1, DeployTaskKeeps DEF Relate
<1>10. CASE VmUp(n, v)
  <2>1. vt[n][v] \in Created /\ Created \subseteq DeployPcs
    BY <1>10 DEF VmUp, DeployPcs, Created
  <2> QED
    BY <1>3, <1>7, <1>10, <2>1, DeployTaskKeeps DEF VmUp
<1>11. CASE Depend(n, v)
  <2>1. vt[n][v] \in Created /\ Created \subseteq DeployPcs
    BY <1>11 DEF Depend, DeployPcs, Created
  <2>2. Same
    BY <1>2, <1>11 DEF Depend
  <2>3. \E pc \in {"first", "done"} : SetVt(n, v, pc)
    BY <1>11 DEF Depend
  <2> QED
    BY <1>3, <1>7, <1>11, <2>1, <2>2, <2>3, DeployTaskKeeps DEF Depend
<1>12. CASE FirstPrimitive(n, v)
  <2>1. vt[n][v] \in Created /\ Created \subseteq DeployPcs
    BY <1>12 DEF FirstPrimitive, DeployPcs, Created
  <2>2. vca' = [vca EXCEPT ![v].needed = @ \/ v \in nsd.terminate]
    BY <1>12 DEF FirstPrimitive
  <2>3. \A w \in Vca :
          /\ vca'[w].ee = vca[w].ee
          /\ vca'[w].needed =>
                vca[w].needed \/ (w = v /\ v \in nsd.terminate)
    BY <1>1, <2>2 DEF VcaType
  <2>4. SetVt(n, v, "more") /\ "more" \in DeployPcs \cup Ended
    BY <1>3, <1>12 DEF FirstPrimitive
  <2>5. \A w \in Vca : vca[w].ee => vca'[w].ee
    BY <2>3
  <2>6. vca'[v].ee
    BY <1>7, <2>1, <2>3
  <2>7. \A w \in Vca : vca'[w].needed =>
                        \/ vca[w].needed
                        \/ w = v /\ v \in nsd.terminate /\ vca'[v].ee
    BY <2>3, <2>6
  <2>8. UNCHANGED <<nsd, cur, ops, main, dt, late>>
    BY <1>12 DEF FirstPrimitive
  <2> QED
    BY <2>1, <2>4, <2>5, <2>6, <2>7, <2>8, DeployTaskKeeps
<1>13. CASE MorePrimitives(n, v)
  <2>1. vt[n][v] \in Created /\ Created \subseteq DeployPcs
    BY <1>13 DEF MorePrimitives, DeployPcs, Created
  <2>2. Same
    BY <1>2, <1>13 DEF MorePrimitives
  <2> QED
    BY <1>3, <1>7, <1>13, <2>1, <2>2, DeployTaskKeeps DEF MorePrimitives
<1>14. CASE VcaFails(n, v)
  <2>1. vt[n][v] \in DeployPcs
    <3>1. vt[n][v] \in Pcs /\ Pending(vt[n][v]) /\ Deploying(n)
      BY <1>14 DEF VcaFails, NeededInv, TypeOK
    <3>2. vt[n][v] \notin {"last", "destroy"}
      BY <3>1 DEF NeededInv, KindsAgree, Deploying, Undeploying
    <3>3. vt[n][v] # "work"
      BY DEF NeededInv, Recorded
    <3> QED
      BY <3>1, <3>2, <3>3 DEF Pcs, Pending, DeployPcs, Created
  <2>2. Same
    BY <1>2, <1>14 DEF VcaFails
  <2> QED
    BY <1>3, <1>14, <2>1, <2>2, DeployTaskKeeps DEF VcaFails
<1>15. AfterPrimitives(v) \in {"destroy", "done"}
  BY DEF AfterPrimitives
<1>16. {"done", "failed"} \subseteq Ended /\ "destroy" \notin Ended
  BY DEF Ended
<1>17. CASE DestroyPrimitive(n, v)
  <2>1. vca' = [vca EXCEPT ![v].needed = FALSE]
    BY <1>17 DEF DestroyPrimitive
  <2>2. /\ \A w \in Vca : /\ vca'[w].ee = vca[w].ee
                          /\ vca'[w].needed => vca[w].needed
        /\ ~vca'[v].needed
    BY <1>1, <2>1 DEF VcaType
  <2>3. AfterPrimitives(v) = "destroy" => DestroysEe(v)
    BY DEF AfterPrimitives
  <2> QED
    BY <1>15, <1>16, <1>17, <2>2, <2>3, DestroyTaskKeeps DEF DestroyPrimitive
<1>18. CASE DestroyEe(n, v)
  BY <1>16, <1>18, DestroyTaskKeeps DEF DestroyEe
<1>19. CASE DestroyFails(n, v)
  BY <1>16, <1>19, DestroyTaskKeeps DEF DestroyFails
<1> QED
  BY <1>5, <1>6, <1>8, <1>9, <1>10, <1>11, <1>12, <1>13, <1>14, <1>17, <1>18,
     <1>19 DEF VcaStep

\* The other tasks.
LEMMA OtherTasksKeep ==
    ASSUME NeededInv, TypeOK', Numbered', NEW n \in OpNum, TaskStep(n)
    PROVE  NeededInv'
<1> USE DEF recVars, extVars
<1>1. CASE RoDone(n) \/ RoFails(n) \/ RoDelete(n)
  BY <1>1, FrameKeeps DEF RoDone, RoFails, RoDelete, NeededFrame
<1>2. ASSUME NEW k \in Kdu, KduDone(n, k) \/ KduFails(n, k) \/ Uninstall(n, k)
      PROVE  NeededInv'
  BY <1>2, FrameKeeps DEF KduDone, KduFails, Uninstall, NeededFrame
<1>3. CASE DeleteAllDone(n) \/ DeleteAllFails(n)
  <2>1. PICK pc \in Ended : dt' = [dt EXCEPT ![n] = pc]
    BY <1>3 DEF DeleteAllDone, DeleteAllFails, Ended
  <2>2. \A m \in OpNum : \/ dt'[m] = dt[m]
                         \/ m = n /\ dt'[m] \in Ended
    <3>1. dt \in [OpNum -> Pcs]
      BY DEF NeededInv, TypeOK
    <3> QED
      BY <2>1, <3>1
  <2>3. \A w \in Vca : /\ vca'[w].needed = vca[w].needed
                       /\ vca'[w].ee = vca[w].ee
    BY <1>3 DEF DeleteAllDone, DeleteAllFails, NeededInv, TypeOK, VcaType
  <2>4. UNCHANGED <<nsd, cur, ops, main, vt, late>> /\ dt[n] = "work"
    BY <1>3 DEF DeleteAllDone, DeleteAllFails
  <2>5. NotBegun'
    BY <2>2, <2>4 DEF NeededInv, NotBegun
  <2>6. KindsAgree'
    BY <2>2, <2>4 DEF NeededInv, KindsAgree, Deploying, Undeploying, Ended
  <2>7. Recorded'
    BY <2>3, <2>4 DEF NeededInv, Recorded, DestroysEe, Type
  <2>8. Alone'
    BY <2>2, <2>4 DEF NeededInv, Alone, Pending
  <2>9. PrimitivesFirst'
    BY <2>3, <2>4 DEF NeededInv, PrimitivesFirst, Undeploying
  <2>10. NoneNeeded'
    BY <2>2, <2>3, <2>4 DEF NeededInv, NoneNeeded, Ended
  <2> QED
    BY <2>5, <2>6, <2>7, <2>8, <2>9, <2>10 DEF NeededInv
<1> QED
  BY <1>1, <1>2, <1>3, VcaKeeps DEF TaskStep

\* A new operation: everything before it has ended, unless a timeout left it.
LEMMA StartsKeep ==
    ASSUME NeededInv, TypeOK', Numbered', StartInstantiate \/ StartTerminate
    PROVE  NeededInv'
<1>0. Another /\ main.pc = "idle" /\ cur' = cur + 1
  BY DEF StartInstantiate, StartTerminate
<1>1. cur + 1 \in OpNum /\ cur \in Nat
  BY <1>0, NextNumber DEF NeededInv, TypeOK
<1>2. /\ dt' = dt /\ late' = late /\ nsd' = nsd
      /\ \A v \in Vca : vca'[v] = vca[v]
  BY DEF StartInstantiate, StartTerminate, taskVars
<1>3. dt[cur + 1] = "off" /\ \A v \in Vca : vt[cur + 1][v] = "off"
  BY <1>1 DEF NeededInv, NotBegun
<1>4. \A n \in OpNum : dt[n] = "work" => n <= cur
  BY <1>1 DEF NeededInv, NotBegun, OpNum
<1>5. late = {} => \A n \in OpNum :
          ~Pending(dt[n]) /\ \A v \in Vca : ~Pending(vt[n][v])
  BY <1>0 DEF NeededInv, Alone
<1>6. late = {} => \A n \in OpNum : dt[n] # "work"
  BY <1>5 DEF Pending, Ended
<1>7. \A n \in OpNum : n # cur + 1 => ops'[n] = ops[n] /\ vt'[n] = vt[n]
  BY <1>1 DEF StartInstantiate, StartTerminate, taskVars, NeededInv, TypeOK
<1>8. \A v \in Vca :
          vt'[cur + 1][v] \in {"off", "last", "destroy", "done", "failed"}
  <2>1. \A v \in Vca : DestroyStart(v) \in {"last", "destroy", "done", "failed"}
    BY DEF DestroyStart, AfterPrimitives
  <2>2. CASE StartInstantiate
    BY <1>3, <2>2 DEF StartInstantiate, taskVars
  <2>3. CASE StartTerminate
    <3>1. \A v \in Vca :
              vt'[cur + 1][v] = IF vca[v].ee THEN DestroyStart(v) ELSE "off"
      BY <1>1, <2>3 DEF StartTerminate, NeededInv, TypeOK
    <3> QED
      BY <2>1, <3>1
  <2> QED
    BY <2>2, <2>3
<1>9. NotBegun'
  BY <1>0, <1>1, <1>2, <1>7 DEF NeededInv, NotBegun, OpNum
<1>10. NoneNeeded'
  <2>1. main'.pc # "spaces"
    BY DEF StartInstantiate, StartTerminate
  <2> QED
    BY <1>2, <1>6, <2>1 DEF NoneNeeded
<1>11. Alone'
  BY <1>0, <1>2, <1>5, <1>7 DEF Alone, StartInstantiate, StartTerminate
<1>12. CASE StartInstantiate
  <2>1. vt' = vt /\ main'.pc = "kdus"
    BY <1>12 DEF StartInstantiate, taskVars
  <2>2. ops'[cur'].kind = "instantiate"
    BY <1>0, <1>1, <1>12 DEF StartInstantiate, NeededInv, TypeOK
  <2>3. KindsAgree'
    BY <1>0, <1>2, <1>3, <1>7, <2>1, <2>2
       DEF NeededInv, KindsAgree, Deploying, Undeploying, DeployPcs, Created
  <2>4. Recorded'
    BY <1>2, <2>1 DEF NeededInv, Recorded, DestroysEe, Type
  <2>5. PrimitivesFirst'
    BY <2>2 DEF PrimitivesFirst, Undeploying
  <2> QED
    BY <1>9, <1>10, <1>11, <2>3, <2>4, <2>5 DEF NeededInv
<1>13. CASE StartTerminate
  <2>1. main'.pc = "prims"
    BY <1>13 DEF StartTerminate
  <2>2. ops'[cur'].kind = "terminate"
    BY <1>0, <1>1, <1>13 DEF StartTerminate, NeededInv, TypeOK
  <2>3. \A v \in Vca : vt'[cur + 1][v] = IF vca[v].ee THEN DestroyStart(v)
                                                      ELSE "off"
    BY <1>1, <1>13 DEF StartTerminate, NeededInv, TypeOK
  <2>4. KindsAgree'
    BY <1>0, <1>2, <1>3, <1>7, <1>8, <2>1, <2>2
       DEF NeededInv, KindsAgree, Deploying, Undeploying, DeployPcs, Created
  <2>5. \A v \in Vca : vt'[cur + 1][v] = "destroy" => DestroysEe(v)
    BY <2>3 DEF DestroyStart, AfterPrimitives
  <2>6. Recorded'
    BY <1>2, <1>7, <1>8, <2>5 DEF NeededInv, Recorded, DestroysEe, Type, Created
  <2>7. \A v \in Vca : vca[v].needed => vt'[cur + 1][v] \in {"last", "failed"}
    BY <2>3 DEF DestroyStart, NeededInv, Recorded
  <2>8. PrimitivesFirst'
    BY <1>0, <1>2, <2>7 DEF PrimitivesFirst
  <2> QED
    BY <1>9, <1>10, <1>11, <2>4, <2>6, <2>8 DEF NeededInv
<1> QED
  BY <1>12, <1>13

\* The coroutine moves on to a wait, or to the certificates.
LEMMA MovesOnKeeps ==
    ASSUME NeededInv, TypeOK', Numbered', main.pc # "idle",
           UNCHANGED <<nsd, cur, ops, vca, vt, dt, late>>,
           \/ main'.pc = "wait"
           \/ main'.pc = "certs" /\ Deploying(cur)
    PROVE  NeededInv'
<1>1. NotBegun'
  BY DEF NeededInv, NotBegun
<1>2. KindsAgree'
  BY DEF NeededInv, KindsAgree, Deploying, Undeploying
<1>3. Recorded'
  BY DEF NeededInv, Recorded, DestroysEe, Type
<1>4. Alone'
  BY DEF NeededInv, Alone
<1>5. PrimitivesFirst'
  BY DEF NeededInv, PrimitivesFirst, Undeploying
<1>6. NoneNeeded'
  BY DEF NeededInv, NoneNeeded
<1> QED
  BY <1>1, <1>2, <1>3, <1>4, <1>5, <1>6 DEF NeededInv

\* The tasks for the environments are created.
LEMMA LaunchKeeps ==
    ASSUME NeededInv, TypeOK', Numbered', cur \in OpNum,
           main.pc \in {"kdus", "certs"}, main'.pc = "wait", LaunchVcas,
           UNCHANGED <<nsd, cur, ops, dt, late>>
    PROVE  NeededInv'
<1>1. Deploying(cur) /\ ~Undeploying(cur)
  BY DEF NeededInv, KindsAgree, Deploying, Undeploying
<1>2. \A v \in Vca : /\ vca'[v].needed = vca[v].needed
                     /\ vca'[v].ee = vca[v].ee
  <2>1. vca \in [Vca -> VcaType]
    BY DEF NeededInv, TypeOK
  <2>2. vca' = [v \in Vca |->
                  [vca[v] EXCEPT !.known = TRUE,
                                 !.status = IF Type(v) = "native"
                                              THEN @ ELSE "CREATING"]]
    BY DEF LaunchVcas
  <2> QED
    BY <2>1, <2>2 DEF VcaType
<1>3. /\ \A n \in OpNum, v \in Vca : n # cur => vt'[n][v] = vt[n][v]
      /\ \A v \in Vca : vt'[cur][v] \in {"boot", "create"}
  BY DEF LaunchVcas, NeededInv, TypeOK
<1>4. ~(cur > cur)
  BY DEF NeededInv, TypeOK
<1>5. NotBegun'
  BY <1>3, <1>4 DEF NeededInv, NotBegun
<1>6. KindsAgree'
  BY <1>1, <1>3 DEF NeededInv, KindsAgree, Deploying, Undeploying
<1>7. Recorded'
  BY <1>2, <1>3 DEF NeededInv, Recorded, DestroysEe, Type, Created
<1>8. Alone'
  BY <1>3 DEF NeededInv, Alone
<1>9. PrimitivesFirst'
  BY <1>1 DEF PrimitivesFirst, Undeploying
<1>10. NoneNeeded'
  BY <1>2 DEF NeededInv, NoneNeeded
<1> QED
  BY <1>5, <1>6, <1>7, <1>8, <1>9, <1>10 DEF NeededInv

\* The operation ends: its tasks have ended, or it is one that left some.
LEMMA FinishKeeps ==
    ASSUME NeededInv, TypeOK', Numbered', FinishInstantiate \/ FinishTerminate
    PROVE  NeededInv'
<1>1. main' = Idle /\ UNCHANGED <<nsd, cur, vca, vt, dt>>
  <2>1. CASE FinishInstantiate
    BY <2>1 DEF FinishInstantiate, taskVars
  <2>2. CASE FinishTerminate
    BY <2>2 DEF FinishTerminate, taskVars
  <2> QED
    BY <2>1, <2>2
<1>0. main'.pc = "idle"
  BY <1>1 DEF Idle
<1>2. cur \in OpNum
  BY DEF FinishInstantiate, FinishTerminate, Running, NeededInv, Numbered
<1>3. \A n \in OpNum : ops'[n].kind = ops[n].kind
  <2>1. ops \in [OpNum -> OpType]
    BY DEF NeededInv, TypeOK
  <2>2. PICK failed : ops' = Outcome(failed)
    BY DEF FinishInstantiate, FinishTerminate
  <2>3. ops' = [ops EXCEPT ![cur].state = IF failed THEN "FAILED"
                                                    ELSE "COMPLETED"]
    BY <2>2 DEF Outcome
  <2> QED
    BY <1>2, <2>1, <2>3 DEF OpType
<1>4. Waited
  BY DEF FinishInstantiate, FinishTerminate, TerminateWaited
<1>5. late' = {} => late = {} /\ ~AnyPending(cur)
  BY <1>4 DEF Waited
<1>6. NotBegun'
  BY <1>1 DEF NeededInv, NotBegun
<1>7. KindsAgree'
  BY <1>0, <1>1, <1>3 DEF NeededInv, KindsAgree, Deploying, Undeploying
<1>8. Recorded'
  BY <1>1 DEF NeededInv, Recorded, DestroysEe, Type
<1>9. Alone'
  BY <1>0, <1>1, <1>5 DEF NeededInv, Alone, AnyPending, PendingVcas
<1>10. PrimitivesFirst'
  BY <1>0 DEF PrimitivesFirst
<1>11. NoneNeeded'
  BY <1>0, <1>1, <1>5 DEF NeededInv, NoneNeeded
<1> QED
  BY <1>6, <1>7, <1>8, <1>9, <1>10, <1>11 DEF NeededInv

\* Everything is removed at once: the primitives have been executed.
LEMMA DeleteAllKeeps ==
    ASSUME NeededInv, TypeOK', Numbered', DeleteAll
    PROVE  NeededInv'
<1>1. /\ cur \in OpNum /\ main.pc = "prims" /\ PrimitivesEnded /\ ~PrimitivesFailed
      /\ UNCHANGED <<nsd, cur, ops, vt, late>>
  BY DEF DeleteAll, NeededInv, Numbered
<1>2. Undeploying(cur) /\ ~Deploying(cur)
  BY <1>1 DEF NeededInv, KindsAgree, Deploying, Undeploying
<1>3. late = {} => \A v \in Vca : ~vca[v].needed
  BY <1>1, <1>2 DEF NeededInv, PrimitivesFirst, PrimitivesEnded, PrimitivesFailed,
     PendingVcas, Pending, Unfinished, Ended
<1>4. \A v \in Vca : vca'[v].needed = vca[v].needed /\ vca'[v].ee = vca[v].ee
  <2>1. vca \in [Vca -> VcaType]
    BY DEF NeededInv, TypeOK
  <2>2. \/ vca' = vca
        \/ vca' = [v \in Vca |->
                     IF copy.vca[v].status = "none" THEN vca[v]
                     ELSE [vca[v] EXCEPT !.status = "TERMINATING"]]
    BY DEF DeleteAll
  <2> QED
    BY <2>1, <2>2 DEF VcaType
<1>5. \A n \in OpNum : dt'[n] = dt[n] \/ n = cur
  BY DEF DeleteAll, NeededInv, TypeOK
<1>6. main'.pc \in {"spaces", "wait"}
  <2>1. main \in [pc : MainPcs, exc : BOOLEAN, todo : SUBSET Kdu]
    BY DEF NeededInv, TypeOK, MainType
  <2>2. \/ main' = [main EXCEPT !.pc = "spaces"]
        \/ main' = [main EXCEPT !.pc = "wait"]
    BY DEF DeleteAll, LaunchRest
  <2> QED
    BY <2>1, <2>2
<1>7. ~(cur > cur)
  BY DEF NeededInv, TypeOK
<1>8. NotBegun'
  BY <1>1, <1>5, <1>7 DEF NeededInv, NotBegun
<1>9. KindsAgree'
  BY <1>1, <1>2, <1>5, <1>6 DEF NeededInv, KindsAgree, Deploying, Undeploying
<1>10. Recorded'
  BY <1>1, <1>4 DEF NeededInv, Recorded, DestroysEe, Type
<1>11. Alone'
  BY <1>1, <1>5, <1>6 DEF NeededInv, Alone
<1>12. PrimitivesFirst'
  BY <1>1, <1>3, <1>4 DEF PrimitivesFirst
<1>13. NoneNeeded'
  BY <1>1, <1>3, <1>4 DEF NoneNeeded
<1> QED
  BY <1>8, <1>9, <1>10, <1>11, <1>12, <1>13 DEF NeededInv

LEMMA MainKeeps ==
    ASSUME NeededInv, TypeOK', Numbered', MainStep
    PROVE  NeededInv'
<1> USE DEF recVars, extVars, taskVars
<1>1. main \in [pc : MainPcs, exc : BOOLEAN, todo : SUBSET Kdu]
  BY DEF NeededInv, TypeOK, MainType
<1>2. main.pc # "idle" => cur \in OpNum
  BY DEF NeededInv, Numbered
<1>3. ASSUME NEW k \in Kdu, DeployKdu(k) PROVE NeededInv'
  BY <1>1, <1>3, FrameKeeps DEF DeployKdu, NeededFrame
<1>4. CASE PreparationFails
  <2>1. main.pc # "idle" /\ main'.pc = "wait"
    BY <1>4 DEF PreparationFails
  <2> QED
    BY <1>4, <2>1, MovesOnKeeps DEF PreparationFails
<1>5. CASE SpacesFail
  <2>1. main.pc # "idle" /\ main'.pc = "wait"
    BY <1>1, <1>5 DEF SpacesFail
  <2> QED
    BY <1>5, <2>1, MovesOnKeeps DEF SpacesFail
<1>6. CASE DeleteSpaces
  <2>1. main.pc # "idle" /\ main'.pc = "wait"
    BY <1>1, <1>6 DEF DeleteSpaces, LaunchRest
  <2> QED
    BY <1>6, <2>1, MovesOnKeeps DEF DeleteSpaces
<1>7. CASE LaunchRo
  <2>1. main.pc = "kdus" /\ Deploying(cur)
    BY <1>7 DEF LaunchRo, NeededInv, KindsAgree
  <2>2. CASE HasHelm
    <3>1. main'.pc = "certs"
      BY <1>1, <1>7, <2>2 DEF LaunchRo
    <3> QED
      BY <1>7, <2>1, <2>2, <3>1, MovesOnKeeps DEF LaunchRo
  <2>3. CASE ~HasHelm
    <3>1. main'.pc = "wait"
      BY <1>1, <1>7, <2>3 DEF LaunchRo
    <3> QED
      BY <1>2, <1>7, <2>1, <2>3, <3>1, LaunchKeeps DEF LaunchRo
  <2> QED
    BY <2>2, <2>3
<1>8. CASE LaunchHelm
  <2>1. main.pc = "certs" /\ main'.pc = "wait"
    BY <1>1, <1>8 DEF LaunchHelm
  <2> QED
    BY <1>2, <1>8, <2>1, LaunchKeeps DEF LaunchHelm
<1> QED
  BY <1>3, <1>4, <1>5, <1>6, <1>7, <1>8, StartsKeep, FinishKeeps, DeleteAllKeeps
     DEF MainStep

\* A cancel ends tasks of one operation.
LEMMA CancelThoseKeep ==
    ASSUME NeededInv, TypeOK', Numbered', NEW n \in OpNum, CancelsThose(n),
           UNCHANGED <<nsd, cur, vca, late>>, main'.pc = main.pc,
           \A m \in OpNum : ops'[m].kind = ops[m].kind
    PROVE  NeededInv'
<1>1. \A m \in OpNum : /\ dt'[m] \in {dt[m], Cancelled(dt[m])}
                       /\ \A v \in Vca : vt'[m][v] \in {vt[m][v], Cancelled(vt[m][v])}
  <2>1. PICK V \in SUBSET Vca, K \in SUBSET Kdu, rest \in BOOLEAN :
                 CancelThose(n, V, K, rest)
    BY DEF CancelsThose
  <2> QED
    BY <2>1 DEF CancelThose, NeededInv, TypeOK
<1>2. \A m \in OpNum :
          /\ \/ dt'[m] = dt[m]
             \/ Pending(dt[m]) /\ dt'[m] = "cancelled"
          /\ \A v \in Vca : \/ vt'[m][v] = vt[m][v]
                            \/ Pending(vt[m][v]) /\ vt'[m][v] = "cancelled"
  BY <1>1 DEF Cancelled
<1>3. ~Pending("cancelled") /\ ~Pending("off") /\ "cancelled" \notin DeployPcs
  BY DEF Pending, Ended, DeployPcs, Created
<1>4. NotBegun'
  BY <1>2, <1>3 DEF NeededInv, NotBegun
<1>5. KindsAgree'
  <2>1. main.pc # "idle" => cur \in OpNum
    BY DEF NeededInv, Numbered
  <2> QED
    BY <1>2, <1>3, <2>1 DEF NeededInv, KindsAgree, Deploying, Undeploying
<1>6. Recorded'
  BY <1>2, <1>3 DEF NeededInv, Recorded, DestroysEe, Type, Created
<1>7. Alone'
  BY <1>2, <1>3 DEF NeededInv, Alone
<1>8. PrimitivesFirst'
  BY <1>2 DEF NeededInv, PrimitivesFirst, Undeploying, Numbered
<1>9. NoneNeeded'
  BY <1>2 DEF NeededInv, NoneNeeded
<1> QED
  BY <1>4, <1>5, <1>6, <1>7, <1>8, <1>9 DEF NeededInv

LEMMA CancelKeeps ==
    ASSUME NeededInv, TypeOK', Numbered', CancelStep
    PROVE  NeededInv'
<1> USE DEF recVars, extVars
<1>1. CASE CancelSend
  BY <1>1, FrameKeeps DEF CancelSend, NeededFrame, taskVars
<1>2. CASE CancelMain
  <2>1. main.pc # "idle" /\ cur \in OpNum /\ main'.pc = "wait"
    BY <1>2 DEF CancelMain, NeededInv, Numbered
  <2>2. CASE main.pc = "wait"
    BY <1>2, <2>1, <2>2, CancelReaches, CancelThoseKeep DEF CancelMain
  <2>3. CASE main.pc # "wait"
    BY <1>2, <2>1, <2>3, MovesOnKeeps DEF CancelMain, taskVars
  <2> QED
    BY <2>2, <2>3
<1>3. CASE CancelEnd
  <2>1. creq.op \in OpNum
    BY <1>3 DEF CancelEnd, NeededInv, Numbered
  <2>2. \A m \in OpNum : ops'[m].kind = ops[m].kind
    <3>1. ops \in [OpNum -> OpType]
      BY DEF NeededInv, TypeOK
    <3>2. \/ ops' = ops
          \/ ops' = [ops EXCEPT ![creq.op].state = "FAILED_TEMP"]
      BY <1>3 DEF CancelEnd
    <3> QED
      BY <2>1, <3>1, <3>2 DEF OpType
  <2>3. UNCHANGED <<nsd, vca, cur, main, late>>
    BY <1>3 DEF CancelEnd
  <2>4. CASE UNCHANGED taskVars
    BY <2>2, <2>3, <2>4, FrameKeeps DEF NeededFrame, taskVars
  <2>5. CASE CancelsThose(creq.op)
    BY <2>1, <2>2, <2>3, <2>5, CancelThoseKeep
  <2> QED
    BY <1>3, <2>1, <2>4, <2>5, CancelReaches DEF CancelEnd
<1> QED
  BY <1>1, <1>2, <1>3 DEF CancelStep

LEMMA NeededKept ==
    ASSUME NeededInv, [Next]_vars PROVE NeededInv'
<1>1. TypeOK' /\ Numbered'
  BY TypesKept DEF NeededInv
<1>2. CASE VmReport
  BY <1>1, <1>2, FrameKeeps DEF VmReport, NeededFrame, extVars, taskVars
<1>3. CASE UNCHANGED vars
  BY <1>1, <1>3, FrameKeeps
     DEF vars, recVars, extVars, taskVars, NeededFrame
<1> QED
  BY <1>1, <1>2, <1>3, MainKeeps, CancelKeeps, OtherTasksKeep DEF Next

LEMMA NeededInit == ASSUME Init PROVE NeededInv
<1>1. TypeOK /\ Numbered
  BY InitTypes DEF Init, Numbered, Idle
<1>2. main.pc = "idle" /\ \A n \in OpNum : dt[n] = "off" /\ \A v \in Vca : vt[n][v] = "off"
  BY DEF Init, Idle
<1>3. \A v \in Vca : ~vca[v].needed
  BY DEF Init, NoVca
<1>4. NotBegun /\ Alone /\ PrimitivesFirst /\ NoneNeeded
  BY <1>2, <1>3 DEF NotBegun, Alone, PrimitivesFirst, NoneNeeded, Pending
<1>5. KindsAgree /\ Recorded
  BY <1>2, <1>3 DEF KindsAgree, Recorded, DeployPcs, Created
<1> QED
  BY <1>1, <1>4, <1>5 DEF NeededInv

\* The steps that remove environments.
LEMMA RemovalsAreLate ==
    ASSUME NativeApart, NeededInv, [Next]_vars
    PROVE  \A v \in env \ env' : vca[v].needed => late # {}
<1> SUFFICES ASSUME NEW w \in env \ env', vca[w].needed, late = {}
             PROVE  FALSE
  OBVIOUS
<1>0. w \in Vca
  BY DEF NeededInv, TypeOK
<1>1. w \in nsd.terminate /\ nsd \in Descriptors
  BY <1>0 DEF NeededInv, Recorded, TypeOK
<1>6. ~(env \subseteq env')
  OBVIOUS
<1>2. \/ DeleteSpaces
      \/ \E n \in OpNum : DeleteAllDone(n) \/ \E v \in Vca : DestroyEe(n, v)
  <2> USE DEF recVars, extVars, VcaFrame
  <2>1. MainStep => DeleteSpaces
    BY <1>6 DEF MainStep, StartInstantiate, StartTerminate, DeployKdu,
       PreparationFails, LaunchRo, LaunchHelm, FinishInstantiate, DeleteAll,
       SpacesFail, FinishTerminate
  <2>2. ~UNCHANGED vars /\ ~VmReport
    BY <1>6 DEF vars, VmReport
  <2>3. ~CancelStep
    BY <1>6 DEF CancelStep, CancelSend, CancelMain, CancelEnd, CancelTasks,
       CancelUpToFailed, CancelThose
  <2>4. ASSUME NEW n \in OpNum, TaskStep(n)
        PROVE  DeleteAllDone(n) \/ \E v \in Vca : DestroyEe(n, v)
    <3>1. ~RoDone(n) /\ ~RoFails(n) /\ ~DeleteAllFails(n) /\ ~RoDelete(n)
      BY <1>6 DEF RoDone, RoFails, DeleteAllFails, RoDelete
    <3>2. \A k \in Kdu : ~KduDone(n, k) /\ ~KduFails(n, k) /\ ~Uninstall(n, k)
      BY <1>6 DEF KduDone, KduFails, Uninstall
    <3>3. \A v \in Vca : ~VcaStep(n, v)
      BY <1>6 DEF VcaStep, Boot, Create, InstallSw, Relate, VmUp, Depend,
         FirstPrimitive, MorePrimitives
    <3>4. \A v \in Vca : /\ ~VcaFails(n, v) /\ ~DestroyPrimitive(n, v)
                         /\ ~DestroyFails(n, v)
      BY <1>6 DEF VcaFails, DestroyPrimitive, DestroyFails
    <3> QED
      BY <2>4, <3>1, <3>2, <3>3, <3>4 DEF TaskStep
  <2> QED
    BY <2>1, <2>2, <2>3, <2>4 DEF Next
<1>3. CASE DeleteSpaces
  BY <1>0, <1>3 DEF DeleteSpaces, NeededInv, NoneNeeded
<1>4. ASSUME NEW n \in OpNum, DeleteAllDone(n) PROVE FALSE
  BY <1>0, <1>4 DEF DeleteAllDone, NeededInv, NoneNeeded
<1>5. ASSUME NEW n \in OpNum, NEW v \in Vca, DestroyEe(n, v) PROVE FALSE
  <2>1. vt[n][v] = "destroy" /\ DestroysEe(v) /\ Undeploying(n)
    BY <1>5 DEF DestroyEe, NeededInv, Recorded, KindsAgree
  <2>2. n = cur /\ main.pc # "idle"
    BY <2>1 DEF NeededInv, Alone, Pending, Ended
  <2>3. vt[n][w] # "destroy"
    BY <1>0, <2>1, <2>2 DEF NeededInv, PrimitivesFirst
  <2>4. CASE Type(v) = "helm"
    BY <1>5, <2>1, <2>3, <2>4 DEF DestroyEe
  <2>5. CASE Type(v) = "native"
    <3>1. SharesModel(w)
      BY <1>5, <2>5 DEF DestroyEe
    <3>2. nsd.type[w] \in {"helm", "k8s"}
      BY <1>1, <2>5 DEF NativeApart, Type
    <3> QED
      BY <3>1, <3>2 DEF Type, SharesModel
  <2> QED
    BY <2>1, <2>4, <2>5 DEF DestroysEe
<1> QED
  BY <1>2, <1>3, <1>4, <1>5

\* No environment is removed before the terminate primitives it needs were
\* executed, whatever fails or is cancelled, unless a timeout left tasks behind
\* (terminate, destroy_N2VC).
THEOREM NeededPrimitivesRun ==
    ASSUME NativeApart PROVE Spec => NeededRuns
<1>1. Init => NeededInv
  BY NeededInit
<1>2. NeededInv /\ [Next]_vars => NeededInv'
  BY NeededKept
<1>3. NeededInv /\ [Next]_vars =>
          [\A v \in env \ env' : vca[v].needed => late # {}]_vars
  BY RemovalsAreLate
<1> QED
  BY <1>1, <1>2, <1>3, PTL DEF Spec, NeededRuns
=============================================================================
