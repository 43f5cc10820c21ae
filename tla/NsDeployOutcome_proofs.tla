----------------------- MODULE NsDeployOutcome_proofs -----------------------
(***************************************************************************)
(* Theorems about what the outcome of an operation of NsDeploy means, for  *)
(* every descriptor and every bound.                                       *)
(***************************************************************************)
EXTENDS NsDeploy_proofs

-----------------------------------------------------------------------------
(* What a step does, field by field.                                        *)

\* The tasks for KDUs, the VIM and the deletion have no intermediate awaits.
Simple == {"off", "work"} \cup Ended

\* A task moves on, or not: it was at work, and it is never unmade.
Moves(old, new) == new = old \/ (Pending(old) /\ new # "off")

TasksMove ==
    \A n \in OpNum :
        /\ Moves(rt[n], rt'[n]) /\ Moves(dt[n], dt'[n])
        /\ rt[n] \in Simple => rt'[n] \in Simple
        /\ dt[n] \in Simple => dt'[n] \in Simple
        /\ \A v \in Vca : Moves(vt[n][v], vt'[n][v])
        /\ \A k \in Kdu : /\ Moves(kt[n][k], kt'[n][k])
                          /\ kt[n][k] \in Simple => kt'[n][k] \in Simple

\* Where the environment of a task exists, and where its software does.
Existing == Created \cup {"done"}
Installed == Existing \ {"install"}

\* A step of instantiate_N2VC.
Deploys(n, v) ==
    /\ VcaFrame
    /\ vt[n][v] \in DeployPcs
    /\ vt'[n][v] \in DeployPcs \cup {"done", "failed"}
    /\ \A m \in OpNum, w \in Vca : m # n \/ w # v => vt'[m][w] = vt[m][w]
    /\ \A w \in Vca : w # v => vca'[w] = vca[w]
    /\ vca'[v].known = vca[v].known /\ (vca[v].ee => vca'[v].ee)
    /\ vca[v].sw => vca'[v].sw
    /\ env \subseteq env' /\ env' \subseteq env \cup {v}
    /\ vt'[n][v] \in Existing => v \in env' \/ vt[n][v] \in Existing
    /\ vt'[n][v] \in Installed => vca'[v].sw \/ vt[n][v] \in Installed
    /\ vca'[v].sw => \/ vca[v].sw
                     \/ vt[n][v] = "install" \/ v \in env'
    /\ vca'[v].status = "READY" =>
          vt'[n][v] = "done" \/ vca[v].status = "READY"
    /\ vt'[n][v] = "done" => vca'[v].status = "READY"
    /\ vt'[n][v] = "failed" => Hopeless(n, v) \/ faults' > 0
    /\ vca'[v].needed => vca[v].needed \/ vt[n][v] = "first"
    /\ vt'[n][v] \in {"first", "more"} =>
          vt[n][v] = "first" \/ DependenciesReady(v)
    /\ faults <= faults'

\* A step of destroy_N2VC.
Removes(n, v) ==
    /\ VcaFrame
    /\ vt[n][v] \in {"last", "destroy"}
    /\ vt'[n][v] \in {"destroy", "done", "failed"}
    /\ \A m \in OpNum, w \in Vca : m # n \/ w # v => vt'[m][w] = vt[m][w]
    /\ \A w \in Vca : /\ vca'[w].known = vca[w].known
                      /\ vca'[w].status = vca[w].status
                      /\ vca'[w].sw = vca[w].sw /\ vca'[w].ee = vca[w].ee
                      /\ vca'[w].needed => vca[w].needed
                      /\ w # v => vca'[w] = vca[w]
    /\ env' \subseteq env
    /\ vt'[n][v] = "failed" =>
          faults' > 0 \/ (vt[n][v] = "last" /\ v \notin env)
    /\ faults <= faults'

LEMMA FaultCounts == ASSUME TypeOK, Fault PROVE faults' > 0 /\ faults <= faults'
BY DEF TypeOK, Fault

LEMMA DeployEffect ==
    ASSUME NeededInv, NEW n \in OpNum, NEW v \in Vca,
           VcaStep(n, v) \/ VcaFails(n, v)
    PROVE  Deploys(n, v)
<1>1. \A m \in OpNum : \A w \in Vca : vca[w] \in VcaType
  BY DEF NeededInv, TypeOK
<1>0. vca \in [Vca -> VcaType] /\ TypeOK /\ faults \in Nat
  BY DEF NeededInv, TypeOK
<1>2. ASSUME NEW pc, SetVt(n, v, pc)
      PROVE  /\ vt'[n][v] = pc
             /\ \A m \in OpNum, w \in Vca : m # n \/ w # v => vt'[m][w] = vt[m][w]
  BY <1>0, <1>2, VtAfter
<1>3. ASSUME NEW s, vca' = [vca EXCEPT ![v].status = s]
      PROVE  /\ \A w \in Vca : w # v => vca'[w] = vca[w]
             /\ vca'[v].known = vca[v].known /\ vca'[v].ee = vca[v].ee
             /\ vca'[v].sw = vca[v].sw /\ vca'[v].needed = vca[v].needed
             /\ vca'[v].status = s
  BY <1>0, <1>3 DEF VcaType
<1>4. UNCHANGED faults => faults <= faults'
  BY <1>0
<1> USE DEF Deploys, DeployPcs, Existing, Installed, Created
<1>5. CASE Boot(n, v)
  BY <1>2, <1>3, <1>4, <1>5 DEF Boot
<1>6. CASE Create(n, v)
  <2>1. /\ \A w \in Vca : w # v => vca'[w] = vca[w]
        /\ vca'[v].known = vca[v].known /\ vca'[v].ee
        /\ vca'[v].sw = (vca[v].sw \/ Type(v) = "k8s")
        /\ vca'[v].needed = vca[v].needed
        /\ vca'[v].status = "INSTALLING SW"
    BY <1>0, <1>6 DEF Create, VcaType
  <2>2. /\ vt'[n][v] = IF Type(v) = "k8s" THEN "relate" ELSE "install"
        /\ \A m \in OpNum, w \in Vca : m # n \/ w # v => vt'[m][w] = vt[m][w]
    BY <1>2, <1>6 DEF Create
  <2>3. v \in env' /\ vt[n][v] = "create" /\ env' = env \cup {v}
        /\ faults' = faults /\ VcaFrame
    BY <1>6 DEF Create
  <2> QED
    BY <1>4, <2>1, <2>2, <2>3
<1>7. CASE InstallSw(n, v)
  <2>1. /\ \A w \in Vca : w # v => vca'[w] = vca[w]
        /\ vca'[v].known = vca[v].known /\ vca'[v].ee = vca[v].ee
        /\ vca'[v].sw /\ vca'[v].needed = vca[v].needed
        /\ vca'[v].status = vca[v].status
    BY <1>0, <1>7 DEF InstallSw, VcaType
  <2> QED
    BY <1>2, <1>4, <1>7, <2>1 DEF InstallSw
<1>8. CASE Relate(n, v)
  BY <1>2, <1>4, <1>8 DEF Relate
<1>9. CASE VmUp(n, v)
  BY <1>2, <1>4, <1>9 DEF VmUp
<1>10. CASE Depend(n, v)
  <2>1. /\ \A w \in Vca : w # v => vca'[w] = vca[w]
        /\ vca'[v].known = vca[v].known /\ vca'[v].ee = vca[v].ee
        /\ vca'[v].sw = vca[v].sw /\ vca'[v].needed = vca[v].needed
        /\ vca'[v].status = IF v \in nsd.initial THEN "EXECUTING PRIMITIVE"
                                                 ELSE "READY"
    BY <1>3, <1>10 DEF Depend
  <2>2. /\ vt'[n][v] = IF v \in nsd.initial THEN "first" ELSE "done"
        /\ \A m \in OpNum, w \in Vca : m # n \/ w # v => vt'[m][w] = vt[m][w]
    BY <1>2, <1>10 DEF Depend
  <2> QED
    BY <1>4, <1>10, <2>1, <2>2 DEF Depend
<1>11. CASE FirstPrimitive(n, v)
  <2>1. /\ \A w \in Vca : w # v => vca'[w] = vca[w]
        /\ vca'[v].known = vca[v].known /\ vca'[v].ee = vca[v].ee
        /\ vca'[v].sw = vca[v].sw
        /\ vca'[v].status = vca[v].status
    BY <1>0, <1>11 DEF FirstPrimitive, VcaType
  <2> QED
    BY <1>2, <1>4, <1>11, <2>1 DEF FirstPrimitive
<1>12. CASE MorePrimitives(n, v)
  <2>1. /\ \A w \in Vca : w # v => vca'[w] = vca[w]
        /\ vca'[v].known = vca[v].known /\ vca'[v].ee = vca[v].ee
        /\ vca'[v].sw = vca[v].sw /\ vca'[v].needed = vca[v].needed
        /\ vca'[v].status = "READY"
    BY <1>3, <1>12 DEF MorePrimitives
  <2>2. /\ vt'[n][v] = "done"
        /\ \A m \in OpNum, w \in Vca : m # n \/ w # v => vt'[m][w] = vt[m][w]
    BY <1>2, <1>12 DEF MorePrimitives
  <2> QED
    BY <1>4, <1>12, <2>1, <2>2 DEF MorePrimitives
<1>13. CASE VcaFails(n, v)
  <2>1. vt[n][v] \in DeployPcs
    <3>1. vt[n][v] \in Pcs /\ Pending(vt[n][v]) /\ Deploying(n)
      BY <1>13 DEF VcaFails, NeededInv, TypeOK
    <3>2. vt[n][v] \notin {"last", "destroy"}
      BY <3>1 DEF NeededInv, KindsAgree, Deploying, Undeploying
    <3>3. vt[n][v] # "work"
      BY DEF NeededInv, Recorded
    <3> QED
      BY <3>1, <3>2, <3>3 DEF Pcs, Pending, Ended
  <2>2. (Hopeless(n, v) /\ faults' = faults) \/ (faults' > 0 /\ faults <= faults')
    BY <1>0, <1>13, FaultCounts DEF VcaFails
  <2>3. env \subseteq env' /\ env' \subseteq env \cup {v} /\ VcaFrame
    BY <1>13 DEF VcaFails
  <2>4. vt'[n][v] = "failed" /\ vca' = [vca EXCEPT ![v].status = "BROKEN"]
        /\ \A m \in OpNum, w \in Vca : m # n \/ w # v => vt'[m][w] = vt[m][w]
    BY <1>2, <1>13 DEF VcaFails
  <2>5. /\ \A w \in Vca : w # v => vca'[w] = vca[w]
        /\ vca'[v].known = vca[v].known /\ vca'[v].ee = vca[v].ee
        /\ vca'[v].sw = vca[v].sw /\ vca'[v].needed = vca[v].needed
        /\ vca'[v].status = "BROKEN"
    BY <1>3, <2>4
  <2>6. faults <= faults' /\ (Hopeless(n, v) \/ faults' > 0)
    BY <1>0, <2>2
  <2> QED
    BY <2>1, <2>3, <2>4, <2>5, <2>6
<1> QED
  BY <1>5, <1>6, <1>7, <1>8, <1>9, <1>10, <1>11, <1>12, <1>13 DEF VcaStep

LEMMA RemoveEffect ==
    ASSUME NeededInv, NEW n \in OpNum, NEW v \in Vca,
           DestroyPrimitive(n, v) \/ DestroyEe(n, v) \/ DestroyFails(n, v)
    PROVE  Removes(n, v)
<1>0. vca \in [Vca -> VcaType] /\ TypeOK /\ faults \in Nat
  BY DEF NeededInv, TypeOK
<1>2. ASSUME NEW pc, SetVt(n, v, pc)
      PROVE  /\ vt'[n][v] = pc
             /\ \A m \in OpNum, w \in Vca : m # n \/ w # v => vt'[m][w] = vt[m][w]
  BY <1>0, <1>2, VtAfter
<1>4. UNCHANGED faults => faults <= faults'
  BY <1>0
<1>5. CASE DestroyPrimitive(n, v)
  <2>1. \A w \in Vca : /\ vca'[w].known = vca[w].known
                       /\ vca'[w].status = vca[w].status
                       /\ vca'[w].sw = vca[w].sw /\ vca'[w].ee = vca[w].ee
                       /\ vca'[w].needed => vca[w].needed
                       /\ w # v => vca'[w] = vca[w]
    BY <1>0, <1>5 DEF DestroyPrimitive, VcaType
  <2>2. AfterPrimitives(v) \in {"destroy", "done"}
    BY DEF AfterPrimitives
  <2> QED
    BY <1>2, <1>4, <1>5, <2>1, <2>2 DEF DestroyPrimitive, Removes
<1>6. CASE DestroyEe(n, v)
  BY <1>2, <1>4, <1>6 DEF DestroyEe, Removes
<1>7. CASE DestroyFails(n, v)
  BY <1>0, <1>2, <1>4, <1>7, FaultCounts DEF DestroyFails, Removes
<1> QED
  BY <1>5, <1>6, <1>7

\* A step of the task for a KDU.
KduMoves(n, k) ==
    /\ UNCHANGED <<nsd, nsr, vca, vnfr, env, vim, cur, ops, main, copy, vt, rt,
                   dt, creq, late>>
    /\ kt[n][k] = "work" /\ kt'[n][k] \in {"done", "failed"}
    /\ \A m \in OpNum, j \in Kdu : m # n \/ j # k => kt'[m][j] = kt[m][j]
    /\ \A j \in Kdu : /\ kdu'[j].instance = kdu[j].instance
                      /\ j # k => kdu'[j] = kdu[j]
    /\ \/ /\ Deploying(n)
          /\ release \subseteq release' /\ release' \subseteq release \cup {k}
          /\ kt'[n][k] = "done" => kdu'[k].status = "READY" /\ k \in release'
       \/ /\ Undeploying(n)
          /\ release' \subseteq release
          /\ kt'[n][k] = "done" => k \notin release'
    /\ kt'[n][k] = "failed" => faults' > 0
    /\ kdu'[k].status = "ERROR" => kdu[k].status = "ERROR" \/ faults' > 0
    /\ faults <= faults'

\* A step of the task for the VIM.
RoMoves(n) ==
    /\ UNCHANGED <<nsd, nsr, vca, kdu, env, release, cur, ops, main, copy, vt,
                   kt, dt, creq, late>>
    /\ rt[n] = "work" /\ rt'[n] \in {"done", "failed"}
    /\ \A m \in OpNum : m # n => rt'[m] = rt[m]
    /\ vim' => vim
    /\ \/ /\ Deploying(n) /\ vnfr'.vm = vnfr.vm
          /\ rt'[n] = "done" => vnfr'.vm = "ACTIVE" /\ vim' = vim
       \/ /\ Undeploying(n) /\ vnfr'.vm \in {vnfr.vm, "none"}
          /\ rt'[n] = "done" => ~vim'
    /\ rt'[n] = "failed" => vnfr.vm = "ERROR" \/ faults' > 0
    /\ vnfr'.error => vnfr.error \/ rt'[n] = "failed"
    /\ faults <= faults'

\* A step of _delete_all_N2VC.
DeleteMoves(n) ==
    /\ UNCHANGED <<nsd, nsr, kdu, vnfr, release, vim, cur, ops, main, copy, vt,
                   kt, rt, creq, late>>
    /\ dt[n] = "work" /\ dt'[n] \in {"done", "failed"}
    /\ \A m \in OpNum : m # n => dt'[m] = dt[m]
    /\ env' \subseteq env
    /\ \A v \in Vca : /\ vca'[v].known = vca[v].known
                      /\ vca'[v].sw = vca[v].sw /\ vca'[v].ee = vca[v].ee
                      /\ vca'[v].needed = vca[v].needed
                      /\ vca'[v].status = "READY" => vca[v].status = "READY"
                      /\ vca[v].status = "none" => vca'[v].status = "none"
    /\ dt'[n] = "done" => /\ \A v \in env' : Type(v) \notin Juju
                          /\ \A v \in Vca : vca'[v].status # "READY"
    /\ dt'[n] = "failed" => faults' > 0
    /\ faults <= faults'

\* What every step of a task does, and leaves alone.
TaskEffect(n) ==
    \/ \E v \in Vca : Deploys(n, v) \/ Removes(n, v)
    \/ \E k \in Kdu : KduMoves(n, k)
    \/ RoMoves(n) \/ DeleteMoves(n)

LEMMA KduEffect ==
    ASSUME NeededInv, NEW n \in OpNum, NEW k \in Kdu,
           KduDone(n, k) \/ KduFails(n, k) \/ Uninstall(n, k)
    PROVE  KduMoves(n, k)
<1>0. /\ kdu \in [Kdu -> KduType] /\ TypeOK /\ faults \in Nat
      /\ kt \in [OpNum -> [Kdu -> Pcs]]
  BY DEF NeededInv, TypeOK
<1>1. ASSUME NEW pc, kt' = [kt EXCEPT ![n][k] = pc]
      PROVE  /\ kt'[n][k] = pc
             /\ \A m \in OpNum, j \in Kdu : m # n \/ j # k => kt'[m][j] = kt[m][j]
  BY <1>0, <1>1
<1>2. ASSUME NEW s, kdu' = [kdu EXCEPT ![k].status = s]
      PROVE  /\ \A j \in Kdu : /\ kdu'[j].instance = kdu[j].instance
                               /\ j # k => kdu'[j] = kdu[j]
             /\ kdu'[k].status = s
  BY <1>0, <1>2 DEF KduType
<1>3. faults' = faults => faults <= faults'
  BY <1>0
<1>4. CASE KduDone(n, k)
  <2>1. /\ kt'[n][k] = "done"
        /\ \A m \in OpNum, j \in Kdu : m # n \/ j # k => kt'[m][j] = kt[m][j]
    BY <1>1, <1>4 DEF KduDone
  <2>2. /\ \A j \in Kdu : /\ kdu'[j].instance = kdu[j].instance
                          /\ j # k => kdu'[j] = kdu[j]
        /\ kdu'[k].status = "READY"
    BY <1>2, <1>4 DEF KduDone
  <2>3. faults <= faults'
    BY <1>3, <1>4 DEF KduDone
  <2> QED
    BY <1>4, <2>1, <2>2, <2>3 DEF KduDone, KduMoves
<1>5. CASE KduFails(n, k)
  <2>1. faults' > 0 /\ faults <= faults'
    BY <1>0, <1>5, FaultCounts DEF KduFails
  <2> QED
    <3>1. /\ kt'[n][k] = "failed"
          /\ \A m \in OpNum, j \in Kdu : m # n \/ j # k => kt'[m][j] = kt[m][j]
      BY <1>1, <1>5 DEF KduFails
    <3>2. \A j \in Kdu : /\ kdu'[j].instance = kdu[j].instance
                         /\ j # k => kdu'[j] = kdu[j]
      BY <1>2, <1>5 DEF KduFails
    <3> QED
      BY <1>5, <2>1, <3>1, <3>2 DEF KduFails, KduMoves
<1>6. CASE Uninstall(n, k)
  <2>1. \/ /\ kt' = [kt EXCEPT ![n][k] = "done"]
           /\ release' = release \ {k}
           /\ faults <= faults'
        \/ /\ kt' = [kt EXCEPT ![n][k] = "failed"]
           /\ faults' > 0 /\ faults <= faults' /\ release' = release
    BY <1>0, <1>3, <1>6, FaultCounts DEF Uninstall
  <2>2. kdu' = kdu /\ Undeploying(n) /\ kt[n][k] = "work"
    BY <1>6 DEF Uninstall, recVars
  <2> QED
    BY <1>1, <1>6, <2>1, <2>2 DEF Uninstall, KduMoves, recVars
<1> QED
  BY <1>4, <1>5, <1>6

LEMMA RoEffect ==
    ASSUME NeededInv, NEW n \in OpNum, RoDone(n) \/ RoFails(n) \/ RoDelete(n)
    PROVE  RoMoves(n)
<1>0. /\ vnfr \in VnfrType /\ TypeOK /\ faults \in Nat
      /\ rt \in [OpNum -> Pcs] /\ vim \in BOOLEAN
  BY DEF NeededInv, TypeOK
<1>1. ASSUME NEW pc, rt' = [rt EXCEPT ![n] = pc]
      PROVE  rt'[n] = pc /\ \A m \in OpNum : m # n => rt'[m] = rt[m]
  BY <1>0, <1>1
<1>3. faults' = faults => faults <= faults'
  BY <1>0
<1>4. CASE RoDone(n)
  BY <1>1, <1>3, <1>4 DEF RoDone, RoMoves, recVars, extVars
<1>5. CASE RoFails(n)
  <2>1. (vnfr.vm = "ERROR" /\ faults' = faults) \/ (faults' > 0 /\ faults <= faults')
    BY <1>0, <1>5, FaultCounts DEF RoFails
  <2>2. vnfr'.vm = vnfr.vm
    BY <1>0, <1>5 DEF RoFails, VnfrType
  <2>3. vim' => vim
    BY <1>5 DEF RoFails
  <2> QED
    BY <1>1, <1>3, <1>5, <2>1, <2>2, <2>3 DEF RoFails, RoMoves
<1>6. CASE RoDelete(n)
  <2>1. \/ /\ rt' = [rt EXCEPT ![n] = "done"]
           /\ ~vim' /\ vnfr'.vm = "none" /\ vnfr'.error = vnfr.error
           /\ faults <= faults'
        \/ /\ rt' = [rt EXCEPT ![n] = "failed"]
           /\ faults' > 0 /\ faults <= faults' /\ vim' = vim /\ vnfr' = vnfr
    BY <1>0, <1>3, <1>6, FaultCounts DEF RoDelete, VnfrType
  <2>2. Undeploying(n) /\ rt[n] = "work"
    BY <1>6 DEF RoDelete
  <2> QED
    BY <1>1, <1>6, <2>1, <2>2 DEF RoDelete, RoMoves
<1> QED
  BY <1>4, <1>5, <1>6

LEMMA DeleteEffect ==
    ASSUME NeededInv, NEW n \in OpNum, DeleteAllDone(n) \/ DeleteAllFails(n)
    PROVE  DeleteMoves(n)
<1>0. /\ vca \in [Vca -> VcaType] /\ TypeOK /\ faults \in Nat
      /\ dt \in [OpNum -> Pcs]
  BY DEF NeededInv, TypeOK
<1>1. ASSUME NEW pc, dt' = [dt EXCEPT ![n] = pc]
      PROVE  dt'[n] = pc /\ \A m \in OpNum : m # n => dt'[m] = dt[m]
  BY <1>0, <1>1
<1>2. CASE DeleteAllDone(n)
  <2>1. \A v \in Vca : /\ vca'[v].known = vca[v].known
                       /\ vca'[v].sw = vca[v].sw /\ vca'[v].ee = vca[v].ee
                       /\ vca'[v].needed = vca[v].needed
                       /\ vca'[v].status = IF vca[v].status = "none"
                                             THEN "none" ELSE "DELETED"
    BY <1>0, <1>2 DEF DeleteAllDone, VcaType
  <2>2. faults <= faults'
    BY <1>0, <1>2 DEF DeleteAllDone
  <2> QED
    <3>1. dt'[n] = "done" /\ \A m \in OpNum : m # n => dt'[m] = dt[m]
      BY <1>1, <1>2 DEF DeleteAllDone
    <3> QED
      BY <1>2, <2>1, <2>2, <3>1 DEF DeleteAllDone, DeleteMoves
<1>3. CASE DeleteAllFails(n)
  <2>1. faults' > 0 /\ faults <= faults'
    BY <1>0, <1>3, FaultCounts DEF DeleteAllFails
  <2> QED
    BY <1>1, <1>3, <2>1 DEF DeleteAllFails, DeleteMoves, recVars, extVars
<1> QED
  BY <1>2, <1>3

LEMMA TaskStepEffect ==
    ASSUME NeededInv, NEW n \in OpNum, TaskStep(n)
    PROVE  TaskEffect(n)
BY DeployEffect, RemoveEffect, KduEffect, RoEffect, DeleteEffect
   DEF TaskStep, TaskEffect

\* In all of them tasks move on, and nothing else that an operation is made of.
OperationFrame ==
    UNCHANGED <<nsd, nsr, cur, ops, main, copy, creq, late>>

LEMMA TaskStepMoves ==
    ASSUME NeededInv, NEW n \in OpNum, TaskEffect(n)
    PROVE  OperationFrame /\ TasksMove
<1> USE DEF OperationFrame, Simple, Ended, Moves, Pending
<1>1. ASSUME NEW v \in Vca, Deploys(n, v) PROVE OperationFrame /\ TasksMove
  BY <1>1 DEF Deploys, VcaFrame, TasksMove, DeployPcs, Created
<1>2. ASSUME NEW v \in Vca, Removes(n, v) PROVE OperationFrame /\ TasksMove
  BY <1>2 DEF Removes, VcaFrame, TasksMove
<1>3. ASSUME NEW k \in Kdu, KduMoves(n, k) PROVE OperationFrame /\ TasksMove
  BY <1>3 DEF KduMoves, TasksMove
<1>4. CASE RoMoves(n)
  BY <1>4 DEF RoMoves, TasksMove
<1>5. CASE DeleteMoves(n)
  BY <1>5 DEF DeleteMoves, TasksMove
<1> QED
  BY <1>1, <1>2, <1>3, <1>4, <1>5 DEF TaskEffect

\* A cancel ends what operation n has at work; a creation may have been made.
Cancels(n) ==
    /\ \A m \in OpNum :
          /\ rt'[m] = rt[m] \/ (m = n /\ Pending(rt[m]) /\ rt'[m] = "cancelled")
          /\ dt'[m] = dt[m] \/ (m = n /\ Pending(dt[m]) /\ dt'[m] = "cancelled")
          /\ \A v \in Vca : \/ vt'[m][v] = vt[m][v]
                            \/ /\ m = n /\ Pending(vt[m][v])
                               /\ vt'[m][v] = "cancelled"
          /\ \A k \in Kdu : \/ kt'[m][k] = kt[m][k]
                            \/ /\ m = n /\ Pending(kt[m][k])
                               /\ kt'[m][k] = "cancelled"
    /\ env \subseteq env' /\ \A v \in env' \ env : vt[n][v] = "create"
    /\ release \subseteq release'
    /\ \A k \in release' \ release : kt[n][k] = "work" /\ Deploying(n)

LEMMA CancelEffect ==
    ASSUME NeededInv, NEW n \in OpNum, CancelsThose(n)
    PROVE  Cancels(n)
<1>0. PICK V \in SUBSET Vca, K \in SUBSET Kdu, rest \in BOOLEAN :
               CancelThose(n, V, K, rest)
  BY DEF CancelsThose
<1>1. /\ vt \in [OpNum -> [Vca -> Pcs]] /\ kt \in [OpNum -> [Kdu -> Pcs]]
      /\ rt \in [OpNum -> Pcs] /\ dt \in [OpNum -> Pcs]
  BY DEF NeededInv, TypeOK
<1>2. /\ \A m \in OpNum \ {n}, v \in Vca : vt'[m][v] = vt[m][v]
      /\ \A v \in Vca : vt'[n][v] \in {vt[n][v], Cancelled(vt[n][v])}
  BY <1>0, <1>1 DEF CancelThose
<1>3. /\ \A m \in OpNum \ {n}, k \in Kdu : kt'[m][k] = kt[m][k]
      /\ \A k \in Kdu : kt'[n][k] \in {kt[n][k], Cancelled(kt[n][k])}
  BY <1>0, <1>1 DEF CancelThose
<1>4. /\ \A m \in OpNum \ {n} : rt'[m] = rt[m] /\ dt'[m] = dt[m]
      /\ rt'[n] \in {rt[n], Cancelled(rt[n])}
      /\ dt'[n] \in {dt[n], Cancelled(dt[n])}
  BY <1>0, <1>1 DEF CancelThose
<1>5. \A pc : Cancelled(pc) = pc \/ (Pending(pc) /\ Cancelled(pc) = "cancelled")
  BY DEF Cancelled
<1>6. /\ env \subseteq env' /\ \A v \in env' \ env : vt[n][v] = "create"
      /\ release \subseteq release'
      /\ \A k \in release' \ release : kt[n][k] = "work" /\ Deploying(n)
  BY <1>0 DEF CancelThose
<1> QED
  BY <1>2, <1>3, <1>4, <1>5, <1>6 DEF Cancels

LEMMA CancelMoves ==
    ASSUME NEW n \in OpNum, Cancels(n) PROVE TasksMove
<1>1. "cancelled" \in Simple /\ "cancelled" # "off"
  BY DEF Simple, Ended
<1> QED
  BY <1>1 DEF Cancels, TasksMove, Moves

LEMMA NoMove == ASSUME UNCHANGED taskVars PROVE TasksMove
BY DEF taskVars, TasksMove, Moves

-----------------------------------------------------------------------------
(* How operations follow each other.                                        *)

\* An operation that left tasks behind is over, and not completed.
LateOnes ==
    /\ late \subseteq 1..cur
    /\ main.pc # "idle" => cur \notin late
    /\ \A n \in OpNum : ops[n].state = "COMPLETED" => n \notin late

\* Operations are numbered as they begin.
Begun ==
    \A n \in OpNum :
        /\ n > cur => /\ ops[n].kind = "none" /\ rt[n] = "off"
                      /\ \A k \in Kdu : kt[n][k] = "off"
        /\ n <= cur => ops[n].kind # "none"

SimpleTasks ==
    \A n \in OpNum :
        /\ rt[n] \in Simple /\ dt[n] \in Simple
        /\ \A k \in Kdu : kt[n][k] \in Simple

\* The NS shows that an operation runs on it; only the last wait of an
\* operation comes after an exception.
InCharge ==
    /\ main.pc # "idle" => nsr.admin = "INSTANTIATED"
    /\ main.pc \notin {"idle", "wait"} => ~main.exc

\* Only the last operation has tasks at work, and those left behind.
Settled ==
    \A n \in OpNum :
        (n # cur \/ main.pc = "idle") /\ n \notin late => ~AnyPending(n)

\* An instantiation creates its tasks in order, those of the environments last.
Launching ==
    /\ main.pc \in {"kdus", "certs"} =>
          /\ \A v \in Vca : vt[cur][v] = "off"
          /\ \A k \in Kdu : kt[cur][k] = "off" => k \in main.todo
    /\ main.pc = "certs" => main.todo = {} /\ rt[cur] # "off"
    /\ main.pc = "wait" /\ Deploying(cur) /\ ~main.exc =>
          /\ \A v \in Vca : vt[cur][v] # "off"
          /\ \A k \in Kdu : kt[cur][k] # "off"
          /\ rt[cur] # "off"

\* Those of the environments are created together, after all others.
Together ==
    \A n \in OpNum, v \in Vca : Deploying(n) /\ vt[n][v] # "off" =>
        /\ \A w \in Vca : vt[n][w] # "off"
        /\ \A k \in Kdu : kt[n][k] # "off"
        /\ rt[n] # "off"

OrderInv ==
    /\ NeededInv
    /\ LateOnes /\ Begun /\ SimpleTasks /\ InCharge /\ Settled
    /\ Launching /\ Together

LEMMA PendingFacts ==
    /\ ~Pending("off") /\ Pending("work")
    /\ \A pc \in Ended : ~Pending(pc)
    /\ \A n \in OpNum :
          ~AnyPending(n) <=> /\ ~Pending(rt[n]) /\ ~Pending(dt[n])
                             /\ \A v \in Vca : ~Pending(vt[n][v])
                             /\ \A k \in Kdu : ~Pending(kt[n][k])
BY DEF Pending, Ended, AnyPending, PendingVcas, PendingKdus

\* Tasks move on while no operation begins, is launched or ends.
LEMMA MovesKeepOrder ==
    ASSUME OrderInv, NeededInv', TasksMove, UNCHANGED <<cur, late, nsr>>,
           \A n \in OpNum :
               /\ ops'[n].kind = ops[n].kind
               /\ ops'[n].state = ops[n].state \/ ops'[n].state = "FAILED_TEMP",
           \/ main' = main
           \/ main.pc # "idle" /\ main'.pc = "wait" /\ main'.exc
    PROVE  OrderInv'
<1>0. /\ main.pc # "idle" <=> main'.pc # "idle"
      /\ main.pc # "idle" => cur \in OpNum
  BY DEF OrderInv, NeededInv, Numbered
<1>1. \A n \in OpNum :
        /\ rt[n] = "off" <=> rt'[n] = "off"
        /\ dt[n] = "off" <=> dt'[n] = "off"
        /\ \A v \in Vca : vt[n][v] = "off" <=> vt'[n][v] = "off"
        /\ \A k \in Kdu : kt[n][k] = "off" <=> kt'[n][k] = "off"
  BY PendingFacts DEF TasksMove, Moves
<1>2. LateOnes'
  BY <1>0 DEF OrderInv, LateOnes
<1>3. Begun'
  BY <1>0, <1>1 DEF OrderInv, Begun
<1>4. SimpleTasks'
  BY DEF OrderInv, SimpleTasks, TasksMove
<1>5. InCharge'
  BY <1>0 DEF OrderInv, InCharge
<1>6. Settled'
  <2>1. \A n \in OpNum : ~AnyPending(n) => ~AnyPending(n)'
    BY PendingFacts DEF TasksMove, Moves, AnyPending, PendingVcas, PendingKdus
  <2> QED
    BY <1>0, <2>1 DEF OrderInv, Settled
<1>7. Launching'
  <2>1. cur \in OpNum => (Deploying(cur)' <=> Deploying(cur))
    BY DEF Deploying
  <2> QED
    BY <1>0, <1>1, <2>1 DEF OrderInv, Launching
<1>8. Together'
  BY <1>1 DEF OrderInv, Together, Deploying
<1> QED
  BY <1>2, <1>3, <1>4, <1>5, <1>6, <1>7, <1>8 DEF OrderInv

\* What both starts do: a number, a kind, a coroutine.
Starts ==
    /\ main.pc = "idle" /\ main'.pc \in {"kdus", "prims"} /\ ~main'.exc
    /\ cur' = cur + 1 /\ cur' \in OpNum /\ cur \in Nat
    /\ ops'[cur'].kind = IF main'.pc = "kdus" THEN "instantiate" ELSE "terminate"
    /\ ops'[cur'].state = "PROCESSING"
    /\ \A n \in OpNum : n # cur' => ops'[n] = ops[n] /\ vt'[n] = vt[n]
    /\ main'.pc = "kdus" => vt' = vt /\ main'.todo = Kdu
    /\ nsr'.admin = "INSTANTIATED"
    /\ UNCHANGED <<nsd, vca, vnfr, extVars, kt, rt, dt, creq, faults, late>>

LEMMA StartEffect ==
    ASSUME NeededInv, StartInstantiate \/ StartTerminate PROVE Starts
<1>1. cur + 1 \in OpNum /\ cur \in Nat
  BY NextNumber DEF NeededInv, TypeOK, StartInstantiate, StartTerminate
<1>2. ops \in [OpNum -> OpType] /\ nsr \in NsrType /\ vt \in [OpNum -> [Vca -> Pcs]]
  BY DEF NeededInv, TypeOK
<1>3. CASE StartInstantiate
  BY <1>1, <1>2, <1>3 DEF StartInstantiate, Starts, NsrType, taskVars
<1>4. CASE StartTerminate
  <2>1. nsr'.admin = "INSTANTIATED"
    BY <1>2, <1>4 DEF StartTerminate, NsrType
  <2> QED
    BY <1>1, <1>2, <1>4, <2>1 DEF StartTerminate, Starts
<1> QED
  BY <1>3, <1>4

LEMMA StartKeepsOrder ==
    ASSUME OrderInv, NeededInv', Starts
    PROVE  OrderInv'
<1>0. /\ cur' = cur + 1 /\ cur' \in OpNum /\ cur \in Nat
      /\ \A n \in OpNum : n \in Nat /\ (n > cur' => n > cur)
      /\ \A n \in OpNum : n <= cur' => n <= cur \/ n = cur'
      /\ cur' > cur /\ 1..cur \subseteq 1..cur' /\ cur' \notin 1..cur
  BY DEF Starts, OpNum
<1>1. rt[cur'] = "off" /\ \A k \in Kdu : kt[cur'][k] = "off"
  BY <1>0 DEF OrderInv, Begun
<1>2. LateOnes'
  BY <1>0 DEF OrderInv, LateOnes, Starts
<1>3. Begun'
  BY <1>0 DEF OrderInv, Begun, Starts
<1>4. SimpleTasks'
  BY DEF OrderInv, SimpleTasks, Starts
<1>5. InCharge'
  BY DEF OrderInv, InCharge, Starts
<1>6. Settled'
  <2>1. \A n \in OpNum : n # cur' => (~AnyPending(n) => ~AnyPending(n)')
    BY DEF Starts, AnyPending, PendingVcas, PendingKdus
  <2> QED
    BY <2>1 DEF OrderInv, Settled, Starts
<1>7. main'.pc = "kdus" => \A v \in Vca : vt'[cur'][v] = "off"
  BY <1>0 DEF Starts, Deploying, OrderInv, NeededInv, NotBegun
<1>8. main'.pc = "kdus" => vt' = vt
  BY DEF Starts
<1>9. Launching'
  <2>1. main'.pc \in {"kdus", "prims"} /\ (main'.pc = "kdus" => main'.todo = Kdu)
    BY DEF Starts
  <2>2. CASE main'.pc = "kdus"
    BY <1>7, <2>1, <2>2 DEF Launching
  <2>3. CASE main'.pc = "prims"
    BY <2>3 DEF Launching
  <2> QED
    BY <2>1, <2>2, <2>3
<1>10. Together'
  <2>1. \A n \in OpNum : n # cur' =>
            /\ rt'[n] = rt[n] /\ vt'[n] = vt[n] /\ kt'[n] = kt[n]
            /\ ops'[n].kind = ops[n].kind
    BY DEF Starts
  <2>2. main'.pc = "prims" => ops'[cur'].kind = "terminate"
    BY DEF Starts
  <2>3. \A v \in Vca : ops'[cur'].kind = "instantiate" => vt'[cur'][v] = "off"
    BY <1>7, <2>2 DEF Starts, Deploying
  <2> QED
    BY <2>1, <2>3 DEF OrderInv, Together, Deploying
<1> QED
  BY <1>2, <1>3, <1>4, <1>5, <1>6, <1>9, <1>10 DEF OrderInv

\* The coroutine of the operation creates tasks.
Creates ==
    /\ cur \in OpNum /\ UNCHANGED <<cur, ops, nsr, late>>
    /\ main.pc \notin {"idle", "wait"} /\ main'.pc # "idle"
    /\ main'.pc \in {"kdus", "prims"} => main'.pc = main.pc
    /\ main'.exc = main.exc
    /\ \A n \in OpNum : n # cur =>
          /\ rt'[n] = rt[n] /\ dt'[n] = dt[n]
          /\ vt'[n] = vt[n] /\ kt'[n] = kt[n]
    /\ rt'[cur] \in {rt[cur], "work"} /\ dt'[cur] \in {dt[cur], "work", "off"}
    /\ \A k \in Kdu : kt'[cur][k] \in {kt[cur][k], "work", "off"}

LEMMA CreatesKeepOrder ==
    ASSUME OrderInv, NeededInv', Creates, Launching', Together'
    PROVE  OrderInv'
<1>0. cur \in OpNum /\ ~(cur > cur) /\ cur' = cur /\ {"work", "off"} \subseteq Simple
  BY DEF Creates, Simple, OpNum
<1>1. LateOnes'
  BY DEF OrderInv, LateOnes, Creates
<1>2. Begun'
  BY <1>0 DEF OrderInv, Begun, Creates
<1>3. SimpleTasks'
  BY <1>0 DEF OrderInv, SimpleTasks, Creates
<1>4. InCharge'
  BY DEF OrderInv, InCharge, Creates
<1>5. Settled'
  <2>1. \A n \in OpNum : n # cur => (~AnyPending(n) => ~AnyPending(n)')
    BY DEF Creates, AnyPending, PendingVcas, PendingKdus
  <2> QED
    BY <2>1 DEF OrderInv, Settled, Creates
<1> QED
  BY <1>1, <1>2, <1>3, <1>4, <1>5 DEF OrderInv

LEMMA MainRecord ==
    ASSUME NeededInv PROVE main \in [pc : MainPcs, exc : BOOLEAN, todo : SUBSET Kdu]
BY DEF NeededInv, TypeOK, MainType

\* _deploy_n2vc, field by field.
Launches ==
    /\ \A n \in OpNum : n # cur => vt'[n] = vt[n]
    /\ \A v \in Vca :
          /\ vt'[cur][v] \in {"boot", "create"}
          /\ vca'[v].known /\ vca'[v].sw = vca[v].sw /\ vca'[v].ee = vca[v].ee
          /\ vca'[v].needed = vca[v].needed
          /\ vca'[v].status = IF Type(v) = "native" THEN vca[v].status
                                                    ELSE "CREATING"

LEMMA LaunchEffect ==
    ASSUME NeededInv, cur \in OpNum, LaunchVcas PROVE Launches
<1>1. vca \in [Vca -> VcaType] /\ vt \in [OpNum -> [Vca -> Pcs]]
  BY DEF NeededInv, TypeOK
<1>2. \A v \in Vca :
          /\ vca'[v].known /\ vca'[v].sw = vca[v].sw /\ vca'[v].ee = vca[v].ee
          /\ vca'[v].needed = vca[v].needed
          /\ vca'[v].status = IF Type(v) = "native" THEN vca[v].status
                                                    ELSE "CREATING"
  BY <1>1 DEF LaunchVcas, VcaType
<1>3. /\ \A n \in OpNum : n # cur => vt'[n] = vt[n]
      /\ \A v \in Vca : vt'[cur][v] = IF Type(v) = "native" THEN "boot"
                                                             ELSE "create"
  BY <1>1 DEF LaunchVcas
<1> QED
  BY <1>2, <1>3 DEF Launches

LEMMA DeployKduKeepsOrder ==
    ASSUME OrderInv, NeededInv', NEW k \in Kdu, DeployKdu(k)
    PROVE  OrderInv'
<1>1. main.pc = "kdus" /\ cur \in OpNum
  BY DEF DeployKdu, OrderInv, NeededInv, Numbered
<1>2. main'.pc = "kdus" /\ main'.todo = main.todo \ {k} /\ main'.exc = main.exc
  BY <1>1, MainRecord DEF DeployKdu, OrderInv
<1>3. /\ \A n \in OpNum : n # cur => kt'[n] = kt[n]
      /\ \A j \in Kdu : kt'[cur][j] = IF j = k THEN "work" ELSE kt[cur][j]
  BY <1>1 DEF DeployKdu, OrderInv, NeededInv, TypeOK
<1>4. UNCHANGED <<cur, ops, nsr, late, vt, rt, dt>>
  BY DEF DeployKdu
<1>5. Creates
  BY <1>1, <1>2, <1>3, <1>4 DEF Creates
<1>6. Launching'
  BY <1>1, <1>2, <1>3, <1>4 DEF OrderInv, Launching
<1>7. Together'
  BY <1>1, <1>3, <1>4 DEF OrderInv, Together, Deploying
<1> QED
  BY <1>5, <1>6, <1>7, CreatesKeepOrder

LEMMA LaunchKeepsOrder ==
    ASSUME OrderInv, NeededInv', cur \in OpNum,
           UNCHANGED <<cur, ops, nsr, late, kt, dt>>,
           main.pc \in {"kdus", "certs"}, main'.pc = "wait", main'.exc = main.exc,
           main.todo = {}, Launches,
           rt'[cur] \in {rt[cur], "work"}, rt'[cur] # "off",
           \A n \in OpNum : n # cur => rt'[n] = rt[n]
    PROVE  OrderInv'
<1>1. Creates
  BY DEF Creates, Launches
<1>2. /\ \A v \in Vca : vt'[cur][v] # "off"
      /\ \A k \in Kdu : kt'[cur][k] # "off"
  BY DEF Launches, OrderInv, Launching
<1>3. Launching'
  BY <1>2 DEF Launching
<1>4. Together'
  BY <1>2 DEF OrderInv, Together, Deploying, Launches
<1> QED
  BY <1>1, <1>3, <1>4, CreatesKeepOrder

LEMMA LaunchRoKeepsOrder ==
    ASSUME OrderInv, NeededInv', LaunchRo \/ LaunchHelm
    PROVE  OrderInv'
<1>0. NeededInv
  BY DEF OrderInv
<1>1. cur \in OpNum /\ main.pc \in {"kdus", "certs"} /\ main.todo = {}
      /\ UNCHANGED <<cur, ops, nsr, late, kt, dt>>
  BY DEF LaunchRo, LaunchHelm, OrderInv, NeededInv, Numbered, Launching
<1>2. CASE LaunchHelm
  <2>1. main'.pc = "wait" /\ main'.exc = main.exc /\ main.pc = "certs" /\ rt' = rt
    BY <1>0, <1>2, MainRecord DEF LaunchHelm
  <2>2. Launches
    BY <1>0, <1>1, <1>2, LaunchEffect DEF LaunchHelm
  <2>3. rt[cur] # "off"
    BY <2>1 DEF OrderInv, Launching
  <2> QED
    BY <1>1, <2>1, <2>2, <2>3, LaunchKeepsOrder
<1>3. CASE LaunchRo
  <2>1. rt'[cur] = "work" /\ \A n \in OpNum : n # cur => rt'[n] = rt[n]
    BY <1>0, <1>1, <1>3 DEF LaunchRo, NeededInv, TypeOK
  <2>2. CASE HasHelm
    <3>1. main'.pc = "certs" /\ main'.exc = main.exc /\ main'.todo = {} /\ vt' = vt
          /\ main.pc = "kdus"
      BY <1>0, <1>1, <1>3, <2>2, MainRecord DEF LaunchRo
    <3>2. Creates
      BY <1>1, <2>1, <3>1 DEF Creates
    <3>3. Launching'
      BY <1>1, <2>1, <3>1 DEF OrderInv, Launching
    <3>4. Together'
      BY <1>1, <2>1, <3>1 DEF OrderInv, Together, Deploying, Launching
    <3> QED
      BY <3>2, <3>3, <3>4, CreatesKeepOrder
  <2>3. CASE ~HasHelm
    <3>1. main'.pc = "wait" /\ main'.exc = main.exc
      BY <1>0, <1>1, <1>3, <2>3, MainRecord DEF LaunchRo
    <3>2. Launches
      BY <1>0, <1>1, <1>3, <2>3, LaunchEffect DEF LaunchRo
    <3> QED
      BY <1>1, <2>1, <3>1, <3>2, LaunchKeepsOrder
  <2> QED
    BY <2>2, <2>3
<1> QED
  BY <1>2, <1>3

\* LaunchRest, field by field.
Rests ==
    /\ main'.pc = "wait" /\ main'.exc = main.exc
    /\ \A n \in OpNum : n # cur => rt'[n] = rt[n] /\ kt'[n] = kt[n]
    /\ rt'[cur] = "work"
    /\ \A k \in Kdu : kt'[cur][k] = IF k \in copy.kdus THEN "work" ELSE "off"

LEMMA RestEffect ==
    ASSUME NeededInv, cur \in OpNum, LaunchRest PROVE Rests
BY MainRecord DEF LaunchRest, Rests, NeededInv, TypeOK

\* DeleteAll, field by field.
DeletesAll ==
    /\ cur \in OpNum /\ main.pc = "prims" /\ PrimitivesEnded /\ ~PrimitivesFailed
    /\ UNCHANGED <<nsd, nsr, kdu, vnfr, extVars, cur, ops, copy, vt, creq,
                   faults, late>>
    /\ main'.exc = main.exc
    /\ \/ HelmKnown /\ main'.pc = "spaces" /\ UNCHANGED <<vca, kt, rt, dt>>
       \/ /\ ~HelmKnown /\ Rests
          /\ \A n \in OpNum : n # cur => dt'[n] = dt[n]
          /\ dt'[cur] = IF AnyKnown THEN "work" ELSE "off"
    /\ \A v \in Vca : /\ vca'[v].known = vca[v].known
                      /\ vca'[v].sw = vca[v].sw /\ vca'[v].ee = vca[v].ee
                      /\ vca'[v].needed = vca[v].needed
                      /\ vca'[v].status \in {vca[v].status, "TERMINATING"}
                      /\ vca'[v].status # vca[v].status =>
                            copy.vca[v].status # "none"

LEMMA DeleteAllEffect ==
    ASSUME NeededInv, DeleteAll PROVE DeletesAll
<1>1. /\ cur \in OpNum /\ main.pc = "prims" /\ PrimitivesEnded /\ ~PrimitivesFailed
      /\ UNCHANGED <<nsd, nsr, kdu, vnfr, extVars, cur, ops, copy, vt, creq,
                     faults, late>>
  BY DEF DeleteAll, NeededInv, Numbered
<1>2. vca \in [Vca -> VcaType] /\ dt \in [OpNum -> Pcs]
  BY DEF NeededInv, TypeOK
<1>3. \A v \in Vca : /\ vca'[v].known = vca[v].known
                     /\ vca'[v].sw = vca[v].sw /\ vca'[v].ee = vca[v].ee
                     /\ vca'[v].needed = vca[v].needed
                     /\ vca'[v].status \in {vca[v].status, "TERMINATING"}
                     /\ vca'[v].status # vca[v].status =>
                           copy.vca[v].status # "none"
  <2>1. \/ vca' = vca
        \/ vca' = [v \in Vca |-> IF copy.vca[v].status = "none" THEN vca[v]
                                 ELSE [vca[v] EXCEPT !.status = "TERMINATING"]]
    BY DEF DeleteAll
  <2>2. \A v \in Vca :
            LET r == [vca[v] EXCEPT !.status = "TERMINATING"]
            IN  /\ r.known = vca[v].known /\ r.sw = vca[v].sw
                /\ r.ee = vca[v].ee /\ r.needed = vca[v].needed
                /\ r.status = "TERMINATING"
    BY <1>2 DEF VcaType
  <2> QED
    BY <2>1, <2>2
<1>4. CASE HelmKnown
  <2>1. main'.pc = "spaces" /\ main'.exc = main.exc /\ UNCHANGED <<vca, kt, rt, dt>>
    BY <1>4, MainRecord DEF DeleteAll
  <2> QED
    BY <1>1, <1>3, <1>4, <2>1 DEF DeletesAll
<1>5. CASE ~HelmKnown
  <2>1. Rests
    BY <1>1, <1>5, RestEffect DEF DeleteAll
  <2>2. /\ \A n \in OpNum : n # cur => dt'[n] = dt[n]
        /\ dt'[cur] = IF AnyKnown THEN "work" ELSE "off"
    BY <1>1, <1>2, <1>5 DEF DeleteAll
  <2>3. main'.exc = main.exc
    BY <2>1 DEF Rests
  <2> QED
    BY <1>1, <1>3, <1>5, <2>1, <2>2, <2>3 DEF DeletesAll
<1> QED
  BY <1>4, <1>5

LEMMA DeleteKeepsOrder ==
    ASSUME OrderInv, NeededInv', DeletesAll \/ DeleteSpaces
    PROVE  OrderInv'
<1>0. NeededInv
  BY DEF OrderInv
<1>1. CASE DeletesAll
  <2>2. Undeploying(cur) /\ ~Deploying(cur) /\ cur \in OpNum
    BY <1>1 DEF DeletesAll, OrderInv, NeededInv, KindsAgree, Deploying, Undeploying
  <2>3. Creates
    BY <1>1 DEF DeletesAll, Creates, Rests
  <2>4. Launching'
    BY <1>1, <2>2 DEF DeletesAll, Launching, Deploying, Rests
  <2>5. Together'
    BY <1>1, <2>2 DEF DeletesAll, OrderInv, Together, Deploying, Rests
  <2> QED
    BY <2>3, <2>4, <2>5, CreatesKeepOrder
<1>2. CASE DeleteSpaces
  <2>1. cur \in OpNum /\ main.pc = "spaces" /\ Rests
    BY <1>0, <1>2, RestEffect DEF DeleteSpaces, NeededInv, Numbered
  <2>2. Undeploying(cur) /\ ~Deploying(cur)
    BY <2>1 DEF OrderInv, NeededInv, KindsAgree, Deploying, Undeploying
  <2>3. UNCHANGED <<cur, ops, nsr, late, vt, dt>>
    BY <1>2 DEF DeleteSpaces, recVars
  <2>4. Creates
    BY <2>1, <2>3 DEF Creates, Rests
  <2>5. Launching'
    BY <2>1, <2>2, <2>3 DEF Launching, Deploying, Rests
  <2>6. Together'
    BY <2>1, <2>2, <2>3 DEF OrderInv, Together, Deploying, Rests
  <2> QED
    BY <2>4, <2>5, <2>6, CreatesKeepOrder
<1> QED
  BY <1>1, <1>2

\* How an operation ends.
Finishes ==
    /\ cur \in OpNum /\ main.pc # "idle" /\ main' = Idle
    /\ UNCHANGED <<nsd, vca, kdu, vnfr, extVars, cur, taskVars, creq, faults>>
    /\ \/ ~AnyPending(cur) /\ late' = late
       \/ AnyPending(cur) /\ late' = late \cup {cur}
    /\ \A n \in OpNum : /\ ops'[n].kind = ops[n].kind
                        /\ n # cur => ops'[n] = ops[n]
    /\ ops'[cur].state \in {"COMPLETED", "FAILED"}
    /\ LET bad == \/ main.exc \/ VcaUnfinished \/ VimUnfinished
                  \/ Undeploying(cur) /\ Unfinished(dt[cur])
       IN  ops'[cur].state = "FAILED" <=> bad
    /\ \/ /\ Deploying(cur) /\ ~Undeploying(cur) /\ main.pc = "wait"
          /\ nsr'.admin = nsr.admin
          /\ nsr'.config = "configured" <=> ~VcaUnfinished
          /\ nsr'.oper = "running" <=> ~VimUnfinished
       \/ /\ Undeploying(cur) /\ ~Deploying(cur)
          /\ ops'[cur].state = "COMPLETED" => main.pc = "wait"
          /\ nsr'.admin = IF ops'[cur].state = "COMPLETED"
                            THEN "NOT_INSTANTIATED" ELSE nsr.admin

LEMMA FinishEffect ==
    ASSUME NeededInv, FinishInstantiate \/ FinishTerminate PROVE Finishes
<1>1. /\ cur \in OpNum /\ main.pc # "idle" /\ main' = Idle
      /\ UNCHANGED <<nsd, vca, kdu, vnfr, extVars, cur, taskVars, creq, faults>>
  BY DEF FinishInstantiate, FinishTerminate, Running, NeededInv, Numbered
<1>2. Waited
  BY DEF FinishInstantiate, FinishTerminate, TerminateWaited
<1>3. ops \in [OpNum -> OpType] /\ nsr \in NsrType
  BY DEF NeededInv, TypeOK
<1>4. ASSUME NEW failed, ops' = Outcome(failed)
      PROVE  /\ \A n \in OpNum : /\ ops'[n].kind = ops[n].kind
                                 /\ n # cur => ops'[n] = ops[n]
             /\ ops'[cur].state = IF failed THEN "FAILED" ELSE "COMPLETED"
  BY <1>1, <1>3, <1>4 DEF Outcome, OpType
<1>5. CASE FinishInstantiate
  <2> DEFINE failed == main.exc \/ VcaUnfinished \/ VimUnfinished
  <2>1. Deploying(cur) /\ ~Undeploying(cur) /\ main.pc = "wait"
    BY <1>5 DEF FinishInstantiate, Deploying, Undeploying
  <2>2. ops' = Outcome(failed)
    BY <1>5 DEF FinishInstantiate
  <2>3. /\ nsr'.admin = nsr.admin
        /\ nsr'.config = "configured" <=> ~VcaUnfinished
        /\ nsr'.oper = "running" <=> ~VimUnfinished
    BY <1>3, <1>5 DEF FinishInstantiate, NsrType
  <2> HIDE DEF failed
  <2>4. /\ \A n \in OpNum : /\ ops'[n].kind = ops[n].kind
                            /\ n # cur => ops'[n] = ops[n]
        /\ ops'[cur].state = IF failed THEN "FAILED" ELSE "COMPLETED"
    BY <1>4, <2>2
  <2>5. ops'[cur].state = "FAILED" <=> failed
    BY <2>4
  <2> QED
    BY <1>1, <1>2, <2>1, <2>3, <2>4, <2>5 DEF Finishes, Waited, failed
<1>6. CASE FinishTerminate
  <2> DEFINE failed == \/ main.exc \/ VcaUnfinished \/ VimUnfinished
                       \/ Unfinished(dt[cur])
  <2>1. Undeploying(cur) /\ ~Deploying(cur)
    BY <1>6 DEF FinishTerminate, Deploying, Undeploying
  <2>2. ops' = Outcome(failed)
    BY <1>6 DEF FinishTerminate
  <2>3. /\ failed => nsr'.admin = nsr.admin
        /\ ~failed => nsr'.admin = "NOT_INSTANTIATED"
    BY <1>3, <1>6 DEF FinishTerminate, NsrType
  <2>4. main.pc # "wait" => VcaUnfinished
    BY <1>6 DEF FinishTerminate, TerminateWaited, PrimitivesFailed, PrimitivesEnded,
       PendingVcas, Pending, Unfinished, VcaUnfinished, Ended
  <2>5. ~failed => main.pc = "wait"
    BY <2>4
  <2> HIDE DEF failed
  <2>6. /\ \A n \in OpNum : /\ ops'[n].kind = ops[n].kind
                            /\ n # cur => ops'[n] = ops[n]
        /\ ops'[cur].state = IF failed THEN "FAILED" ELSE "COMPLETED"
    BY <1>4, <2>2
  <2>7. ops'[cur].state = "FAILED" <=> failed
    BY <2>6
  <2> QED
    BY <1>1, <1>2, <2>1, <2>3, <2>5, <2>6, <2>7 DEF Finishes, Waited, failed
<1> QED
  BY <1>5, <1>6

LEMMA FinishKeepsOrder ==
    ASSUME OrderInv, NeededInv', Finishes
    PROVE  OrderInv'
<1>0. /\ main'.pc = "idle" /\ cur' = cur /\ cur \in OpNum /\ ~(cur > cur)
      /\ UNCHANGED <<vt, rt, kt, dt>>
      /\ late' \subseteq late \cup {cur} /\ late \subseteq late'
      /\ AnyPending(cur) => cur \in late'
  BY DEF Finishes, Idle, OpNum, taskVars
<1>1. ops'[cur].state = "COMPLETED" => ~AnyPending(cur)
  <2>1. SUFFICES ASSUME ops'[cur].state # "FAILED" PROVE ~AnyPending(cur)
    OBVIOUS
  <2>2. /\ ~VcaUnfinished /\ ~VimUnfinished
        /\ Deploying(cur) \/ ~Unfinished(dt[cur])
    BY <2>1 DEF Finishes
  <2>3. Deploying(cur) => ~Pending(dt[cur])
    <3>1. dt[cur] \in Simple /\ (dt[cur] = "work" => Undeploying(cur))
      BY <1>0 DEF OrderInv, SimpleTasks, NeededInv, KindsAgree
    <3> QED
      BY <3>1 DEF Deploying, Undeploying, Simple, Pending, Ended
  <2>4. \A pc : ~Unfinished(pc) => ~Pending(pc)
    BY DEF Unfinished, Pending, Ended
  <2> QED
    BY <1>0, <2>2, <2>3, <2>4, PendingFacts DEF VcaUnfinished, VimUnfinished
<1>2. LateOnes'
  <2>1. late' \subseteq 1..cur
    BY <1>0 DEF OrderInv, LateOnes, OpNum
  <2>2. ops'[cur].state = "COMPLETED" => cur \notin late'
    BY <1>1 DEF OrderInv, LateOnes, Finishes
  <2>3. \A n \in OpNum : n # cur => (ops'[n].state = "COMPLETED" => n \notin late')
    BY <1>0 DEF OrderInv, LateOnes, Finishes
  <2> QED
    BY <1>0, <2>1, <2>2, <2>3 DEF LateOnes
<1>3. Begun'
  BY <1>0 DEF OrderInv, Begun, Finishes
<1>4. SimpleTasks'
  BY <1>0 DEF OrderInv, SimpleTasks
<1>5. InCharge'
  BY <1>0 DEF InCharge
<1>6. Settled'
  <2>1. \A n \in OpNum : AnyPending(n)' <=> AnyPending(n)
    BY <1>0 DEF AnyPending, PendingVcas, PendingKdus
  <2> QED
    BY <1>0, <2>1 DEF OrderInv, Settled
<1>7. Launching'
  BY <1>0 DEF Launching
<1>8. Together'
  BY <1>0 DEF OrderInv, Together, Deploying, Finishes
<1> QED
  BY <1>2, <1>3, <1>4, <1>5, <1>6, <1>7, <1>8 DEF OrderInv

\* The coroutine meets an exception: it goes on to its last wait.
GivesUp ==
    /\ main.pc \notin {"idle", "wait"} /\ main'.pc = "wait" /\ main'.exc
    /\ faults' > 0 /\ faults <= faults'
    /\ UNCHANGED <<nsd, recVars, extVars, cur, ops, copy, taskVars, creq, late>>

\* The cancel command goes on, the coroutine or the tasks of its operation end.
CancelSends ==
    /\ main.pc # "idle" /\ cur \in OpNum
    /\ creq.state = "none" /\ creq'.state # "none" /\ creq'.op = cur
    /\ UNCHANGED <<nsd, recVars, extVars, cur, ops, main, copy, taskVars,
                   faults, late>>
CancelTakes ==
    /\ creq.op = cur /\ cur \in OpNum /\ main.pc # "idle"
    /\ creq'.op = creq.op /\ creq'.state # "none"
    /\ main'.pc = "wait" /\ main'.exc
    /\ \/ Cancels(cur)
       \/ UNCHANGED <<taskVars, env, release>>
    /\ UNCHANGED <<nsd, recVars, vim, cur, ops, copy, faults, late>>
CancelEnds ==
    /\ creq.op \in OpNum /\ creq'.op = creq.op /\ creq'.state # "none"
    /\ creq.op # cur \/ main.pc = "idle"
    /\ \A n \in OpNum : /\ ops'[n].kind = ops[n].kind
                        /\ \/ ops'[n].state = ops[n].state
                           \/ n = creq.op /\ ops'[n].state = "FAILED_TEMP"
                        /\ n # creq.op => ops'[n] = ops[n]
    /\ \/ Cancels(creq.op)
       \/ UNCHANGED <<taskVars, env, release>>
    /\ UNCHANGED <<nsd, recVars, vim, cur, main, copy, faults, late>>

LEMMA CancelStepEffect ==
    ASSUME NeededInv, CancelStep PROVE CancelSends \/ CancelTakes \/ CancelEnds
<1>1. CASE CancelSend
  BY <1>1 DEF CancelSend, CancelSends, NeededInv, Numbered
<1>2. CASE CancelMain
  <2>1. cur \in OpNum
    BY <1>2 DEF CancelMain, NeededInv, Numbered
  <2>2. creq'.op = creq.op /\ creq'.state = "taken"
    BY <1>2 DEF CancelMain, NeededInv, TypeOK, CreqType
  <2> QED
    BY <1>2, <2>1, <2>2, CancelReaches, CancelEffect DEF CancelMain, CancelTakes
<1>3. CASE CancelEnd
  <2>1. creq.op \in OpNum
    BY <1>3 DEF CancelEnd, NeededInv, Numbered
  <2>2. creq'.op = creq.op /\ creq'.state # "none"
    BY <1>3 DEF CancelEnd, NeededInv, TypeOK, CreqType
  <2>3. \A n \in OpNum : /\ ops'[n].kind = ops[n].kind
                         /\ \/ ops'[n].state = ops[n].state
                            \/ n = creq.op /\ ops'[n].state = "FAILED_TEMP"
                         /\ n # creq.op => ops'[n] = ops[n]
    <3>1. ops \in [OpNum -> OpType]
      BY DEF NeededInv, TypeOK
    <3>2. \/ ops' = ops
          \/ ops' = [ops EXCEPT ![creq.op].state = "FAILED_TEMP"]
      BY <1>3 DEF CancelEnd
    <3> QED
      BY <2>1, <3>1, <3>2 DEF OpType
  <2>4. Cancels(creq.op) \/ UNCHANGED <<taskVars, env, release>>
    BY <1>3, <2>1, CancelReaches, CancelEffect DEF CancelEnd
  <2> QED
    BY <1>3, <2>1, <2>2, <2>3, <2>4 DEF CancelEnd, CancelEnds
<1> QED
  BY <1>1, <1>2, <1>3 DEF CancelStep

LEMMA GivesUpEffect ==
    ASSUME NeededInv, PreparationFails \/ SpacesFail PROVE GivesUp
<1>1. TypeOK
  BY DEF NeededInv
<1>2. CASE PreparationFails
  BY <1>1, <1>2, FaultCounts DEF PreparationFails, GivesUp
<1>3. CASE SpacesFail
  <2>1. main'.pc = "wait" /\ main'.exc
    BY <1>3, MainRecord DEF SpacesFail
  <2> QED
    BY <1>1, <1>3, <2>1, FaultCounts DEF SpacesFail, GivesUp
<1> QED
  BY <1>2, <1>3

\* What a step may be.
Effects ==
    \/ Starts /\ (StartInstantiate \/ StartTerminate)
    \/ \E k \in Kdu : DeployKdu(k)
    \/ LaunchRo \/ LaunchHelm
    \/ DeletesAll \/ DeleteSpaces
    \/ Finishes \/ GivesUp
    \/ CancelSends \/ CancelTakes \/ CancelEnds
    \/ \E n \in OpNum : TaskEffect(n)
    \/ VmReport \/ UNCHANGED vars

LEMMA StepEffect == ASSUME NeededInv, [Next]_vars PROVE Effects
<1> USE DEF Effects
<1>1. CASE MainStep
  BY <1>1, StartEffect, DeleteAllEffect, FinishEffect, GivesUpEffect DEF MainStep
<1>2. CASE CancelStep
  BY <1>2, CancelStepEffect
<1>3. CASE \E n \in OpNum : TaskStep(n)
  BY <1>3, TaskStepEffect
<1> QED
  BY <1>1, <1>2, <1>3 DEF Next

LEMMA OrderKept ==
    ASSUME OrderInv, [Next]_vars
    PROVE  OrderInv'
<1>0. NeededInv /\ NeededInv'
  BY NeededKept DEF OrderInv
<1> USE DEF recVars, extVars
<1>1. ASSUME NEW k \in Kdu, DeployKdu(k) PROVE OrderInv'
  BY <1>0, <1>1, DeployKduKeepsOrder
<1>2. CASE DeletesAll \/ DeleteSpaces
  BY <1>0, <1>2, DeleteKeepsOrder
<1>3. CASE GivesUp
  <2>1. TasksMove
    BY <1>3, NoMove DEF GivesUp
  <2> QED
    BY <1>0, <1>3, <2>1, MovesKeepOrder DEF GivesUp
<1>4. CASE CancelSends
  <2>1. TasksMove
    BY <1>4, NoMove DEF CancelSends
  <2> QED
    BY <1>0, <1>4, <2>1, MovesKeepOrder DEF CancelSends
<1>5. CASE CancelTakes
  <2>1. TasksMove
    BY <1>5, NoMove, CancelMoves DEF CancelTakes
  <2> QED
    BY <1>0, <1>5, <2>1, MovesKeepOrder DEF CancelTakes
<1>6. CASE CancelEnds
  <2>1. TasksMove
    BY <1>6, NoMove, CancelMoves DEF CancelEnds
  <2> QED
    BY <1>0, <1>6, <2>1, MovesKeepOrder DEF CancelEnds
<1>7. ASSUME NEW n \in OpNum, TaskEffect(n) PROVE OrderInv'
  BY <1>0, <1>7, TaskStepMoves, MovesKeepOrder DEF OperationFrame
<1>8. CASE VmReport \/ UNCHANGED vars
  <2>1. TasksMove /\ UNCHANGED <<cur, late, nsr, main, ops>>
    BY <1>8, NoMove DEF VmReport, vars
  <2> QED
    BY <1>0, <2>1, MovesKeepOrder
<1> QED
  BY <1>0, <1>1, <1>2, <1>3, <1>4, <1>5, <1>6, <1>7, <1>8, StepEffect,
     StartKeepsOrder, LaunchRoKeepsOrder, FinishKeepsOrder DEF Effects

-----------------------------------------------------------------------------
(* What an instantiation has, and what its outcome says.                    *)

\* Nothing is left behind, and the last operation is an instantiation.
Instantiating == late = {} /\ cur \in OpNum /\ Deploying(cur)

\* How far its tasks are tells what there is.
EnvsThere ==
    Instantiating => \A v \in Vca :
        /\ vt[cur][v] \in Existing => v \in env
        /\ vt[cur][v] \in Installed => vca[v].sw
        /\ vt[cur][v] = "done" => vca[v].status = "READY"

VimThere ==
    Instantiating =>
        /\ rt[cur] \in {"work", "done"} => vim
        /\ rt[cur] = "done" => vnfr.vm = "ACTIVE"
        /\ \A k \in Kdu : kt[cur][k] = "done" =>
              k \in release /\ kdu[k].status = "READY"

\* Everything was done for one that completed.
CompletedDone ==
    (main.pc = "idle" /\ cur \in OpNum /\ Deploying(cur)
        /\ ops[cur].state = "COMPLETED") =>
            /\ \A v \in Vca : vt[cur][v] = "done"
            /\ \A k \in Kdu : kt[cur][k] = "done"
            /\ rt[cur] = "done"

\* The states it shows are those of its tasks.
Located ==
    (main.pc = "idle" /\ Instantiating) =>
        /\ nsr.config = "configured" <=> ~VcaUnfinished
        /\ nsr.oper = "running" => ~VimUnfinished

LEMMA OnlyLast ==
    ASSUME OrderInv, late = {}, NEW n \in OpNum, AnyPending(n)
    PROVE  n = cur /\ main.pc # "idle"
BY DEF OrderInv, Settled

\* With nothing left behind, a task that makes a step is of the last operation.
LEMMA TaskOfLast ==
    ASSUME OrderInv, late = {}, NEW n \in OpNum, TaskEffect(n)
    PROVE  n = cur /\ main.pc # "idle"
<1>1. AnyPending(n)
  BY PendingFacts DEF TaskEffect, Deploys, Removes, KduMoves, RoMoves, DeleteMoves,
     DeployPcs, Created, Pending, Ended
<1> QED
  BY <1>1, OnlyLast

\* A task's kind is its operation's.
LEMMA TaskKinds ==
    ASSUME OrderInv, NEW n \in OpNum, NEW v \in Vca
    PROVE  /\ Deploys(n, v) => Deploying(n) /\ ~Undeploying(n)
           /\ Removes(n, v) => Undeploying(n) /\ ~Deploying(n)
BY DEF OrderInv, NeededInv, KindsAgree, Deploys, Removes, Deploying, Undeploying

LEMMA OtherTaskKinds ==
    ASSUME OrderInv, NEW n \in OpNum
    PROVE  /\ DeleteMoves(n) => Undeploying(n) /\ ~Deploying(n)
           /\ ~(Deploying(n) /\ Undeploying(n))
BY DEF OrderInv, NeededInv, KindsAgree, DeleteMoves, Deploying, Undeploying

\* The steps of an instantiation, of a termination, and those that tell nothing
\* about either.
LEMMA StepKinds ==
    ASSUME OrderInv
    PROVE  /\ \A k \in Kdu : DeployKdu(k) => /\ cur \in OpNum /\ Deploying(cur)
                                             /\ ~Undeploying(cur)
           /\ LaunchRo \/ LaunchHelm => /\ cur \in OpNum /\ Deploying(cur)
                                        /\ ~Undeploying(cur)
           /\ DeletesAll \/ DeleteSpaces => /\ cur \in OpNum /\ ~Deploying(cur)
                                            /\ Undeploying(cur)
BY DEF OrderInv, NeededInv, Numbered, KindsAgree, Deploying, Undeploying, DeployKdu,
   LaunchRo, LaunchHelm, DeletesAll, DeleteSpaces

\* Where a new instantiation stands.
LEMMA NewStart ==
    ASSUME OrderInv, Starts
    PROVE  /\ rt'[cur'] = "off" /\ dt'[cur'] = "off"
           /\ \A k \in Kdu : kt'[cur'][k] = "off"
           /\ main'.pc = "kdus" => \A v \in Vca : vt'[cur'][v] = "off"
           /\ ops'[cur'].kind = "instantiate" => main'.pc = "kdus"
           /\ ops'[cur'].kind = "terminate" => main'.pc = "prims"
<1>1. cur' \in OpNum /\ cur' > cur
  BY DEF Starts
<1> QED
  BY <1>1 DEF Starts, OrderInv, Begun, NeededInv, NotBegun

\* A launched task has no environment of its own yet.
LEMMA LaunchPcs == {"boot", "create", "off", "cancelled"} \cap Existing = {}
BY DEF Existing, Created

LEMMA EnvsThereKept ==
    ASSUME OrderInv, OrderInv', EnvsThere, Effects
    PROVE  EnvsThere'
<1> USE DEF recVars, extVars, taskVars
\* Environments are only added, and tasks end or stay.
<1>0. ASSUME UNCHANGED <<cur, vca>>, late' = {} => late = {}, env \subseteq env',
             \A n \in OpNum : ops'[n].kind = ops[n].kind,
             \A n \in OpNum, v \in Vca : vt'[n][v] \in {vt[n][v], "cancelled"}
      PROVE  EnvsThere'
  BY <1>0, LaunchPcs DEF EnvsThere, Instantiating, Deploying, Installed
<1>1. CASE Starts
  BY <1>1, NewStart, LaunchPcs DEF EnvsThere, Instantiating, Deploying, Installed, Existing
<1>2. ASSUME NEW k \in Kdu, DeployKdu(k) PROVE EnvsThere'
  BY <1>0, <1>2 DEF DeployKdu
<1>3. CASE LaunchRo \/ LaunchHelm
  <2>1. cur \in OpNum /\ NeededInv
    BY <1>3, StepKinds DEF OrderInv
  <2>2. CASE UNCHANGED <<vca, vt>>
    BY <1>0, <1>3, <2>2 DEF LaunchRo, LaunchHelm
  <2>3. CASE LaunchVcas
    <3>1. \A v \in Vca : vt'[cur][v] \in {"boot", "create"}
      BY <2>1, <2>3, LaunchEffect DEF Launches
    <3>2. cur' = cur
      BY <1>3 DEF LaunchRo, LaunchHelm
    <3> QED
      BY <3>1, <3>2, LaunchPcs DEF EnvsThere, Installed, Existing
  <2> QED
    BY <1>3, <2>2, <2>3 DEF LaunchRo, LaunchHelm
<1>4. CASE DeletesAll \/ DeleteSpaces
  <2>1. cur' = cur /\ ops' = ops /\ ~Deploying(cur)
    BY <1>4, StepKinds DEF DeletesAll, DeleteSpaces
  <2> QED
    BY <2>1 DEF EnvsThere, Instantiating, Deploying
<1>5. CASE Finishes
  BY <1>0, <1>5 DEF Finishes
<1>6. CASE GivesUp \/ CancelSends \/ VmReport \/ UNCHANGED vars
  BY <1>0, <1>6 DEF GivesUp, CancelSends, VmReport, vars
<1>7. CASE CancelTakes \/ CancelEnds
  <2>1. \A n \in OpNum, v \in Vca : vt'[n][v] \in {vt[n][v], "cancelled"}
    BY <1>7 DEF CancelTakes, CancelEnds, Cancels
  <2>2. env \subseteq env'
    BY <1>7 DEF CancelTakes, CancelEnds, Cancels
  <2> QED
    BY <1>0, <1>7, <2>1, <2>2 DEF CancelTakes, CancelEnds
<1>8. ASSUME NEW n \in OpNum, TaskEffect(n) PROVE EnvsThere'
  <2>1. SUFFICES ASSUME late = {} PROVE EnvsThere'
    BY <1>8, TaskStepMoves DEF OperationFrame, EnvsThere, Instantiating, OrderInv
  <2>2. n = cur
    BY <1>8, <2>1, TaskOfLast
  <2>3. ASSUME NEW v \in Vca, Deploys(n, v) PROVE EnvsThere'
    <3>1. Instantiating /\ UNCHANGED <<cur, ops, late>>
      <4>1. Deploying(n)
        BY <2>3, TaskKinds
      <4>2. UNCHANGED <<cur, ops, late>>
        BY <2>3 DEF Deploys, VcaFrame
      <4> QED
        BY <2>1, <2>2, <4>1, <4>2 DEF Instantiating
    <3>2. \A w \in Vca : w # v => vt'[cur][w] = vt[cur][w] /\ vca'[w] = vca[w]
      BY <2>2, <2>3 DEF Deploys
    <3>3. /\ vt'[cur][v] \in Existing => v \in env' \/ vt[cur][v] \in Existing
          /\ vt'[cur][v] \in Installed => vca'[v].sw \/ vt[cur][v] \in Installed
          /\ vca[v].sw => vca'[v].sw
          /\ vt'[cur][v] = "done" => vca'[v].status = "READY"
          /\ env \subseteq env'
      BY <2>2, <2>3 DEF Deploys
    <3>4. \A w \in Vca : /\ vt[cur][w] \in Existing => w \in env
                         /\ vt[cur][w] \in Installed => vca[w].sw
                         /\ vt[cur][w] = "done" => vca[w].status = "READY"
      BY <3>1 DEF EnvsThere
    <3>5. \A w \in Vca : /\ vt'[cur][w] \in Existing => w \in env'
                         /\ vt'[cur][w] \in Installed => vca'[w].sw
                         /\ vt'[cur][w] = "done" => vca'[w].status = "READY"
      BY <3>2, <3>3, <3>4
    <3> QED
      BY <3>1, <3>5 DEF EnvsThere
  <2>4. ASSUME NEW v \in Vca, Removes(n, v) PROVE EnvsThere'
    BY <2>2, <2>4, TaskKinds DEF EnvsThere, Instantiating, Removes, VcaFrame, Deploying
  <2>5. ASSUME NEW k \in Kdu, KduMoves(n, k) PROVE EnvsThere'
    BY <1>0, <2>5 DEF KduMoves
  <2>6. CASE RoMoves(n)
    BY <1>0, <2>6 DEF RoMoves
  <2>7. CASE DeleteMoves(n)
    BY <2>2, <2>7, OtherTaskKinds DEF EnvsThere, Instantiating, DeleteMoves, Deploying
  <2> QED
    BY <1>8, <2>3, <2>4, <2>5, <2>6, <2>7 DEF TaskEffect
<1> QED
  BY <1>1, <1>2, <1>3, <1>4, <1>5, <1>6, <1>7, <1>8 DEF Effects

LEMMA VimThereKept ==
    ASSUME OrderInv, OrderInv', VimThere, Effects
    PROVE  VimThere'
<1> USE DEF recVars, extVars, taskVars
<1>0. ASSUME cur' = cur, late' = {} => late = {}, release \subseteq release',
             vim => vim', vnfr.vm = "ACTIVE" => vnfr'.vm = "ACTIVE",
             \A n \in OpNum : /\ ops'[n].kind = ops[n].kind
                              /\ rt'[n] \in {rt[n], "cancelled"}
                              /\ \A k \in Kdu :
                                    kt'[n][k] \in {kt[n][k], "cancelled", "work"},
             \A k \in Kdu : kdu'[k].status = kdu[k].status
      PROVE  VimThere'
  BY <1>0 DEF VimThere, Instantiating, Deploying
<1>1. CASE Starts
  BY <1>1, NewStart DEF VimThere
<1>2. ASSUME NEW k \in Kdu, DeployKdu(k) PROVE VimThere'
  <2>1. kdu \in [Kdu -> KduType] /\ kt \in [OpNum -> [Kdu -> Pcs]] /\ cur \in OpNum
    BY <1>2, StepKinds DEF OrderInv, NeededInv, TypeOK
  <2>2. \A j \in Kdu : kdu'[j].status = kdu[j].status
    BY <1>2, <2>1 DEF DeployKdu, KduType
  <2>3. \A n \in OpNum, j \in Kdu : kt'[n][j] \in {kt[n][j], "cancelled", "work"}
    BY <1>2, <2>1 DEF DeployKdu
  <2> QED
    BY <1>0, <1>2, <2>2, <2>3 DEF DeployKdu
<1>3. CASE LaunchRo
  <2>1. cur \in OpNum /\ rt \in [OpNum -> Pcs]
    BY <1>3, StepKinds DEF OrderInv, NeededInv, TypeOK
  <2>2. rt'[cur] = "work" /\ vim' /\ UNCHANGED <<cur, ops, late, release, kt, kdu>>
    BY <1>3, <2>1 DEF LaunchRo
  <2> QED
    BY <2>2 DEF VimThere, Instantiating, Deploying
<1>4. CASE LaunchHelm
  BY <1>0, <1>4 DEF LaunchHelm
<1>5. CASE DeletesAll \/ DeleteSpaces
  <2>1. cur' = cur /\ ops' = ops /\ ~Deploying(cur)
    BY <1>5, StepKinds DEF DeletesAll, DeleteSpaces
  <2> QED
    BY <2>1 DEF VimThere, Instantiating, Deploying
<1>6. CASE Finishes
  BY <1>0, <1>6 DEF Finishes
<1>7. CASE GivesUp \/ CancelSends \/ VmReport \/ UNCHANGED vars
  <2>1. vnfr.vm = "ACTIVE" => vnfr'.vm = "ACTIVE"
    BY <1>7 DEF GivesUp, CancelSends, VmReport, vars
  <2> QED
    BY <1>0, <1>7, <2>1 DEF GivesUp, CancelSends, VmReport, vars
<1>8. CASE CancelTakes \/ CancelEnds
  <2>1. \A n \in OpNum : /\ rt'[n] \in {rt[n], "cancelled"}
                         /\ \A k \in Kdu :
                               kt'[n][k] \in {kt[n][k], "cancelled", "work"}
    BY <1>8 DEF CancelTakes, CancelEnds, Cancels
  <2>2. release \subseteq release'
    BY <1>8 DEF CancelTakes, CancelEnds, Cancels
  <2> QED
    BY <1>0, <1>8, <2>1, <2>2 DEF CancelTakes, CancelEnds
<1>9. ASSUME NEW n \in OpNum, TaskEffect(n) PROVE VimThere'
  <2>1. SUFFICES ASSUME late = {}, Deploying(cur) PROVE VimThere'
    BY <1>9, TaskStepMoves DEF OperationFrame, VimThere, Instantiating, OrderInv,
       Deploying
  <2>2. n = cur /\ Instantiating
    BY <1>9, <2>1, TaskOfLast DEF Instantiating
  <2>3. ASSUME NEW v \in Vca, Deploys(n, v) \/ Removes(n, v) PROVE VimThere'
    BY <1>0, <2>3 DEF Deploys, Removes, VcaFrame
  <2>4. ASSUME NEW k \in Kdu, KduMoves(n, k) PROVE VimThere'
    <3>1. Deploying(n) /\ ~Undeploying(n)
      BY <2>1, <2>2, OtherTaskKinds
    <3> QED
      BY <2>2, <2>4, <3>1 DEF VimThere, KduMoves
  <2>5. CASE RoMoves(n)
    <3>1. Deploying(n) /\ ~Undeploying(n)
      BY <2>1, <2>2, OtherTaskKinds
    <3>2. /\ UNCHANGED <<cur, kt, release, kdu>> /\ rt[cur] = "work"
          /\ rt'[cur] \in {"done", "failed"} /\ (vim' => vim)
          /\ rt'[cur] = "done" => vnfr'.vm = "ACTIVE" /\ vim' = vim
      BY <2>2, <2>5, <3>1 DEF RoMoves
    <3>3. vim /\ \A k \in Kdu : kt[cur][k] = "done" =>
                     k \in release /\ kdu[k].status = "READY"
      BY <2>2, <3>2 DEF VimThere
    <3>4. rt'[cur] = "done" => vim'
      BY <3>2, <3>3
    <3>5. rt'[cur] # "work"
      BY <3>2
    <3> QED
      BY <3>2, <3>3, <3>4, <3>5 DEF VimThere
  <2>6. CASE DeleteMoves(n)
    BY <1>0, <2>6 DEF DeleteMoves
  <2> QED
    BY <1>9, <2>3, <2>4, <2>5, <2>6 DEF TaskEffect
<1> QED
  BY <1>1, <1>2, <1>3, <1>4, <1>5, <1>6, <1>7, <1>8, <1>9 DEF Effects

\* A step between two operations.
BetweenThem ==
    /\ main.pc = "idle" /\ TasksMove /\ UNCHANGED <<nsd, nsr, cur, late>>
    /\ \A n \in OpNum : /\ ops'[n].kind = ops[n].kind
                        /\ \/ ops'[n].state = ops[n].state
                           \/ ops'[n].state = "FAILED_TEMP"

LEMMA StepsToIdle ==
    ASSUME NeededInv, Effects, main'.pc = "idle"
    PROVE  Finishes \/ BetweenThem
<1> USE DEF BetweenThem, recVars
<1>0. main.pc # "idle" => cur \in OpNum
  BY DEF NeededInv, Numbered
<1>1. ~Starts /\ ~GivesUp /\ ~CancelTakes
  BY DEF Starts, GivesUp, CancelTakes
<1>2. \A k \in Kdu : ~DeployKdu(k)
  <2>1. SUFFICES ASSUME NEW k \in Kdu, DeployKdu(k) PROVE FALSE
    OBVIOUS
  <2> QED
    BY <2>1, MainRecord DEF DeployKdu
<1>3. ~LaunchRo /\ ~LaunchHelm
  BY MainRecord DEF LaunchRo, LaunchHelm
<1>4. ~DeletesAll /\ ~DeleteSpaces
  BY <1>0, RestEffect DEF DeletesAll, DeleteSpaces, Rests
<1>5. CASE CancelSends \/ VmReport \/ UNCHANGED vars
  BY <1>5, NoMove DEF CancelSends, VmReport, vars
<1>6. CASE CancelEnds
  BY <1>6, NoMove, CancelMoves DEF CancelEnds
<1>7. ASSUME NEW n \in OpNum, TaskEffect(n) PROVE Finishes \/ BetweenThem
  <2>1. OperationFrame /\ TasksMove
    BY <1>7, TaskStepMoves
  <2>2. CASE main.pc = "idle"
    BY <2>1, <2>2 DEF OperationFrame
  <2> QED
    BY <2>1, <2>2 DEF OperationFrame
<1> QED
  BY <1>1, <1>2, <1>3, <1>4, <1>5, <1>6, <1>7 DEF Effects

\* Then nothing is at work: tasks are as they were.
LEMMA TasksRest ==
    ASSUME OrderInv, BetweenThem, NEW n \in OpNum, n \notin late
    PROVE  /\ rt'[n] = rt[n] /\ dt'[n] = dt[n]
           /\ \A v \in Vca : vt'[n][v] = vt[n][v]
           /\ \A k \in Kdu : kt'[n][k] = kt[n][k]
<1>1. ~AnyPending(n)
  BY DEF OrderInv, Settled, BetweenThem
<1> QED
  BY <1>1, PendingFacts DEF BetweenThem, TasksMove, Moves

LEMMA CompletedDoneKept ==
    ASSUME OrderInv, OrderInv', CompletedDone, Effects
    PROVE  CompletedDone'
<1>1. SUFFICES ASSUME main'.pc = "idle", cur' \in OpNum,
                      ops'[cur'].kind = "instantiate", ops'[cur'].state = "COMPLETED"
               PROVE  /\ \A v \in Vca : vt'[cur'][v] = "done"
                      /\ \A k \in Kdu : kt'[cur'][k] = "done"
                      /\ rt'[cur'] = "done"
  BY DEF CompletedDone, Deploying
<1>2. CASE Finishes
  <2>1. UNCHANGED <<cur, vt, kt, rt>> /\ Deploying(cur) /\ main.pc = "wait"
    BY <1>1, <1>2 DEF Finishes, taskVars, Deploying
  <2>2. ~main.exc /\ ~VcaUnfinished /\ ~VimUnfinished
    BY <1>1, <1>2, <2>1 DEF Finishes
  <2>3. /\ \A v \in Vca : vt[cur][v] # "off"
        /\ \A k \in Kdu : kt[cur][k] # "off"
        /\ rt[cur] # "off"
    BY <2>1, <2>2 DEF OrderInv, Launching
  <2> QED
    BY <2>1, <2>2, <2>3 DEF VcaUnfinished, VimUnfinished, Unfinished
<1>3. CASE BetweenThem
  <2>1. cur' = cur /\ cur \in OpNum /\ ops[cur].state = "COMPLETED" /\ Deploying(cur)
        /\ main.pc = "idle"
    BY <1>1, <1>3 DEF BetweenThem, Deploying
  <2>2. cur \notin late
    BY <2>1 DEF OrderInv, LateOnes
  <2> QED
    BY <1>3, <2>1, <2>2, TasksRest DEF CompletedDone
<1> QED
  BY <1>1, <1>2, <1>3, StepsToIdle DEF OrderInv

LEMMA LocatedKept ==
    ASSUME OrderInv, OrderInv', Located, Effects
    PROVE  Located'
<1>1. SUFFICES ASSUME main'.pc = "idle", Instantiating'
               PROVE  /\ nsr'.config = "configured" <=> ~VcaUnfinished'
                      /\ nsr'.oper = "running" => ~VimUnfinished'
  BY DEF Located
<1>2. CASE Finishes
  <2>1. UNCHANGED <<cur, vt, kt, rt>> /\ Deploying(cur)
    BY <1>1, <1>2 DEF Finishes, taskVars, Deploying, Instantiating
  <2>2. /\ nsr'.config = "configured" <=> ~VcaUnfinished
        /\ nsr'.oper = "running" <=> ~VimUnfinished
    BY <1>2, <2>1 DEF Finishes, Deploying, Undeploying
  <2>3. (VcaUnfinished' <=> VcaUnfinished) /\ (VimUnfinished' <=> VimUnfinished)
    BY <2>1 DEF VcaUnfinished, VimUnfinished
  <2> QED
    BY <2>2, <2>3
<1>3. CASE BetweenThem
  <2>1. Instantiating /\ main.pc = "idle" /\ UNCHANGED <<cur, nsr>>
    BY <1>1, <1>3 DEF BetweenThem, Instantiating, Deploying
  <2>2. /\ rt'[cur] = rt[cur]
        /\ \A v \in Vca : vt'[cur][v] = vt[cur][v]
        /\ \A k \in Kdu : kt'[cur][k] = kt[cur][k]
    BY <1>3, <2>1, TasksRest DEF Instantiating
  <2>3. (VcaUnfinished' <=> VcaUnfinished) /\ (VimUnfinished' <=> VimUnfinished)
    BY <2>1, <2>2 DEF VcaUnfinished, VimUnfinished
  <2> QED
    BY <2>1, <2>3 DEF Located
<1> QED
  BY <1>1, <1>2, <1>3, StepsToIdle DEF OrderInv

OutcomeInv ==
    OrderInv /\ EnvsThere /\ VimThere /\ CompletedDone /\ Located

LEMMA OutcomeInit == ASSUME Init PROVE OutcomeInv
<1>1. NeededInv
  BY NeededInit
<1>2. /\ main.pc = "idle" /\ cur = 0 /\ late = {}
      /\ \A n \in OpNum : /\ ops[n].kind = "none" /\ ops[n].state = "none"
                          /\ rt[n] = "off" /\ dt[n] = "off"
                          /\ \A v \in Vca : vt[n][v] = "off"
                          /\ \A k \in Kdu : kt[n][k] = "off"
  BY DEF Init, Idle
<1>3. LateOnes /\ Begun /\ SimpleTasks /\ InCharge
  BY <1>2 DEF LateOnes, Begun, SimpleTasks, InCharge, Simple, OpNum
<1>4. Settled /\ Launching /\ Together
  BY <1>2, PendingFacts DEF Settled, Launching, Together
<1>5. cur \notin OpNum
  BY <1>2 DEF OpNum
<1> QED
  BY <1>1, <1>3, <1>4, <1>5
     DEF OutcomeInv, OrderInv, EnvsThere, VimThere, CompletedDone, Located, Instantiating

LEMMA OutcomeKept == ASSUME OutcomeInv, [Next]_vars PROVE OutcomeInv'
<1>1. OrderInv' /\ Effects
  BY OrderKept, StepEffect DEF OutcomeInv, OrderInv
<1> QED
  BY <1>1, EnvsThereKept, VimThereKept, CompletedDoneKept, LocatedKept DEF OutcomeInv

\* An instantiation whose record says COMPLETED has every environment
\* configured, the VMs active and the KDUs deployed, whatever the operations
\* before it did, failed at or were cancelled at, as long as no task of theirs
\* outlived its timeout (NsLcm.instantiate).
THEOREM CompletedRuns == Spec => []CompletedIsRunning
<1>1. Init => OutcomeInv
  BY OutcomeInit
<1>2. OutcomeInv /\ [Next]_vars => OutcomeInv'
  BY OutcomeKept
<1>3. OutcomeInv => CompletedIsRunning
  <2>1. SUFFICES ASSUME OutcomeInv, Last("instantiate", "COMPLETED"), ~Overlapped
                 PROVE  /\ env = Vca
                        /\ \A v \in Vca : vca[v].status = "READY" /\ vca[v].sw
                        /\ vim /\ vnfr.vm = "ACTIVE" /\ release = Kdu
    BY DEF CompletedIsRunning
  <2>2. /\ main.pc = "idle" /\ cur \in OpNum /\ Deploying(cur)
        /\ ops[cur].state = "COMPLETED"
    BY <2>1 DEF Last, Deploying, OutcomeInv, OrderInv, NeededInv, TypeOK, OpNum
  <2>3. late = {}
    <3>1. late \subseteq 1..cur /\ cur \notin late
      BY <2>1, <2>2 DEF OutcomeInv, OrderInv, LateOnes
    <3>2. \A m \in late : m < cur /\ cur <= cur
      BY <2>2, <3>1 DEF OpNum
    <3> QED
      BY <2>1, <2>2, <3>2 DEF Overlapped
  <2>4. /\ \A v \in Vca : vt[cur][v] = "done"
        /\ \A k \in Kdu : kt[cur][k] = "done"
        /\ rt[cur] = "done"
    BY <2>1, <2>2 DEF OutcomeInv, CompletedDone
  <2>5. Instantiating /\ "done" \in Installed /\ "done" \in Existing
    BY <2>2, <2>3 DEF Instantiating, Installed, Existing
  <2>6. /\ \A v \in Vca : v \in env /\ vca[v].status = "READY" /\ vca[v].sw
        /\ vim /\ vnfr.vm = "ACTIVE" /\ \A k \in Kdu : k \in release
    BY <2>1, <2>4, <2>5 DEF OutcomeInv, EnvsThere, VimThere
  <2> QED
    BY <2>1, <2>6 DEF OutcomeInv, OrderInv, NeededInv, TypeOK
<1> QED
  BY <1>1, <1>2, <1>3, PTL DEF Spec

-----------------------------------------------------------------------------
(* What the record of the NS knows, and what a termination reads of it.     *)

\* Every environment, and every task of an instantiation, has an entry.
Known ==
    \A v \in Vca :
        /\ vca[v].known \/ vca[v].status = "none"
        /\ v \in env => vca[v].known
        /\ \A n \in OpNum : Deploying(n) /\ vt[n][v] # "off" => vca[v].known

\* The copy a termination reads is what the record says.
Terminating == cur \in OpNum /\ Undeploying(cur) /\ main.pc # "idle"

CopyHolds ==
    Terminating =>
        /\ \A v \in Vca :
              /\ copy.vca[v].known = vca[v].known
              /\ copy.vca[v].status # "none" => vca[v].known
        /\ \A k \in Kdu : k \in copy.kdus <=> kdu[k].instance

LEMMA KnownKept ==
    ASSUME OrderInv, OrderInv', Known, CopyHolds, Effects
    PROVE  Known'
<1> USE DEF recVars, extVars, taskVars
<1>0. ASSUME \A v \in Vca : /\ vca[v].known => vca'[v].known
                            /\ vca'[v].status = "none" \/ vca'[v].known
                            /\ v \in env' => v \in env \/ vca'[v].known
                            /\ \A n \in OpNum :
                                  vt'[n][v] # "off" => vt[n][v] # "off"
                                                       \/ vca'[v].known,
             \A n \in OpNum : ops'[n].kind = ops[n].kind
      PROVE  Known'
  BY <1>0 DEF Known, Deploying
<1>a. ASSUME vca' = vca PROVE \A v \in Vca : vca'[v].status = "none" \/ vca'[v].known
  BY <1>a DEF Known
<1>1. CASE Starts
  <2>1. \A n \in OpNum, v \in Vca :
            ops'[n].kind = "instantiate" /\ vt'[n][v] # "off" =>
                Deploying(n) /\ vt[n][v] # "off"
    <3>1. \A n \in OpNum : n # cur' => ops'[n] = ops[n] /\ vt'[n] = vt[n]
      BY <1>1 DEF Starts
    <3>2. ops'[cur'].kind = "instantiate" => \A v \in Vca : vt'[cur'][v] = "off"
      BY <1>1, NewStart
    <3> QED
      BY <3>1, <3>2 DEF Deploying
  <2> QED
    BY <1>1, <2>1 DEF Known, Starts, Deploying
<1>2. ASSUME NEW k \in Kdu, DeployKdu(k) PROVE Known'
  BY <1>0, <1>2, <1>a DEF DeployKdu
<1>3. CASE LaunchRo \/ LaunchHelm
  <2>1. cur \in OpNum /\ NeededInv /\ ops' = ops /\ env' = env
    BY <1>3, StepKinds DEF OrderInv, LaunchRo, LaunchHelm
  <2>2. CASE UNCHANGED <<vca, vt>>
    BY <1>0, <1>a, <2>1, <2>2
  <2>3. CASE LaunchVcas
    <3>1. \A v \in Vca : vca'[v].known
      BY <2>1, <2>3, LaunchEffect DEF Launches
    <3> QED
      BY <3>1 DEF Known
  <2> QED
    BY <1>3, <2>2, <2>3 DEF LaunchRo, LaunchHelm
<1>4. CASE DeletesAll
  <2>1. Terminating
    BY <1>4, StepKinds DEF DeletesAll, Terminating
  <2>2. \A v \in Vca : /\ vca'[v].known = vca[v].known
                       /\ vca'[v].status # vca[v].status => vca[v].known
    BY <1>4, <2>1 DEF DeletesAll, CopyHolds
  <2>3. UNCHANGED <<ops, vt, env>>
    BY <1>4 DEF DeletesAll
  <2> QED
    BY <2>2, <2>3 DEF Known, Deploying
<1>5. CASE DeleteSpaces
  BY <1>0, <1>5, <1>a DEF DeleteSpaces
<1>6. CASE Finishes
  BY <1>0, <1>6, <1>a DEF Finishes
<1>7. CASE GivesUp \/ CancelSends \/ VmReport \/ UNCHANGED vars
  BY <1>0, <1>7, <1>a DEF GivesUp, CancelSends, VmReport, vars
<1>8. CASE CancelTakes \/ CancelEnds
  <2>1. \A n \in OpNum, v \in Vca : vt[n][v] = "create" => vca[v].known
    BY DEF Known, OrderInv, NeededInv, KindsAgree, DeployPcs
  <2>2. PICK n \in OpNum : Cancels(n) \/ UNCHANGED <<vt, env>>
    BY <1>8 DEF CancelTakes, CancelEnds
  <2>3. vca' = vca /\ \A m \in OpNum : ops'[m].kind = ops[m].kind
    BY <1>8 DEF CancelTakes, CancelEnds
  <2>4. \A v \in Vca : v \in env' => v \in env \/ vca[v].known
    BY <2>1, <2>2 DEF Cancels
  <2>5. \A m \in OpNum, v \in Vca : vt'[m][v] # "off" => vt[m][v] # "off"
    BY <2>2, PendingFacts DEF Cancels
  <2> QED
    BY <1>0, <1>a, <2>3, <2>4, <2>5
<1>9. ASSUME NEW n \in OpNum, TaskEffect(n) PROVE Known'
  <2>0. \A m \in OpNum, v \in Vca : vt'[m][v] # "off" => vt[m][v] # "off"
    BY <1>9, TaskStepMoves, PendingFacts DEF TasksMove, Moves, OrderInv
  <2>1. \A m \in OpNum : ops'[m].kind = ops[m].kind
    BY <1>9, TaskStepMoves DEF OperationFrame, OrderInv
  <2>2. ASSUME NEW v \in Vca, Deploys(n, v) PROVE Known'
    <3>1. vca[v].known
      <4>1. Deploying(n) /\ vt[n][v] \in DeployPcs
        BY <2>2, TaskKinds DEF Deploys
      <4> QED
        BY <4>1 DEF Known, DeployPcs, Created
    <3>2. /\ vca'[v].known /\ env' \subseteq env \cup {v}
          /\ \A w \in Vca : w # v => vca'[w] = vca[w]
      BY <2>2, <3>1 DEF Deploys
    <3>3. \A w \in Vca : w # v => vca[w].known \/ vca[w].status = "none"
      BY DEF Known
    <3> QED
      BY <1>0, <2>0, <2>1, <3>2, <3>3
  <2>3. ASSUME NEW v \in Vca, Removes(n, v) PROVE Known'
    <3>1. \A w \in Vca : vca'[w].status = "none" \/ vca'[w].known
      BY <2>3 DEF Removes, Known
    <3> QED
      BY <1>0, <2>0, <2>1, <2>3, <3>1 DEF Removes
  <2>4. ASSUME NEW k \in Kdu, KduMoves(n, k) PROVE Known'
    BY <1>0, <1>a, <2>0, <2>1, <2>4 DEF KduMoves
  <2>5. CASE RoMoves(n)
    BY <1>0, <1>a, <2>0, <2>1, <2>5 DEF RoMoves
  <2>6. CASE DeleteMoves(n)
    <3>1. \A w \in Vca : vca'[w].status = "none" \/ vca'[w].known
      BY <2>6 DEF DeleteMoves, Known
    <3> QED
      BY <1>0, <2>0, <2>1, <2>6, <3>1 DEF DeleteMoves
  <2> QED
    BY <1>9, <2>2, <2>3, <2>4, <2>5, <2>6 DEF TaskEffect
<1> QED
  BY <1>1, <1>2, <1>3, <1>4, <1>5, <1>6, <1>7, <1>8, <1>9 DEF Effects

LEMMA CopyHoldsKept ==
    ASSUME OrderInv, OrderInv', Known, CopyHolds, Effects
    PROVE  CopyHolds'
<1> USE DEF recVars, extVars, taskVars
<1>0. ASSUME UNCHANGED <<copy, cur>>, main'.pc # "idle" => main.pc # "idle",
             \A v \in Vca : vca'[v].known = vca[v].known,
             \A k \in Kdu : kdu'[k].instance = kdu[k].instance,
             \A n \in OpNum : ops'[n].kind = ops[n].kind
      PROVE  CopyHolds'
  BY <1>0 DEF CopyHolds, Terminating, Undeploying
<1>1. CASE StartInstantiate \/ StartTerminate
  <2>1. CASE StartInstantiate
    <3>1. ~Terminating'
      BY <2>1, StartEffect DEF StartInstantiate, Terminating, Undeploying, Starts,
         OrderInv
    <3> QED
      BY <3>1 DEF CopyHolds
  <2>2. CASE StartTerminate
    <3>1. copy' = [vca |-> vca, kdus |-> {k \in Kdu : kdu[k].instance}]
          /\ UNCHANGED <<vca, kdu>>
      BY <2>2 DEF StartTerminate
    <3> QED
      BY <3>1 DEF CopyHolds, Known
  <2> QED
    BY <1>1, <2>1, <2>2
<1>2. ASSUME NEW k \in Kdu, DeployKdu(k) PROVE CopyHolds'
  <2>1. ~Undeploying(cur) /\ UNCHANGED <<cur, ops>>
    BY <1>2, StepKinds DEF DeployKdu
  <2> QED
    BY <2>1 DEF CopyHolds, Terminating, Undeploying
<1>3. CASE LaunchRo \/ LaunchHelm
  <2>1. ~Undeploying(cur) /\ UNCHANGED <<cur, ops>>
    BY <1>3, StepKinds DEF LaunchRo, LaunchHelm
  <2> QED
    BY <2>1 DEF CopyHolds, Terminating, Undeploying
<1>4. CASE DeletesAll
  BY <1>0, <1>4 DEF DeletesAll
<1>5. CASE DeleteSpaces
  BY <1>0, <1>5 DEF DeleteSpaces
<1>6. CASE Finishes
  BY <1>6 DEF Finishes, Idle, CopyHolds, Terminating
<1>7. CASE GivesUp \/ CancelSends \/ VmReport \/ UNCHANGED vars
  BY <1>0, <1>7 DEF GivesUp, CancelSends, VmReport, vars
<1>8. CASE CancelTakes \/ CancelEnds
  BY <1>0, <1>8 DEF CancelTakes, CancelEnds
<1>9. ASSUME NEW n \in OpNum, TaskEffect(n) PROVE CopyHolds'
  <2>1. OperationFrame
    BY <1>9, TaskStepMoves DEF OrderInv
  <2>2. /\ \A v \in Vca : vca'[v].known = vca[v].known
        /\ \A k \in Kdu : kdu'[k].instance = kdu[k].instance
    BY <1>9 DEF TaskEffect, Deploys, Removes, KduMoves, RoMoves, DeleteMoves, VcaFrame
  <2> QED
    BY <1>0, <2>1, <2>2 DEF OperationFrame
<1> QED
  BY <1>1, <1>2, <1>3, <1>4, <1>5, <1>6, <1>7, <1>8, <1>9 DEF Effects

-----------------------------------------------------------------------------
(* What a termination leaves in the record.                                 *)

\* The tasks that delete come after the primitives; without the one for all
\* environments there are helm charts, or none at all.
DeletesInOrder ==
    Terminating =>
        /\ main.pc \in {"prims", "spaces"} =>
              /\ dt[cur] = "off" /\ rt[cur] = "off"
              /\ \A k \in Kdu : kt[cur][k] = "off"
        /\ main.pc = "spaces" => HasHelm
        /\ main.pc = "wait" /\ ~main.exc =>
              /\ rt[cur] # "off"
              /\ dt[cur] = "off" => HasHelm \/ \A v \in Vca : ~vca[v].known

\* After it no environment is shown as configured.
NoneReady ==
    (late = {} /\ cur \in OpNum /\ Undeploying(cur) /\ dt[cur] = "done") =>
        \A v \in Vca : vca[v].status # "READY"

LEMMA DeletesInOrderKept ==
    ASSUME OrderInv, OrderInv', CopyHolds, DeletesInOrder, Effects
    PROVE  DeletesInOrder'
<1> USE DEF recVars, extVars, taskVars
<1>0. ASSUME UNCHANGED <<nsd, cur, main>>, TasksMove,
             \A v \in Vca : vca'[v].known => vca[v].known,
             \A n \in OpNum : ops'[n].kind = ops[n].kind
      PROVE  DeletesInOrder'
  <2>1. \A n \in OpNum : /\ rt[n] = "off" <=> rt'[n] = "off"
                         /\ dt[n] = "off" <=> dt'[n] = "off"
                         /\ \A k \in Kdu : kt[n][k] = "off" <=> kt'[n][k] = "off"
    BY <1>0, PendingFacts DEF TasksMove, Moves
  <2> QED
    BY <1>0, <2>1 DEF DeletesInOrder, Terminating, Undeploying, HasHelm, Type
<1>1. CASE Starts
  <2>1. Terminating' => main'.pc = "prims"
    BY <1>1, NewStart DEF Terminating, Undeploying
  <2> QED
    BY <1>1, <2>1, NewStart DEF DeletesInOrder
<1>2. ASSUME NEW k \in Kdu, DeployKdu(k) PROVE DeletesInOrder'
  <2>1. ~Undeploying(cur) /\ UNCHANGED <<cur, ops>>
    BY <1>2, StepKinds DEF DeployKdu
  <2> QED
    BY <2>1 DEF DeletesInOrder, Terminating, Undeploying
<1>3. CASE LaunchRo \/ LaunchHelm
  <2>1. ~Undeploying(cur) /\ UNCHANGED <<cur, ops>>
    BY <1>3, StepKinds DEF LaunchRo, LaunchHelm
  <2> QED
    BY <2>1 DEF DeletesInOrder, Terminating, Undeploying
<1>4. CASE DeletesAll
  <2>1. Terminating /\ main.pc = "prims" /\ UNCHANGED <<nsd, cur, ops>>
    BY <1>4, StepKinds DEF DeletesAll, Terminating
  <2>2. CASE HelmKnown /\ main'.pc = "spaces" /\ UNCHANGED <<vca, kt, rt, dt>>
    <3>1. HasHelm' /\ HasHelm
      BY <2>1, <2>2 DEF HelmKnown, HasHelm, Type
    <3> QED
      BY <2>1, <2>2, <3>1 DEF DeletesInOrder
  <2>3. CASE Rests /\ dt'[cur] = IF AnyKnown THEN "work" ELSE "off"
    <3>1. ~AnyKnown => \A v \in Vca : ~vca'[v].known
      BY <1>4, <2>1 DEF AnyKnown, CopyHolds, DeletesAll
    <3> QED
      BY <2>1, <2>3, <3>1 DEF DeletesInOrder, Rests
  <2> QED
    BY <1>4, <2>2, <2>3 DEF DeletesAll
<1>5. CASE DeleteSpaces
  <2>1. Terminating /\ main.pc = "spaces" /\ UNCHANGED <<nsd, cur, ops>>
    BY <1>5, StepKinds DEF DeleteSpaces, Terminating
  <2>2. Rests
    BY <1>5, <2>1, RestEffect DEF DeleteSpaces, OrderInv, Terminating
  <2>3. HasHelm'
    BY <2>1 DEF DeletesInOrder, HasHelm, Type
  <2> QED
    BY <2>1, <2>2, <2>3 DEF DeletesInOrder, Rests
<1>6. CASE Finishes
  BY <1>6 DEF Finishes, Idle, DeletesInOrder, Terminating
<1>7. CASE GivesUp \/ CancelTakes
  BY <1>7 DEF GivesUp, CancelTakes, DeletesInOrder
<1>8. CASE CancelSends \/ VmReport \/ UNCHANGED vars
  BY <1>0, <1>8, NoMove DEF CancelSends, VmReport, vars
<1>9. CASE CancelEnds
  <2>1. TasksMove
    BY <1>9, NoMove, CancelMoves DEF CancelEnds
  <2> QED
    BY <1>0, <1>9, <2>1 DEF CancelEnds
<1>10. ASSUME NEW n \in OpNum, TaskEffect(n) PROVE DeletesInOrder'
  <2>1. OperationFrame /\ TasksMove
    BY <1>10, TaskStepMoves DEF OrderInv
  <2>2. \A v \in Vca : vca'[v].known = vca[v].known
    BY <1>10 DEF TaskEffect, Deploys, Removes, KduMoves, RoMoves, DeleteMoves, VcaFrame
  <2> QED
    BY <1>0, <2>1, <2>2 DEF OperationFrame
<1> QED
  BY <1>1, <1>2, <1>3, <1>4, <1>5, <1>6, <1>7, <1>8, <1>9, <1>10 DEF Effects

LEMMA NoneReadyKept ==
    ASSUME OrderInv, OrderInv', DeletesInOrder, NoneReady, Effects
    PROVE  NoneReady'
<1> USE DEF recVars, extVars, taskVars
<1>0. ASSUME cur' = cur, late' = {} => late = {},
             \A v \in Vca : vca'[v].status = "READY" => vca[v].status = "READY",
             \A n \in OpNum : /\ ops'[n].kind = ops[n].kind
                              /\ dt'[n] \in {dt[n], "cancelled"}
      PROVE  NoneReady'
  BY <1>0 DEF NoneReady, Undeploying
<1>1. CASE Starts
  BY <1>1, NewStart DEF NoneReady
<1>2. ASSUME NEW k \in Kdu, DeployKdu(k) PROVE NoneReady'
  BY <1>0, <1>2 DEF DeployKdu
<1>3. CASE LaunchRo \/ LaunchHelm
  <2>1. ~Undeploying(cur) /\ UNCHANGED <<cur, ops>>
    BY <1>3, StepKinds DEF LaunchRo, LaunchHelm
  <2> QED
    BY <2>1 DEF NoneReady, Undeploying
<1>4. CASE DeletesAll
  <2>1. dt[cur] = "off" /\ cur' = cur
    BY <1>4, StepKinds DEF DeletesAll, DeletesInOrder, Terminating
  <2>2. dt'[cur] # "done"
    BY <1>4, <2>1 DEF DeletesAll
  <2> QED
    BY <2>1, <2>2 DEF NoneReady
<1>5. CASE DeleteSpaces \/ Finishes
  BY <1>0, <1>5 DEF DeleteSpaces, Finishes
<1>6. CASE GivesUp \/ CancelSends \/ VmReport \/ UNCHANGED vars
  BY <1>0, <1>6 DEF GivesUp, CancelSends, VmReport, vars
<1>7. CASE CancelTakes \/ CancelEnds
  <2>1. \A n \in OpNum : dt'[n] \in {dt[n], "cancelled"}
    BY <1>7 DEF CancelTakes, CancelEnds, Cancels
  <2> QED
    BY <1>0, <1>7, <2>1 DEF CancelTakes, CancelEnds
<1>8. ASSUME NEW n \in OpNum, TaskEffect(n) PROVE NoneReady'
  <2>1. SUFFICES ASSUME late = {}, Undeploying(cur) PROVE NoneReady'
    BY <1>8, TaskStepMoves DEF OperationFrame, NoneReady, OrderInv, Undeploying
  <2>2. n = cur
    BY <1>8, <2>1, TaskOfLast
  <2>3. ASSUME NEW v \in Vca, Deploys(n, v) PROVE NoneReady'
    BY <2>1, <2>2, <2>3, TaskKinds
  <2>4. ASSUME NEW v \in Vca, Removes(n, v) PROVE NoneReady'
    BY <1>0, <2>4 DEF Removes, VcaFrame
  <2>5. ASSUME NEW k \in Kdu, KduMoves(n, k) PROVE NoneReady'
    BY <1>0, <2>5 DEF KduMoves
  <2>6. CASE RoMoves(n)
    BY <1>0, <2>6 DEF RoMoves
  <2>7. CASE DeleteMoves(n)
    BY <2>2, <2>7 DEF DeleteMoves, NoneReady
  <2> QED
    BY <1>8, <2>3, <2>4, <2>5, <2>6, <2>7 DEF TaskEffect
<1> QED
  BY <1>1, <1>2, <1>3, <1>4, <1>5, <1>6, <1>7, <1>8 DEF Effects

-----------------------------------------------------------------------------
(* READY is the word of the last instantiation.                             *)

\* The statuses of native charms are those of the operations before until
\* their tasks write them, and a termination that removes the namespace of
\* helm does not write any.
NativeNotHelm ==
    \A d \in Descriptors, v \in Vca, w \in Vca :
        d.type[v] = "native" => d.type[w] # "helm"

\* Before its environments are launched an instantiation finds none READY,
\* of those whose status is not written then.
Fresh ==
    (late = {} /\ (nsr.admin = "NOT_INSTANTIATED" \/ main.pc \in {"kdus", "certs"})) =>
        \A v \in Vca : Type(v) = "native" => vca[v].status # "READY"

LEMMA FreshKept ==
    ASSUME NativeNotHelm, OrderInv, OrderInv', Known, DeletesInOrder, NoneReady, Fresh,
           Effects
    PROVE  Fresh'
<1> USE DEF recVars, extVars, taskVars
<1>0. ASSUME UNCHANGED <<nsd, vca>>, late' = {} => late = {},
             \/ nsr.admin = "NOT_INSTANTIATED"
             \/ main.pc \in {"kdus", "certs"}
             \/ main'.pc \notin {"idle", "kdus", "certs"}
             \/ main'.pc = main.pc /\ nsr'.admin = nsr.admin
      PROVE  Fresh'
  BY <1>0 DEF Fresh, OrderInv, InCharge, Type
<1>1. CASE StartInstantiate \/ StartTerminate
  BY <1>0, <1>1 DEF StartInstantiate, StartTerminate
<1>a. ASSUME main'.pc \notin {"idle", "kdus", "certs"} PROVE Fresh'
  BY <1>a DEF Fresh, OrderInv, InCharge
<1>2. ASSUME NEW k \in Kdu, DeployKdu(k) PROVE Fresh'
  BY <1>0, <1>2 DEF DeployKdu
<1>3. CASE LaunchRo \/ LaunchHelm
  <2>1. CASE UNCHANGED <<vca, vt>>
    <3>1. main.pc \in {"kdus", "certs"} /\ nsd' = nsd /\ late' = late
      BY <1>3 DEF LaunchRo, LaunchHelm
    <3> QED
      BY <1>0, <2>1, <3>1
  <2>2. main'.pc = "certs" => UNCHANGED <<vca, vt>>
    BY <1>3, MainRecord DEF LaunchRo, LaunchHelm, OrderInv
  <2>3. main'.pc \in {"certs", "wait"}
    BY <1>3, MainRecord DEF LaunchRo, LaunchHelm, OrderInv
  <2> QED
    BY <1>a, <2>1, <2>2, <2>3
<1>4. CASE DeletesAll
  BY <1>a, <1>4 DEF DeletesAll, Rests
<1>5. CASE DeleteSpaces
  <2>1. main'.pc = "wait"
    BY <1>5, StepKinds, RestEffect DEF DeleteSpaces, Rests, OrderInv
  <2> QED
    BY <1>a, <2>1
<1>6. CASE Finishes
  <2>1. SUFFICES ASSUME late' = {}, nsr'.admin = "NOT_INSTANTIATED",
                        NEW v \in Vca, Type(v) = "native"
                 PROVE  vca[v].status # "READY"
    BY <1>6 DEF Finishes, Idle, Fresh, Type
  <2>2. nsr.admin = "INSTANTIATED"
    BY <1>6 DEF Finishes, OrderInv, InCharge
  <2>3. /\ Undeploying(cur) /\ main.pc = "wait" /\ ops'[cur].state = "COMPLETED"
        /\ late = {} /\ ~AnyPending(cur)
    BY <1>6, <2>1, <2>2 DEF Finishes
  <2>4. ~main.exc /\ ~Unfinished(dt[cur]) /\ cur \in OpNum
    BY <1>6, <2>3 DEF Finishes
  <2>5. CASE dt[cur] = "done"
    BY <2>3, <2>4, <2>5 DEF NoneReady
  <2>6. CASE dt[cur] = "off"
    <3>1. HasHelm \/ \A w \in Vca : ~vca[w].known
      BY <2>3, <2>4, <2>6 DEF DeletesInOrder, Terminating
    <3>2. ~HasHelm
      BY <2>1 DEF HasHelm, Type, NativeNotHelm, OrderInv, NeededInv, TypeOK
    <3> QED
      BY <3>1, <3>2 DEF Known
  <2> QED
    BY <2>4, <2>5, <2>6 DEF Unfinished
<1>7. CASE GivesUp \/ CancelTakes
  BY <1>7, <1>a DEF GivesUp, CancelTakes
<1>8. CASE CancelSends \/ VmReport \/ UNCHANGED vars \/ CancelEnds
  BY <1>0, <1>8 DEF CancelSends, VmReport, vars, CancelEnds
<1>9. ASSUME NEW n \in OpNum, TaskEffect(n) PROVE Fresh'
  <2>1. OperationFrame
    BY <1>9, TaskStepMoves DEF OrderInv
  <2>2. SUFFICES ASSUME late = {}, main.pc \in {"kdus", "certs"} PROVE Fresh'
    <3>1. late = {} => main.pc # "idle"
      BY <1>9, TaskOfLast
    <3> QED
      BY <2>1, <2>2, <3>1 DEF Fresh, OperationFrame, OrderInv, InCharge
  <2>3. n = cur
    BY <1>9, <2>2, TaskOfLast
  <2>4. /\ \A v \in Vca : vt[n][v] = "off"
        /\ Deploying(n) /\ ~Undeploying(n)
    BY <2>2, <2>3
       DEF OrderInv, Launching, NeededInv, KindsAgree, Deploying, Undeploying
  <2>5. vca' = vca
    <3>1. \A v \in Vca : ~Deploys(n, v) /\ ~Removes(n, v)
      BY <2>4 DEF Deploys, Removes, DeployPcs, Created
    <3>2. ~DeleteMoves(n)
      BY <2>4, OtherTaskKinds
    <3> QED
      BY <1>9, <3>1, <3>2 DEF TaskEffect, KduMoves, RoMoves
  <2> QED
    BY <1>0, <2>1, <2>5 DEF OperationFrame
<1> QED
  BY <1>1, <1>2, <1>3, <1>4, <1>5, <1>6, <1>7, <1>8, <1>9 DEF Effects

LastDeploy(n) == Deploying(n) /\ \A m \in OpNum : Deploying(m) => m <= n

\* An environment that is READY was made so by the last instantiation that has
\* a task for it, unless one began while tasks before it may go on.
ReadyIsDone ==
    ~Overlapped => \A n \in OpNum, v \in Vca :
        (LastDeploy(n) /\ vca[v].status = "READY" /\ vt[n][v] # "off") =>
            vt[n][v] = "done"

\* A step keeps the operations there are, and their kinds.
LEMMA KindsStay ==
    ASSUME OrderInv, OrderInv', Effects
    PROVE  /\ late \subseteq late'
           /\ \A n \in OpNum : n <= cur => n <= cur' /\ ops'[n].kind = ops[n].kind
           /\ \/ cur' = cur /\ \A n \in OpNum : ops'[n].kind = ops[n].kind
              \/ Starts
<1> USE DEF recVars, extVars, taskVars
<1>1. CASE Starts
  <2>1. \A n \in OpNum : n <= cur => n <= cur' /\ n # cur'
    BY <1>1 DEF Starts, OpNum
  <2> QED
    BY <1>1, <2>1 DEF Starts
<1>2. CASE UNCHANGED <<cur, ops, late>>
  BY <1>2
<1>3. (\E k \in Kdu : DeployKdu(k)) \/ LaunchRo \/ LaunchHelm \/ DeletesAll
          \/ DeleteSpaces \/ GivesUp \/ CancelSends \/ CancelTakes \/ VmReport
          \/ UNCHANGED vars => UNCHANGED <<cur, ops, late>>
  BY DEF DeployKdu, LaunchRo, LaunchHelm, DeletesAll, DeleteSpaces, GivesUp,
     CancelSends, CancelTakes, VmReport, vars
<1>4. CASE Finishes \/ CancelEnds
  BY <1>4 DEF Finishes, CancelEnds
<1>5. ASSUME NEW n \in OpNum, TaskEffect(n) PROVE UNCHANGED <<cur, ops, late>>
  BY <1>5, TaskStepMoves DEF OperationFrame, OrderInv
<1> QED
  BY <1>1, <1>2, <1>3, <1>4, <1>5 DEF Effects

LEMMA OverlapStays ==
    ASSUME OrderInv, OrderInv', Effects, Overlapped
    PROVE  Overlapped'
<1>1. PICK left \in late, n \in OpNum : left < n /\ n <= cur /\ Deploying(n)
  BY DEF Overlapped
<1>2. left \in late' /\ n <= cur' /\ ops'[n].kind = "instantiate"
  BY <1>1, KindsStay DEF Deploying
<1> QED
  BY <1>1, <1>2 DEF Overlapped, Deploying

\* Nothing is left behind when the last operation that runs is an instantiation;
\* the tasks of an instantiation at work are those of the last one.
LEMMA NoOverlap ==
    ASSUME OrderInv, ~Overlapped
    PROVE  /\ (cur \in OpNum /\ Deploying(cur) /\ main.pc # "idle") =>
                  late = {} /\ LastDeploy(cur)
           /\ \A n \in OpNum : Deploying(n) /\ AnyPending(n) => LastDeploy(n)
<1>0. /\ cur \in Nat /\ late \subseteq 1..cur /\ (main.pc # "idle" => cur \notin late)
      /\ \A n \in OpNum : n \in Nat /\ (Deploying(n) => n <= cur)
  BY DEF OrderInv, LateOnes, Begun, NeededInv, TypeOK, OpNum, Deploying
<1>1. ASSUME cur \in OpNum, Deploying(cur), main.pc # "idle"
      PROVE  late = {} /\ LastDeploy(cur)
  <2>1. \A left \in late : left < cur /\ cur <= cur
    BY <1>0, <1>1
  <2> QED
    BY <1>0, <1>1, <2>1 DEF Overlapped, LastDeploy
<1>2. ASSUME NEW n \in OpNum, Deploying(n), AnyPending(n) PROVE LastDeploy(n)
  <2>1. ASSUME NEW m \in OpNum, Deploying(m), ~(m <= n) PROVE FALSE
    <3>1. n < m /\ m <= cur /\ n # cur
      BY <1>0, <2>1
    <3>2. n \in late
      BY <1>2, <3>1 DEF OrderInv, Settled
    <3> QED
      BY <2>1, <3>1, <3>2 DEF Overlapped
  <2> QED
    BY <1>2, <2>1 DEF LastDeploy
<1> QED
  BY <1>1, <1>2

\* There is one last instantiation.
LEMMA OneLast ==
    ASSUME NEW n \in OpNum, NEW m \in OpNum, LastDeploy(n), LastDeploy(m)
    PROVE  n = m
BY DEF LastDeploy, OpNum

\* What was the last instantiation before a step, unless the step begins one.
LEMMA LastStays ==
    ASSUME OrderInv, OrderInv', Effects, NEW n \in OpNum,
           LastDeploy(n)', ~(Starts /\ n = cur')
    PROVE  LastDeploy(n)
<1>0. \A m \in OpNum : Deploying(m) => m <= cur
  BY DEF OrderInv, Begun, NeededInv, TypeOK, OpNum, Deploying
<1>1. \A m \in OpNum : Deploying(m) => ops'[m].kind = "instantiate"
  BY <1>0, KindsStay DEF Deploying
<1>2. ops'[n].kind = ops[n].kind
  <2>1. CASE Starts
    BY <2>1 DEF Starts
  <2>2. CASE ~Starts
    BY <2>2, KindsStay
  <2> QED
    BY <2>1, <2>2
<1> QED
  BY <1>1, <1>2 DEF LastDeploy, Deploying

LEMMA ReadyIsDoneKept ==
    ASSUME OrderInv, OrderInv', Fresh, ReadyIsDone, Effects
    PROVE  ReadyIsDone'
<1> USE DEF recVars, extVars, taskVars
<1>1. SUFFICES ASSUME ~Overlapped', NEW n \in OpNum, NEW v \in Vca, LastDeploy(n)',
                      vca'[v].status = "READY", vt'[n][v] # "off"
               PROVE  vt'[n][v] = "done"
  BY DEF ReadyIsDone
<1>2. ~Overlapped
  BY <1>1, OverlapStays
<1>3. CASE Starts /\ n = cur'
  <2>1. ops'[cur'].kind = "instantiate"
    BY <1>1, <1>3 DEF LastDeploy, Deploying
  <2> QED
    BY <1>1, <1>3, <2>1, NewStart
<1>4. SUFFICES ASSUME ~(Starts /\ n = cur') PROVE vt'[n][v] = "done"
  BY <1>3
<1>5. LastDeploy(n)
  BY <1>1, <1>4, LastStays
<1>0. ASSUME vca'[v].status = "READY" => vca[v].status = "READY", vt'[n] = vt[n]
      PROVE  vt'[n][v] = "done"
  BY <1>0, <1>1, <1>2, <1>5 DEF ReadyIsDone
<1>6. CASE Starts
  BY <1>0, <1>4, <1>6 DEF Starts
<1>7. ASSUME NEW k \in Kdu, DeployKdu(k) PROVE vt'[n][v] = "done"
  BY <1>0, <1>7 DEF DeployKdu
<1>8. CASE LaunchRo \/ LaunchHelm
  <2>1. CASE UNCHANGED <<vca, vt>>
    BY <1>0, <2>1
  <2>2. CASE LaunchVcas
    <3>1. cur \in OpNum /\ Deploying(cur) /\ main.pc \in {"kdus", "certs"}
      BY <1>8, StepKinds DEF LaunchRo, LaunchHelm
    <3>2. late = {} /\ n = cur
      BY <1>2, <1>5, <3>1, NoOverlap, OneLast
    <3>3. Launches
      BY <2>2, <3>1, LaunchEffect DEF OrderInv
    <3>4. vca'[v].status # "READY"
      BY <3>1, <3>2, <3>3 DEF Launches, Fresh
    <3> QED
      BY <1>1, <3>4
  <2> QED
    BY <1>8, <2>1, <2>2 DEF LaunchRo, LaunchHelm
<1>9. CASE DeletesAll
  BY <1>0, <1>9 DEF DeletesAll
<1>10. CASE DeleteSpaces \/ Finishes \/ GivesUp \/ CancelSends \/ VmReport \/ UNCHANGED vars
  BY <1>0, <1>10 DEF DeleteSpaces, Finishes, GivesUp, CancelSends, VmReport, vars
<1>11. CASE CancelTakes \/ CancelEnds
  <2>1. vt'[n][v] = vt[n][v] \/ (Pending(vt[n][v]) /\ vt'[n][v] = "cancelled")
    BY <1>11 DEF CancelTakes, CancelEnds, Cancels
  <2>2. vca' = vca
    BY <1>11 DEF CancelTakes, CancelEnds
  <2>3. vt[n][v] # "off" /\ vt[n][v] = "done"
    BY <1>1, <1>2, <1>5, <2>1, <2>2, PendingFacts DEF ReadyIsDone
  <2> QED
    BY <2>1, <2>3 DEF Pending, Ended
<1>12. ASSUME NEW m \in OpNum, TaskEffect(m) PROVE vt'[n][v] = "done"
  <2>1. ASSUME NEW w \in Vca, Deploys(m, w) PROVE vt'[n][v] = "done"
    <3>1. Deploying(m) /\ AnyPending(m)
      BY <2>1, TaskKinds, PendingFacts DEF Deploys, DeployPcs, Created, Pending, Ended
    <3>2. n = m
      BY <1>2, <1>5, <3>1, NoOverlap, OneLast
    <3>3. vt[n][w] \in DeployPcs /\ vt[n][w] \notin {"off", "done"}
      BY <2>1, <3>2 DEF Deploys, DeployPcs, Created
    <3>4. CASE v = w
      <4>1. vca[v].status # "READY"
        BY <1>2, <1>5, <3>3, <3>4 DEF ReadyIsDone
      <4> QED
        BY <1>1, <2>1, <3>2, <3>4, <4>1 DEF Deploys
    <3>5. CASE v # w
      <4>1. vt'[n][v] = vt[n][v] /\ vca'[v] = vca[v]
        BY <2>1, <3>5 DEF Deploys
      <4> QED
        BY <1>1, <1>2, <1>5, <4>1 DEF ReadyIsDone
    <3> QED
      BY <3>4, <3>5
  <2>2. ASSUME NEW w \in Vca, Removes(m, w) PROVE vt'[n][v] = "done"
    <3>1. n # m
      BY <1>5, <2>2, TaskKinds DEF LastDeploy
    <3>2. vt'[n][v] = vt[n][v] /\ vca'[v].status = vca[v].status
      BY <2>2, <3>1 DEF Removes
    <3> QED
      BY <1>1, <1>2, <1>5, <3>2 DEF ReadyIsDone
  <2>3. ASSUME NEW k \in Kdu, KduMoves(m, k) PROVE vt'[n][v] = "done"
    BY <1>0, <2>3 DEF KduMoves
  <2>4. CASE RoMoves(m) \/ DeleteMoves(m)
    BY <1>0, <2>4 DEF RoMoves, DeleteMoves
  <2> QED
    BY <1>12, <2>1, <2>2, <2>3, <2>4 DEF TaskEffect
<1> QED
  BY <1>6, <1>7, <1>8, <1>9, <1>10, <1>11, <1>12 DEF Effects

LEMMA NsPrimitivesLastKept ==
    ASSUME OrderInv, OrderInv', ReadyIsDone, NsPrimitivesLast, Effects
    PROVE  NsPrimitivesLast'
<1> USE DEF recVars, extVars, taskVars
<1> DEFINE Later(x) == x \in {"first", "more"}
<1>1. SUFFICES ASSUME ~Overlapped', NEW n \in OpNum, NEW v \in nsd'.initial, v \in Vca,
                      nsd'.level[v] = "NS", Later(vt'[n][v]), NEW w \in Vca \ {v}
               PROVE  vt'[n][w] = "done"
  <2>1. nsd'.initial \subseteq Vca
    BY DescriptorAssumption DEF OrderInv, NeededInv, TypeOK, DescriptorType
  <2> QED
    BY <2>1 DEF NsPrimitivesLast
<1>2. ~Overlapped
  BY <1>1, OverlapStays
<1>3. nsd' = nsd
  <2>1. ASSUME NEW m \in OpNum, TaskEffect(m) PROVE nsd' = nsd
    BY <2>1, TaskStepMoves DEF OperationFrame, OrderInv
  <2> QED
    BY <2>1 DEF Effects, Starts, DeployKdu, LaunchRo, LaunchHelm, DeletesAll,
       DeleteSpaces, Finishes, GivesUp, CancelSends, CancelTakes, CancelEnds,
       VmReport, vars
<1>0. ASSUME Later(vt[n][v]), vt[n][w] = "done" => vt'[n][w] = "done"
      PROVE  vt'[n][w] = "done"
  BY <1>0, <1>1, <1>2, <1>3 DEF NsPrimitivesLast
<1>a. ASSUME vt'[n] = vt[n] PROVE vt'[n][w] = "done"
  BY <1>0, <1>1, <1>a
<1>4. ops'[n].kind = "instantiate"
  BY <1>1 DEF OrderInv, NeededInv, KindsAgree, Deploying, DeployPcs, Created
<1>5. CASE Starts
  <2>1. n # cur'
    BY <1>1, <1>4, <1>5, NewStart
  <2> QED
    BY <1>5, <1>a, <2>1 DEF Starts
<1>6. ASSUME NEW k \in Kdu, DeployKdu(k) PROVE vt'[n][w] = "done"
  BY <1>6, <1>a DEF DeployKdu
<1>7. CASE LaunchRo \/ LaunchHelm
  <2>1. CASE UNCHANGED vt
    BY <1>a, <2>1
  <2>2. CASE LaunchVcas
    <3>1. Launches
      BY <1>7, <2>2, StepKinds, LaunchEffect DEF OrderInv
    <3>2. n # cur
      BY <1>1, <3>1 DEF Launches
    <3> QED
      BY <1>a, <3>1, <3>2 DEF Launches
  <2> QED
    BY <1>7, <2>1, <2>2 DEF LaunchRo, LaunchHelm
<1>8. CASE DeletesAll \/ DeleteSpaces \/ Finishes \/ GivesUp \/ CancelSends \/ VmReport
           \/ UNCHANGED vars
  BY <1>8, <1>a DEF DeletesAll, DeleteSpaces, Finishes, GivesUp, CancelSends,
     VmReport, vars
<1>9. CASE CancelTakes \/ CancelEnds
  <2>1. \A u \in Vca : \/ vt'[n][u] = vt[n][u]
                       \/ Pending(vt[n][u]) /\ vt'[n][u] = "cancelled"
    BY <1>9 DEF CancelTakes, CancelEnds, Cancels
  <2>2. ~Pending("done")
    BY DEF Pending, Ended
  <2> QED
    BY <1>0, <1>1, <2>1, <2>2
<1>10. ASSUME NEW m \in OpNum, TaskEffect(m) PROVE vt'[n][w] = "done"
  <2>1. ASSUME NEW u \in Vca, Deploys(m, u) PROVE vt'[n][w] = "done"
    <3>1. vt[m][u] \in DeployPcs /\ "done" \notin DeployPcs /\ "off" \notin DeployPcs
      BY <2>1 DEF Deploys, DeployPcs, Created
    <3>2. vt[n][w] = "done" => vt'[n][w] = "done"
      BY <2>1, <3>1 DEF Deploys
    <3>3. CASE n = m /\ v = u
      <4>1. vt[n][v] = "first" \/ DependenciesReady(v)
        BY <1>1, <2>1, <3>3 DEF Deploys
      <4>2. CASE DependenciesReady(v)
        <5>1. vca[w].status = "READY"
          BY <1>1, <1>3, <4>2 DEF DependenciesReady, Dependencies, Level
        <5>2. Deploying(m) /\ AnyPending(m) /\ vt[n][w] # "off"
          <6>1. Deploying(m) /\ AnyPending(m)
            BY <2>1, TaskKinds, PendingFacts
               DEF Deploys, DeployPcs, Created, Pending, Ended
          <6> QED
            BY <3>1, <3>3, <6>1 DEF OrderInv, Together
        <5> QED
          BY <1>2, <3>2, <3>3, <5>1, <5>2, NoOverlap DEF ReadyIsDone
      <4> QED
        BY <1>0, <3>2, <4>1, <4>2
    <3>4. CASE n # m \/ v # u
      <4>1. vt'[n][v] = vt[n][v]
        BY <1>1, <2>1, <3>4 DEF Deploys
      <4> QED
        BY <1>0, <1>1, <3>2, <4>1
    <3> QED
      BY <3>3, <3>4
  <2>2. ASSUME NEW u \in Vca, Removes(m, u) PROVE vt'[n][w] = "done"
    <3>1. /\ vt[n][w] = "done" => vt'[n][w] = "done"
          /\ Later(vt'[n][v]) => vt'[n][v] = vt[n][v]
      BY <1>1, <2>2 DEF Removes
    <3> QED
      BY <1>0, <1>1, <3>1
  <2>3. ASSUME NEW k \in Kdu, KduMoves(m, k) PROVE vt'[n][w] = "done"
    BY <1>a, <2>3 DEF KduMoves
  <2>4. CASE RoMoves(m) \/ DeleteMoves(m)
    BY <1>a, <2>4 DEF RoMoves, DeleteMoves
  <2> QED
    BY <1>10, <2>1, <2>2, <2>3, <2>4 DEF TaskEffect
<1> QED
  BY <1>5, <1>6, <1>7, <1>8, <1>9, <1>10 DEF Effects

ReadyInv ==
    /\ OutcomeInv
    /\ Known /\ CopyHolds /\ DeletesInOrder /\ NoneReady
    /\ Fresh /\ ReadyIsDone /\ NsPrimitivesLast

LEMMA ReadyInit == ASSUME Init PROVE ReadyInv
<1>1. OutcomeInv
  BY OutcomeInit
<1>2. /\ main.pc = "idle" /\ cur \notin OpNum /\ env = {}
      /\ \A n \in OpNum : ops[n].kind = "none" /\ \A v \in Vca : vt[n][v] = "off"
      /\ \A v \in Vca : vca[v].status = "none"
  BY DEF Init, Idle, OpNum, NoVca
<1>3. nsd.initial \subseteq Vca
  BY <1>1, DescriptorAssumption
     DEF OutcomeInv, OrderInv, NeededInv, TypeOK, DescriptorType
<1> QED
  BY <1>1, <1>2, <1>3 DEF ReadyInv, Known, CopyHolds, Terminating, DeletesInOrder,
     NoneReady, Fresh, ReadyIsDone, LastDeploy, Deploying, NsPrimitivesLast

LEMMA ReadyKept ==
    ASSUME NativeNotHelm, ReadyInv, [Next]_vars PROVE ReadyInv'
<1>1. OutcomeInv' /\ OrderInv /\ OrderInv' /\ Effects
  BY OutcomeKept, StepEffect DEF ReadyInv, OutcomeInv, OrderInv
<1> QED
  BY <1>1, KnownKept, CopyHoldsKept, DeletesInOrderKept, NoneReadyKept, FreshKept,
     ReadyIsDoneKept, NsPrimitivesLastKept DEF ReadyInv

\* The Day-1 primitives of a charm of the NS begin once those of every other
\* environment of the same instantiation have ended well, also when statuses of
\* an instantiation before it are still in the record (_wait_dependent_n2vc).
THEOREM NsComesLast ==
    ASSUME NativeNotHelm PROVE Spec => []NsPrimitivesLast
<1>1. Init => ReadyInv
  BY ReadyInit
<1>2. ReadyInv /\ [Next]_vars => ReadyInv'
  BY ReadyKept
<1>3. ReadyInv => NsPrimitivesLast
  BY DEF ReadyInv
<1> QED
  BY <1>1, <1>2, <1>3, PTL DEF Spec

\* The states an instantiation leaves say where it failed: config-status tells
\* whether every environment is configured, operational-status claims that the
\* NS runs only when the VMs and the KDUs are there (NsLcm.instantiate).  An NS
\* has at least one environment.
THEOREM FailuresAreLocated ==
    ASSUME NativeNotHelm, Vcas > 0 PROVE Spec => []FailureIsLocated
<1>1. Init => ReadyInv
  BY ReadyInit
<1>2. ReadyInv /\ [Next]_vars => ReadyInv'
  BY ReadyKept
<1>3. ReadyInv => FailureIsLocated
  <2>1. SUFFICES ASSUME ReadyInv, main.pc = "idle", cur > 0, Deploying(cur), late = {},
                        \A v \in Vca : vt[cur][v] # "off"
                 PROVE  /\ nsr.config = "configured" <=>
                              \A v \in Vca : vca[v].status = "READY"
                        /\ nsr.oper = "running" =>
                              /\ vnfr.vm = "ACTIVE"
                              /\ \A k \in Kdu : kdu[k].status = "READY"
    BY DEF FailureIsLocated
  <2>2. cur \in OpNum /\ Instantiating
    BY <2>1 DEF Instantiating, ReadyInv, OutcomeInv, OrderInv, NeededInv, TypeOK, OpNum
  <2>3. /\ nsr.config = "configured" <=> ~VcaUnfinished
        /\ nsr.oper = "running" => ~VimUnfinished
    BY <2>1, <2>2 DEF ReadyInv, OutcomeInv, Located
  <2>4. LastDeploy(cur)
    BY <2>1, <2>2 DEF LastDeploy, ReadyInv, OutcomeInv, OrderInv, Begun, NeededInv,
       TypeOK, OpNum, Deploying
  <2>5. \A v \in Vca : vca[v].status = "READY" <=> vt[cur][v] = "done"
    <3>1. ~Overlapped
      BY <2>1 DEF Overlapped
    <3> QED
      BY <2>1, <2>2, <2>4, <3>1 DEF ReadyInv, ReadyIsDone, OutcomeInv, EnvsThere
  <2>6. ~VcaUnfinished <=> \A v \in Vca : vt[cur][v] = "done"
    BY <2>1 DEF VcaUnfinished, Unfinished
  <2>7. rt[cur] # "off" /\ \A k \in Kdu : kt[cur][k] # "off"
    <3>1. 1 \in Vca
      BY SizeAssumption DEF Vca
    <3> QED
      BY <2>1, <2>2, <3>1 DEF ReadyInv, OutcomeInv, OrderInv, Together
  <2>8. ~VimUnfinished => /\ vnfr.vm = "ACTIVE"
                          /\ \A k \in Kdu : kdu[k].status = "READY"
    BY <2>1, <2>2, <2>7 DEF VimUnfinished, Unfinished, ReadyInv, OutcomeInv, VimThere
  <2> QED
    BY <2>3, <2>5, <2>6, <2>8
<1> QED
  BY <1>1, <1>2, <1>3, PTL DEF Spec

-----------------------------------------------------------------------------
(* What a termination leaves outside.                                       *)

\* The helm environments of an NS go with their namespace, all others with the
\* juju models: either is asked for when the record knows one of its kind.
HelmApart ==
    \A d \in Descriptors, v \in Vca, w \in Vca :
        d.type[v] = "helm" => d.type[w] = "helm"

LEMMA ApartTypes == HelmApart => NativeNotHelm
<1>1. SUFFICES ASSUME HelmApart, NEW d \in Descriptors, NEW v \in Vca, NEW w \in Vca,
                      d.type[v] = "native", d.type[w] = "helm"
               PROVE  FALSE
  BY DEF NativeNotHelm
<1>2. d.type[v] = "helm"
  BY <1>1 DEF HelmApart
<1> QED
  BY <1>1, <1>2

\* An NS that is not instantiated has nothing.
Cleared ==
    (late = {} /\ nsr.admin = "NOT_INSTANTIATED") =>
        env = {} /\ release = {} /\ ~vim

\* A KDU that is deployed, or is being deployed, has its instance recorded.
Instances ==
    late = {} => \A k \in Kdu :
        /\ k \in release => kdu[k].instance
        /\ \A n \in OpNum : Deploying(n) /\ kt[n][k] = "work" => kdu[k].instance

\* What the tasks of a termination that ended well removed, or were not asked
\* for because it was not there.
Removed ==
    (late = {} /\ Terminating /\ main.pc = "wait" /\ ~main.exc) =>
        /\ rt[cur] = "done" => ~vim
        /\ \A k \in Kdu : kt[cur][k] \in {"off", "done"} => k \notin release
        /\ dt[cur] \in {"off", "done"} => env = {}
        /\ dt[cur] # "off" => \A v \in env : Type(v) # "helm"

\* A termination that completed says so in the record of the NS.
SaidSo ==
    (main.pc = "idle" /\ cur \in OpNum /\ Undeploying(cur)
        /\ ops[cur].state = "COMPLETED") => nsr.admin = "NOT_INSTANTIATED"

LEMMA SaidSoKept ==
    ASSUME OrderInv, OrderInv', SaidSo, Effects
    PROVE  SaidSo'
<1>1. SUFFICES ASSUME main'.pc = "idle", cur' \in OpNum,
                      ops'[cur'].kind = "terminate", ops'[cur'].state = "COMPLETED"
               PROVE  nsr'.admin = "NOT_INSTANTIATED"
  BY DEF SaidSo, Undeploying
<1>2. CASE Finishes
  <2>1. Undeploying(cur) /\ ~Deploying(cur) /\ cur' = cur
    BY <1>1, <1>2 DEF Finishes, Undeploying, Deploying
  <2> QED
    BY <1>1, <1>2, <2>1 DEF Finishes
<1>3. CASE BetweenThem
  <2>1. /\ cur' = cur /\ cur \in OpNum /\ ops[cur].state = "COMPLETED"
        /\ Undeploying(cur) /\ main.pc = "idle" /\ nsr' = nsr
    BY <1>1, <1>3 DEF BetweenThem, Undeploying
  <2> QED
    BY <2>1 DEF SaidSo
<1> QED
  BY <1>1, <1>2, <1>3, StepsToIdle DEF OrderInv

LEMMA ClearedKept ==
    ASSUME OrderInv, OrderInv', DeletesInOrder, Cleared, Removed, Effects
    PROVE  Cleared'
<1> USE DEF recVars, extVars, taskVars
<1>1. SUFFICES ASSUME late' = {}, nsr'.admin = "NOT_INSTANTIATED"
               PROVE  env' = {} /\ release' = {} /\ ~vim'
  BY DEF Cleared
<1>2. main'.pc = "idle" /\ late = {}
  BY <1>1, KindsStay DEF OrderInv, InCharge
<1>3. CASE Finishes
  <2>1. nsr.admin = "INSTANTIATED"
    BY <1>3 DEF Finishes, OrderInv, InCharge
  <2>2. /\ Undeploying(cur) /\ main.pc = "wait" /\ ops'[cur].state = "COMPLETED"
        /\ cur \in OpNum /\ UNCHANGED <<env, release, vim>>
    BY <1>1, <1>3, <2>1 DEF Finishes
  <2>3. ~main.exc /\ ~Unfinished(dt[cur]) /\ ~VimUnfinished
    BY <1>3, <2>2 DEF Finishes
  <2>4. Terminating
    BY <2>2 DEF Terminating
  <2>5. rt[cur] = "done"
    BY <2>2, <2>3, <2>4 DEF VimUnfinished, Unfinished, DeletesInOrder
  <2>6. dt[cur] \in {"off", "done"} /\ \A k \in Kdu : kt[cur][k] \in {"off", "done"}
    BY <2>3 DEF VimUnfinished, Unfinished
  <2>7. env = {} /\ ~vim /\ \A k \in Kdu : k \notin release
    BY <1>2, <2>2, <2>3, <2>4, <2>5, <2>6 DEF Removed
  <2>8. release \subseteq Kdu
    BY DEF OrderInv, NeededInv, TypeOK
  <2> QED
    BY <2>2, <2>7, <2>8
<1>4. CASE BetweenThem
  <2>1. env = {} /\ release = {} /\ ~vim /\ main.pc = "idle"
    BY <1>1, <1>2, <1>4 DEF BetweenThem, Cleared
  <2>2. \A n \in OpNum : ~AnyPending(n)
    BY <1>2, <2>1 DEF OrderInv, Settled
  <2>3. \A n \in OpNum : ~TaskEffect(n)
    BY <1>2, <2>1, TaskOfLast
  <2>4. CASE CancelSends \/ VmReport \/ UNCHANGED vars
    BY <2>1, <2>4 DEF CancelSends, VmReport, vars
  <2>5. CASE CancelEnds
    <3>1. vim' = vim /\ creq.op \in OpNum
      BY <2>5 DEF CancelEnds
    <3>2. Cancels(creq.op) \/ UNCHANGED <<env, release>>
      BY <2>5 DEF CancelEnds
    <3>3. /\ \A v \in Vca : vt[creq.op][v] # "create"
          /\ \A k \in Kdu : kt[creq.op][k] # "work"
      BY <2>2, <3>1, PendingFacts DEF Pending, Ended
    <3>4. env' \subseteq Vca /\ release' \subseteq Kdu
      BY DEF OrderInv, NeededInv, TypeOK
    <3> QED
      BY <2>1, <3>1, <3>2, <3>3, <3>4 DEF Cancels
  <2>6. ~Starts /\ ~GivesUp /\ ~CancelTakes /\ ~Finishes /\ ~DeletesAll
    BY <1>2, <2>1 DEF Starts, GivesUp, CancelTakes, Finishes, DeletesAll
  <2>7. ~LaunchRo /\ ~LaunchHelm /\ ~DeleteSpaces /\ \A k \in Kdu : ~DeployKdu(k)
    BY <2>1 DEF LaunchRo, LaunchHelm, DeleteSpaces, DeployKdu
  <2> QED
    BY <2>3, <2>4, <2>5, <2>6, <2>7 DEF Effects
<1> QED
  BY <1>2, <1>3, <1>4, StepsToIdle DEF OrderInv

LEMMA InstancesKept ==
    ASSUME OrderInv, OrderInv', Cleared, Instances, Effects
    PROVE  Instances'
<1> USE DEF recVars, extVars, taskVars
<1>0. ASSUME late' = {} => late = {}, release' \subseteq release,
             \A k \in Kdu : kdu[k].instance => kdu'[k].instance,
             \A n \in OpNum : /\ ops'[n].kind = ops[n].kind
                              /\ \A k \in Kdu : kt'[n][k] = "work" =>
                                    \/ kt[n][k] = "work" \/ ~Deploying(n)
                                    \/ kdu'[k].instance
      PROVE  Instances'
  BY <1>0 DEF Instances, Deploying
<1>1. CASE StartInstantiate \/ StartTerminate
  <2>1. CASE StartInstantiate
    <3>1. SUFFICES ASSUME late = {} PROVE Instances'
      BY <2>1 DEF StartInstantiate, Instances
    <3>2. release' = {}
      BY <2>1, <3>1 DEF StartInstantiate, Cleared
    <3>3. \A n \in OpNum, k \in Kdu : kt'[n][k] # "work"
      <4>1. main.pc = "idle" /\ kt' = kt
        BY <2>1 DEF StartInstantiate
      <4>2. \A n \in OpNum : ~AnyPending(n)
        BY <3>1, <4>1 DEF OrderInv, Settled
      <4> QED
        BY <4>1, <4>2, PendingFacts
    <3> QED
      BY <3>2, <3>3 DEF Instances
  <2>2. CASE StartTerminate
    <3>1. Starts /\ UNCHANGED <<kdu, release, kt, late>>
      BY <2>2, StartEffect DEF StartTerminate, OrderInv
    <3>2. \A n \in OpNum : n # cur' => ops'[n] = ops[n]
      BY <3>1 DEF Starts
    <3>3. \A k \in Kdu : kt[cur'][k] = "off"
      BY <3>1, NewStart
    <3> QED
      BY <3>1, <3>2, <3>3 DEF Instances, Deploying
  <2> QED
    BY <1>1, <2>1, <2>2
<1>2. ASSUME NEW k \in Kdu, DeployKdu(k) PROVE Instances'
  <2>1. kdu \in [Kdu -> KduType] /\ kt \in [OpNum -> [Kdu -> Pcs]]
    BY DEF OrderInv, NeededInv, TypeOK
  <2>2. \A j \in Kdu : kdu'[j].instance = (kdu[j].instance \/ j = k)
    BY <1>2, <2>1 DEF DeployKdu, KduType
  <2>3. \A n \in OpNum, j \in Kdu : kt'[n][j] = kt[n][j] \/ j = k
    BY <1>2, <2>1 DEF DeployKdu
  <2>4. UNCHANGED <<ops, late, release>>
    BY <1>2 DEF DeployKdu
  <2> QED
    BY <1>0, <2>2, <2>3, <2>4
<1>3. CASE LaunchRo \/ LaunchHelm
  BY <1>0, <1>3 DEF LaunchRo, LaunchHelm
<1>4. CASE DeletesAll \/ DeleteSpaces
  <2>1. cur \in OpNum /\ ~Deploying(cur) /\ NeededInv
    BY <1>4, StepKinds DEF OrderInv
  <2>2. \A n \in OpNum : n # cur => kt'[n] = kt[n]
    BY <1>4, <2>1, RestEffect DEF DeletesAll, DeleteSpaces, Rests
  <2> QED
    BY <1>0, <1>4, <2>1, <2>2 DEF DeletesAll, DeleteSpaces
<1>5. CASE Finishes
  BY <1>0, <1>5 DEF Finishes
<1>6. CASE GivesUp \/ CancelSends \/ VmReport \/ UNCHANGED vars
  BY <1>0, <1>6 DEF GivesUp, CancelSends, VmReport, vars
<1>7. CASE CancelTakes \/ CancelEnds
  <2>1. UNCHANGED <<late, kdu>> /\ \A n \in OpNum : ops'[n].kind = ops[n].kind
    BY <1>7 DEF CancelTakes, CancelEnds
  <2>2. \A n \in OpNum, k \in Kdu : kt'[n][k] = "work" => kt[n][k] = "work"
    BY <1>7 DEF CancelTakes, CancelEnds, Cancels
  <2>3. \A k \in Kdu : k \in release' =>
            k \in release \/ \E n \in OpNum : Deploying(n) /\ kt[n][k] = "work"
    BY <1>7 DEF CancelTakes, CancelEnds, Cancels
  <2> QED
    BY <2>1, <2>2, <2>3 DEF Instances, Deploying
<1>8. ASSUME NEW n \in OpNum, TaskEffect(n) PROVE Instances'
  <2>1. ASSUME NEW v \in Vca, Deploys(n, v) \/ Removes(n, v) PROVE Instances'
    BY <1>0, <2>1 DEF Deploys, Removes, VcaFrame
  <2>2. ASSUME NEW k \in Kdu, KduMoves(n, k) PROVE Instances'
    <3>1. UNCHANGED <<ops, late>> /\ \A j \in Kdu : kdu'[j].instance = kdu[j].instance
      BY <2>2 DEF KduMoves
    <3>2. \A m \in OpNum, j \in Kdu : kt'[m][j] = "work" => kt[m][j] = "work"
      BY <2>2 DEF KduMoves
    <3>3. \A j \in Kdu : j \in release' =>
              j \in release \/ (Deploying(n) /\ kt[n][j] = "work")
      BY <2>2 DEF KduMoves
    <3> QED
      BY <3>1, <3>2, <3>3 DEF Instances, Deploying
  <2>3. CASE RoMoves(n) \/ DeleteMoves(n)
    BY <1>0, <2>3 DEF RoMoves, DeleteMoves
  <2> QED
    BY <1>8, <2>1, <2>2, <2>3 DEF TaskEffect
<1> QED
  BY <1>1, <1>2, <1>3, <1>4, <1>5, <1>6, <1>7, <1>8 DEF Effects

LEMMA RemovedKept ==
    ASSUME HelmApart, OrderInv, OrderInv', Known, CopyHolds, DeletesInOrder,
           Instances, Removed, Effects
    PROVE  Removed'
<1> USE DEF recVars, extVars, taskVars
<1>0. ASSUME UNCHANGED <<nsd, cur>>, main'.pc = "wait" /\ ~main'.exc => main' = main,
             late' = {} => late = {}, env' \subseteq env, release' = release,
             vim' => vim,
             \A n \in OpNum : /\ ops'[n].kind = ops[n].kind
                              /\ rt'[n] \in {rt[n], "cancelled"}
                              /\ dt'[n] \in {dt[n], "cancelled"} /\ (dt[n] = "off" => dt'[n] = "off")
                              /\ \A k \in Kdu : kt'[n][k] \in {kt[n][k], "cancelled"}
      PROVE  Removed'
  BY <1>0 DEF Removed, Terminating, Undeploying, Type
<1>a. ASSUME main'.exc \/ main'.pc # "wait" PROVE Removed'
  BY <1>a DEF Removed
<1>b. ASSUME UNCHANGED <<cur, ops>>, ~Undeploying(cur) PROVE Removed'
  BY <1>b DEF Removed, Terminating, Undeploying
<1>1. CASE Starts
  BY <1>1, <1>a DEF Starts
<1>2. ASSUME NEW k \in Kdu, DeployKdu(k) PROVE Removed'
  BY <1>2, <1>b, StepKinds DEF DeployKdu
<1>3. CASE LaunchRo \/ LaunchHelm
  BY <1>3, <1>b, StepKinds DEF LaunchRo, LaunchHelm
<1>c. ASSUME late = {} => \A k \in release : k \in copy.kdus,
             Rests, release' = release, late' = late
      PROVE  late' = {} => /\ rt'[cur] # "done"
                           /\ \A k \in Kdu : kt'[cur][k] \in {"off", "done"} =>
                                  k \notin release'
  BY <1>c DEF Rests
<1>d. ASSUME Terminating, late = {} PROVE \A k \in release : k \in copy.kdus
  BY <1>d DEF CopyHolds, Instances, OrderInv, NeededInv, TypeOK
<1>4. CASE DeletesAll
  <2>1. Terminating /\ UNCHANGED <<nsd, cur, env, release, late, ops>>
    BY <1>4, StepKinds DEF DeletesAll, Terminating
  <2>2. CASE main'.pc = "spaces"
    BY <1>a, <2>2
  <2>3. CASE /\ ~HelmKnown /\ Rests
             /\ dt'[cur] = IF AnyKnown THEN "work" ELSE "off"
    <3>1. \A v \in Vca : v \in env => copy.vca[v].known
      BY <2>1 DEF Known, CopyHolds
    <3>2. env \subseteq Vca
      BY DEF OrderInv, NeededInv, TypeOK
    <3>3. \A v \in env : Type(v) # "helm"
      BY <2>3, <3>1, <3>2 DEF HelmKnown
    <3>4. dt'[cur] \in {"off", "done"} => env = {}
      BY <2>3, <3>1, <3>2 DEF AnyKnown
    <3>5. late' = {} => /\ rt'[cur] # "done"
                        /\ \A k \in Kdu : kt'[cur][k] \in {"off", "done"} =>
                               k \notin release'
      BY <1>c, <1>d, <2>1, <2>3
    <3> QED
      BY <2>1, <3>3, <3>4, <3>5 DEF Removed, Type
  <2> QED
    BY <1>4, <2>2, <2>3 DEF DeletesAll
<1>5. CASE DeleteSpaces
  <2>1. /\ Terminating /\ UNCHANGED <<nsd, cur, release, late, ops>>
        /\ main.pc = "spaces" /\ env' = {v \in env : Type(v) # "helm"}
    BY <1>5, StepKinds DEF DeleteSpaces, Terminating
  <2>2. Rests
    BY <1>5, <2>1, RestEffect DEF DeleteSpaces, OrderInv, Terminating
  <2>3. HasHelm /\ env \subseteq Vca /\ nsd \in Descriptors
    BY <2>1 DEF DeletesInOrder, OrderInv, NeededInv, TypeOK
  <2>4. \A v \in Vca : Type(v) = "helm"
    BY <2>3 DEF HasHelm, Type, HelmApart
  <2>5. env' = {}
    BY <2>1, <2>3, <2>4
  <2>6. late' = {} => /\ rt'[cur] # "done"
                      /\ \A k \in Kdu : kt'[cur][k] \in {"off", "done"} =>
                             k \notin release'
    BY <1>c, <1>d, <2>1, <2>2
  <2> QED
    BY <2>1, <2>5, <2>6 DEF Removed
<1>6. CASE Finishes
  BY <1>6, <1>a DEF Finishes, Idle
<1>7. CASE GivesUp \/ CancelTakes
  BY <1>7, <1>a DEF GivesUp, CancelTakes
<1>8. CASE CancelSends \/ VmReport \/ UNCHANGED vars
  BY <1>0, <1>8 DEF CancelSends, VmReport, vars
<1>9. CASE CancelEnds
  <2>1. SUFFICES ASSUME late = {}, main.pc # "idle" PROVE Removed'
    BY <1>9 DEF CancelEnds, Removed, Terminating
  <2>2. ~AnyPending(creq.op)
    BY <1>9, <2>1 DEF CancelEnds, OrderInv, Settled
  <2>3. creq.op \in OpNum /\ vt[creq.op] = vt[creq.op]
    BY <1>9 DEF CancelEnds
  <2>4. /\ ~Pending(rt[creq.op]) /\ ~Pending(dt[creq.op])
        /\ \A v \in Vca : vt[creq.op][v] # "create"
        /\ \A k \in Kdu : kt[creq.op][k] # "work" /\ ~Pending(kt[creq.op][k])
    BY <2>2, <2>3, PendingFacts DEF Pending, Ended
  <2>5. Cancels(creq.op) \/ UNCHANGED <<taskVars, env, release>>
    BY <1>9 DEF CancelEnds
  <2>6. env' \subseteq Vca /\ release' \subseteq Kdu
    BY DEF OrderInv, NeededInv, TypeOK
  <2>7. env' \subseteq env /\ release' = release
    BY <2>3, <2>4, <2>5, <2>6 DEF Cancels
  <2>8. \A n \in OpNum : /\ rt'[n] = rt[n] /\ dt'[n] = dt[n]
                         /\ \A k \in Kdu : kt'[n][k] = kt[n][k]
    BY <2>4, <2>5 DEF Cancels
  <2> QED
    BY <1>0, <1>9, <2>7, <2>8 DEF CancelEnds
<1>10. ASSUME NEW n \in OpNum, TaskEffect(n) PROVE Removed'
  <2>0. OperationFrame
    BY <1>10, TaskStepMoves DEF OrderInv
  <2>1. SUFFICES ASSUME late = {}, Terminating, main.pc = "wait", ~main.exc
                 PROVE  Removed'
    BY <2>0 DEF OperationFrame, Removed, Terminating, Undeploying
  <2>2. n = cur /\ ~Deploying(n)
    BY <1>10, <2>1, TaskOfLast DEF Terminating, Undeploying, Deploying
  <2>3. ASSUME NEW v \in Vca, Deploys(n, v) PROVE Removed'
    BY <2>2, <2>3, TaskKinds
  <2>4. ASSUME NEW v \in Vca, Removes(n, v) PROVE Removed'
    BY <1>0, <2>4 DEF Removes, VcaFrame
  <2>5. ASSUME NEW k \in Kdu, KduMoves(n, k) PROVE Removed'
    <3>1. /\ kt[cur][k] = "work" /\ kt'[cur][k] \in {"done", "failed"}
          /\ \A j \in Kdu : j # k => kt'[cur][j] = kt[cur][j]
          /\ release' \subseteq release
          /\ kt'[cur][k] = "done" => k \notin release'
          /\ UNCHANGED <<nsd, env, vim, cur, ops, main, rt, dt, late>>
      BY <2>2, <2>5 DEF KduMoves
    <3> QED
      BY <2>1, <3>1 DEF Removed, Terminating, Undeploying, Type
  <2>6. CASE RoMoves(n)
    <3>1. /\ rt'[cur] = "done" => ~vim'
          /\ UNCHANGED <<nsd, env, release, cur, ops, main, kt, dt, late>>
      BY <2>2, <2>6 DEF RoMoves
    <3> QED
      BY <2>1, <3>1 DEF Removed, Terminating, Undeploying, Type
  <2>7. CASE DeleteMoves(n)
    <3>1. /\ dt[cur] = "work" /\ dt'[cur] \in {"done", "failed"}
          /\ env' \subseteq env
          /\ dt'[cur] = "done" => \A v \in env' : Type(v) \notin Juju
          /\ UNCHANGED <<nsd, release, vim, cur, ops, main, rt, kt, late>>
      BY <2>2, <2>7 DEF DeleteMoves
    <3>2. \A v \in env : Type(v) # "helm"
      BY <2>1, <3>1 DEF Removed
    <3>3. \A v \in Vca : Type(v) \in Types
      BY DescriptorAssumption DEF Type, OrderInv, NeededInv, TypeOK, DescriptorType
    <3>4. env \subseteq Vca
      BY DEF OrderInv, NeededInv, TypeOK
    <3>5. dt'[cur] = "done" => env' = {}
      BY <3>1, <3>2, <3>3, <3>4 DEF Types, Juju
    <3> QED
      BY <2>1, <3>1, <3>2, <3>5 DEF Removed, Terminating, Undeploying, Type
  <2> QED
    BY <1>10, <2>3, <2>4, <2>5, <2>6, <2>7 DEF TaskEffect
<1> QED
  BY <1>1, <1>2, <1>3, <1>4, <1>5, <1>6, <1>7, <1>8, <1>9, <1>10 DEF Effects

CleanInv ==
    /\ OrderInv
    /\ Known /\ CopyHolds /\ DeletesInOrder
    /\ Cleared /\ Instances /\ Removed /\ SaidSo

LEMMA CleanInit == ASSUME Init PROVE CleanInv
<1>1. OrderInv
  BY OutcomeInit DEF OutcomeInv
<1>2. /\ main.pc = "idle" /\ cur \notin OpNum /\ env = {} /\ release = {} /\ ~vim
      /\ \A n \in OpNum : ops[n].kind = "none"
      /\ \A v \in Vca : vca[v].status = "none"
  BY DEF Init, Idle, OpNum, NoVca
<1> QED
  BY <1>1, <1>2 DEF CleanInv, Known, CopyHolds, Terminating, DeletesInOrder, Cleared,
     Instances, Deploying, Removed, SaidSo

LEMMA CleanKept == ASSUME HelmApart, CleanInv, [Next]_vars PROVE CleanInv'
<1>1. OrderInv /\ OrderInv' /\ Effects
  BY OrderKept, StepEffect DEF CleanInv, OrderInv
<1> QED
  BY <1>1, KnownKept, CopyHoldsKept, DeletesInOrderKept, ClearedKept, InstancesKept,
     RemovedKept, SaidSoKept DEF CleanInv

\* A termination whose record says COMPLETED leaves no environment, no KDU and
\* no VIM resources, as long as no task outlived its operation's timeout and the
\* NS does not mix helm charts with charms (NsLcm.terminate, "remove All
\* execution environments at once").
THEOREM CompletedTerminations ==
    ASSUME HelmApart PROVE Spec => []TerminatedIsClean
<1>1. Init => CleanInv
  BY CleanInit
<1>2. CleanInv /\ [Next]_vars => CleanInv'
  BY CleanKept
<1>3. CleanInv => TerminatedIsClean
  <2>1. SUFFICES ASSUME CleanInv, Last("terminate", "COMPLETED"), late = {}
                 PROVE  env = {} /\ release = {} /\ ~vim
    BY DEF TerminatedIsClean
  <2>2. /\ main.pc = "idle" /\ cur \in OpNum /\ Undeploying(cur)
        /\ ops[cur].state = "COMPLETED"
    BY <2>1 DEF Last, Undeploying, CleanInv, OrderInv, NeededInv, TypeOK, OpNum
  <2> QED
    BY <2>1, <2>2 DEF CleanInv, SaidSo, Cleared
<1> QED
  BY <1>1, <1>2, <1>3, PTL DEF Spec

-----------------------------------------------------------------------------
(* What may make an operation fail.                                         *)

Bad == {"failed", "cancelled"}

\* Without a failure of another system the record shows none.
Unfaulted ==
    faults = 0 => /\ vnfr.vm # "ERROR" /\ ~vnfr.error
                  /\ \A k \in Kdu : kdu[k].status # "ERROR"

NotAsked == creq.state = "none" => creq.op = 0

\* Before any termination the software the record knows of is there.
SwThere ==
    (late = {} /\ \A n \in OpNum : ~Undeploying(n)) =>
        \A v \in Vca : vca[v].sw => v \in env

\* Terminate primitives are executed in an environment that is there.
NeededThere ==
    late = {} => \A v \in Vca :
        /\ vca[v].needed => v \in env
        /\ \A n \in OpNum : vt[n][v] = "last" => vca[v].needed

\* An operation that met no failure, timeout or cancel, on a record that is
\* not outdated and a descriptor that is supported, has no error of its own.
Blameless(n) ==
    faults = 0 /\ late = {} /\ creq.op # n /\ ~Outdated(n) /\ ~NotSupported(n)

Innocence ==
    \A n \in OpNum : Blameless(n) =>
        /\ n = cur => ~main.exc
        /\ rt[n] \notin Bad /\ dt[n] \notin Bad
        /\ \A v \in Vca : vt[n][v] \notin Bad
        /\ \A k \in Kdu : kt[n][k] \notin Bad
        /\ ops[n].state # "FAILED"

\* Failures are never fewer, nor is what was left behind.
LEMMA FaultsStay ==
    ASSUME OrderInv, OrderInv', Effects
    PROVE  /\ faults \in Nat /\ faults' \in Nat /\ faults <= faults'
           /\ late \subseteq late' /\ nsd' = nsd
<1> USE DEF recVars, extVars, taskVars
<1>1. faults \in Nat /\ faults' \in Nat
  BY DEF OrderInv, NeededInv, TypeOK
<1>2. ASSUME faults' = faults PROVE faults <= faults'
  BY <1>1, <1>2
<1>3. ASSUME NEW n \in OpNum, TaskEffect(n) PROVE faults <= faults' /\ nsd' = nsd
  BY <1>3 DEF TaskEffect, Deploys, Removes, KduMoves, RoMoves, DeleteMoves, VcaFrame
<1>4. ASSUME VmReport PROVE faults <= faults' /\ nsd' = nsd
  BY <1>1, <1>4 DEF VmReport, Fault
<1>5. ASSUME GivesUp PROVE faults <= faults' /\ nsd' = nsd
  BY <1>5 DEF GivesUp
<1>6. ASSUME NEW k \in Kdu, DeployKdu(k) PROVE UNCHANGED <<faults, nsd>>
  BY <1>6 DEF DeployKdu
<1>7. ASSUME \/ Starts \/ LaunchRo \/ LaunchHelm \/ DeletesAll \/ DeleteSpaces
             \/ Finishes \/ CancelSends \/ CancelTakes \/ CancelEnds
             \/ UNCHANGED vars
      PROVE  UNCHANGED <<faults, nsd>>
  BY <1>7 DEF Starts, LaunchRo, LaunchHelm, DeletesAll, DeleteSpaces, Finishes,
     CancelSends, CancelTakes, CancelEnds, vars
<1>8. faults <= faults' /\ nsd' = nsd
  BY <1>2, <1>3, <1>4, <1>5, <1>6, <1>7 DEF Effects
<1> QED
  BY <1>1, <1>8, KindsStay

LEMMA UnfaultedKept ==
    ASSUME OrderInv, OrderInv', Unfaulted, Effects
    PROVE  Unfaulted'
<1> USE DEF recVars, extVars, taskVars
<1>1. SUFFICES ASSUME faults' = 0
               PROVE  /\ vnfr'.vm # "ERROR" /\ ~vnfr'.error
                      /\ \A k \in Kdu : kdu'[k].status # "ERROR"
  BY DEF Unfaulted
<1>2. faults = 0
  BY <1>1, FaultsStay
<1>3. /\ vnfr.vm # "ERROR" /\ ~vnfr.error
      /\ \A k \in Kdu : kdu[k].status # "ERROR"
  BY <1>2 DEF Unfaulted
<1>4. kdu \in [Kdu -> KduType] /\ vnfr \in VnfrType
  BY DEF OrderInv, NeededInv, TypeOK
<1>5. CASE StartInstantiate
  <2>1. \A k \in Kdu : kdu'[k].status = kdu[k].status
    BY <1>4, <1>5 DEF StartInstantiate, KduType
  <2> QED
    BY <1>3, <1>5, <2>1 DEF StartInstantiate
<1>6. ASSUME NEW k \in Kdu, DeployKdu(k)
      PROVE  /\ vnfr' = vnfr /\ \A j \in Kdu : kdu'[j].status = kdu[j].status
  BY <1>4, <1>6 DEF DeployKdu, KduType
<1>7. ASSUME NEW n \in OpNum, TaskEffect(n)
      PROVE  /\ vnfr'.vm # "ERROR" /\ ~vnfr'.error
             /\ \A k \in Kdu : kdu'[k].status # "ERROR"
  <2>1. ASSUME NEW k \in Kdu, KduMoves(n, k)
        PROVE  vnfr' = vnfr /\ \A j \in Kdu : kdu'[j].status # "ERROR"
    BY <1>1, <1>3, <2>1 DEF KduMoves
  <2>2. CASE RoMoves(n)
    BY <1>1, <1>3, <2>2 DEF RoMoves
  <2>3. ASSUME NEW v \in Vca, Deploys(n, v) \/ Removes(n, v)
        PROVE  UNCHANGED <<vnfr, kdu>>
    BY <2>3 DEF Deploys, Removes, VcaFrame
  <2>4. CASE DeleteMoves(n)
    BY <1>3, <2>4 DEF DeleteMoves
  <2> QED
    BY <1>3, <1>7, <2>1, <2>2, <2>3, <2>4 DEF TaskEffect
<1>8. CASE VmReport
  <2>1. faults' # faults \/ vnfr' = [vnfr EXCEPT !.vm = "ACTIVE"]
    BY <1>1, <1>8 DEF VmReport, Fault
  <2>2. vnfr'.vm = "ACTIVE" /\ vnfr'.error = vnfr.error
    BY <1>1, <1>2, <1>4, <2>1 DEF VnfrType
  <2> QED
    BY <1>3, <1>8, <2>2 DEF VmReport
<1>9. CASE \/ StartTerminate \/ LaunchRo \/ LaunchHelm \/ DeletesAll \/ DeleteSpaces
           \/ Finishes \/ GivesUp \/ CancelSends \/ CancelTakes \/ CancelEnds
           \/ UNCHANGED vars
  BY <1>3, <1>9 DEF StartTerminate, LaunchRo, LaunchHelm, DeletesAll, DeleteSpaces,
     Finishes, GivesUp, CancelSends, CancelTakes, CancelEnds, vars
<1> QED
  BY <1>3, <1>5, <1>6, <1>7, <1>8, <1>9 DEF Effects

\* A cancel command is for one operation.
LEMMA NotAskedKept ==
    ASSUME OrderInv, NotAsked, Effects
    PROVE  /\ NotAsked'
           /\ \/ creq'.op = creq.op
              \/ creq.op = 0 /\ creq'.op = cur /\ UNCHANGED <<cur, ops, main, taskVars>>
<1>1. ASSUME NEW n \in OpNum, TaskEffect(n) PROVE creq' = creq
  BY <1>1, TaskStepMoves DEF OperationFrame, OrderInv
<1>2. CASE CancelSends \/ CancelTakes \/ CancelEnds
  BY <1>2 DEF CancelSends, CancelTakes, CancelEnds, NotAsked
<1>3. ASSUME NEW k \in Kdu, DeployKdu(k) PROVE creq' = creq
  BY <1>3 DEF DeployKdu
<1>4. CASE \/ Starts \/ LaunchRo \/ LaunchHelm \/ DeletesAll \/ DeleteSpaces \/ Finishes
           \/ GivesUp \/ VmReport \/ UNCHANGED vars
  BY <1>4 DEF Starts, LaunchRo, LaunchHelm, DeletesAll, DeleteSpaces, Finishes,
     GivesUp, VmReport, vars, NotAsked
<1> QED
  BY <1>1, <1>2, <1>3, <1>4 DEF Effects, NotAsked

\* The operations of an NS that has only instantiated.
LEMMA OnlyDeploys ==
    ASSUME OrderInv, Instantiating, cur = 1
    PROVE  \A n \in OpNum : ~Undeploying(n)
<1>1. \A n \in OpNum : n = 1 \/ n > cur
  BY DEF OpNum
<1> QED
  BY <1>1 DEF OrderInv, Begun, Instantiating, Deploying, Undeploying

LEMMA SwThereKept ==
    ASSUME OrderInv, OrderInv', EnvsThere, SwThere, Effects
    PROVE  SwThere'
<1> USE DEF recVars, extVars, taskVars
<1>0. ASSUME late' = {} => late = {}, env \subseteq env',
             \A v \in Vca : vca'[v].sw => vca[v].sw,
             \A n \in OpNum : ops'[n].kind = ops[n].kind
      PROVE  SwThere'
  BY <1>0 DEF SwThere, Undeploying
<1>a. ASSUME NEW n \in OpNum, ops'[n].kind = ops[n].kind, Undeploying(n)
      PROVE  SwThere'
  BY <1>a DEF SwThere, Undeploying
<1>1. CASE Starts
  <2>1. cur' \in OpNum /\ UNCHANGED <<late, env, vca>>
        /\ \A n \in OpNum : n # cur' => ops'[n] = ops[n]
    BY <1>1 DEF Starts
  <2>2. ops[cur'].kind = "none"
    BY <1>1 DEF Starts, OrderInv, Begun
  <2> QED
    BY <2>1, <2>2 DEF SwThere, Undeploying
<1>2. ASSUME NEW k \in Kdu, DeployKdu(k) PROVE SwThere'
  BY <1>0, <1>2 DEF DeployKdu
<1>3. CASE LaunchRo \/ LaunchHelm
  <2>1. cur \in OpNum /\ NeededInv /\ UNCHANGED <<ops, env, late>>
    BY <1>3, StepKinds DEF OrderInv, LaunchRo, LaunchHelm
  <2>2. CASE UNCHANGED <<vca, vt>>
    BY <1>0, <2>1, <2>2
  <2>3. CASE LaunchVcas
    <3>1. \A v \in Vca : vca'[v].sw = vca[v].sw
      BY <2>1, <2>3, LaunchEffect DEF Launches
    <3> QED
      BY <1>0, <2>1, <3>1
  <2> QED
    BY <1>3, <2>2, <2>3 DEF LaunchRo, LaunchHelm
<1>4. CASE DeletesAll \/ DeleteSpaces
  BY <1>4, <1>a, StepKinds DEF DeletesAll, DeleteSpaces
<1>5. CASE Finishes
  BY <1>0, <1>5 DEF Finishes
<1>6. CASE GivesUp \/ CancelSends \/ VmReport \/ UNCHANGED vars
  BY <1>0, <1>6 DEF GivesUp, CancelSends, VmReport, vars
<1>7. CASE CancelTakes \/ CancelEnds
  <2>1. env \subseteq env'
    BY <1>7 DEF CancelTakes, CancelEnds, Cancels
  <2> QED
    BY <1>0, <1>7, <2>1 DEF CancelTakes, CancelEnds
<1>8. ASSUME NEW n \in OpNum, TaskEffect(n) PROVE SwThere'
  <2>0. OperationFrame
    BY <1>8, TaskStepMoves DEF OrderInv
  <2>1. CASE Undeploying(n)
    BY <2>0, <2>1, <1>a DEF OperationFrame
  <2>2. SUFFICES ASSUME late = {}, ~Undeploying(n) PROVE SwThere'
    BY <2>0, <2>1 DEF OperationFrame, SwThere
  <2>3. ASSUME NEW v \in Vca, Deploys(n, v) PROVE SwThere'
    <3>1. Instantiating /\ n = cur
      BY <1>8, <2>2, <2>3, TaskOfLast, TaskKinds DEF Instantiating
    <3>2. vt[n][v] = "install" => v \in env
      BY <3>1 DEF EnvsThere, Existing, Created
    <3>3. /\ env \subseteq env' /\ \A w \in Vca : w # v => vca'[w] = vca[w]
          /\ vca'[v].sw => vca[v].sw \/ vt[n][v] = "install" \/ v \in env'
          /\ UNCHANGED <<ops, late>>
      BY <2>3 DEF Deploys, VcaFrame
    <3> QED
      BY <3>2, <3>3 DEF SwThere, Undeploying
  <2>4. ASSUME NEW v \in Vca, Removes(n, v) PROVE SwThere'
    BY <2>2, <2>4, TaskKinds
  <2>5. ASSUME NEW k \in Kdu, KduMoves(n, k) PROVE SwThere'
    BY <1>0, <2>5 DEF KduMoves
  <2>6. CASE RoMoves(n)
    BY <1>0, <2>6 DEF RoMoves
  <2>7. CASE DeleteMoves(n)
    BY <2>2, <2>7, OtherTaskKinds
  <2> QED
    BY <1>8, <2>3, <2>4, <2>5, <2>6, <2>7 DEF TaskEffect
<1> QED
  BY <1>1, <1>2, <1>3, <1>4, <1>5, <1>6, <1>7, <1>8 DEF Effects

LEMMA NeededThereKept ==
    ASSUME NativeApart, [Next]_vars, OrderInv, OrderInv', EnvsThere, NeededThere,
           Effects
    PROVE  NeededThere'
<1> USE DEF recVars, extVars, taskVars
<1>1. SUFFICES ASSUME late' = {} PROVE NeededThere'
  BY DEF NeededThere
<1>2. late = {}
  BY <1>1, FaultsStay
<1>3. /\ \A v \in Vca : vca[v].needed => v \in env
      /\ \A n \in OpNum, v \in Vca : vt[n][v] = "last" => vca[v].needed
  BY <1>2 DEF NeededThere
\* An environment that is needed stays.
<1>4. \A v \in Vca : vca[v].needed => v \in env'
  BY <1>2, <1>3, RemovalsAreLate DEF OrderInv
<1>0. ASSUME \A v \in Vca : vca'[v].needed = vca[v].needed,
             \A n \in OpNum, v \in Vca : vt'[n][v] = "last" => vt[n][v] = "last"
      PROVE  NeededThere'
  BY <1>0, <1>3, <1>4 DEF NeededThere
<1>5. CASE StartInstantiate \/ StartTerminate
  <2>1. CASE StartInstantiate
    BY <1>0, <2>1 DEF StartInstantiate
  <2>2. CASE StartTerminate
    <3>1. Starts /\ cur' \in OpNum
      BY <2>2, StartEffect DEF Starts, OrderInv
    <3>2. \A v \in Vca : vt'[cur'][v] = "last" => vca[v].needed
      BY <2>2, <3>1
         DEF StartTerminate, OrderInv, NeededInv, TypeOK, DestroyStart, AfterPrimitives
    <3>3. vca' = vca /\ \A n \in OpNum : n # cur' => vt'[n] = vt[n]
      BY <3>1 DEF Starts
    <3> QED
      BY <1>3, <1>4, <3>2, <3>3 DEF NeededThere
  <2> QED
    BY <1>5, <2>1, <2>2
<1>6. ASSUME NEW k \in Kdu, DeployKdu(k) PROVE NeededThere'
  BY <1>0, <1>6 DEF DeployKdu
<1>7. CASE LaunchRo \/ LaunchHelm
  <2>1. cur \in OpNum /\ NeededInv
    BY <1>7, StepKinds DEF OrderInv
  <2>2. CASE UNCHANGED <<vca, vt>>
    BY <1>0, <2>2
  <2>3. CASE LaunchVcas
    <3>1. Launches
      BY <2>1, <2>3, LaunchEffect
    <3>2. /\ \A n \in OpNum : n # cur => vt'[n] = vt[n]
          /\ \A v \in Vca : vt'[cur][v] # "last" /\ vca'[v].needed = vca[v].needed
      BY <3>1 DEF Launches
    <3>3. \A n \in OpNum, v \in Vca : vt'[n][v] = "last" => vt[n][v] = "last"
      BY <3>2
    <3> QED
      BY <1>0, <3>2, <3>3
  <2> QED
    BY <1>7, <2>2, <2>3 DEF LaunchRo, LaunchHelm
<1>8. CASE DeletesAll \/ DeleteSpaces \/ Finishes \/ GivesUp \/ CancelSends \/ VmReport
           \/ UNCHANGED vars
  BY <1>0, <1>8 DEF DeletesAll, DeleteSpaces, Finishes, GivesUp, CancelSends,
     VmReport, vars
<1>9. CASE CancelTakes \/ CancelEnds
  <2>1. \A n \in OpNum, v \in Vca : vt'[n][v] = "last" => vt[n][v] = "last"
    BY <1>9 DEF CancelTakes, CancelEnds, Cancels
  <2> QED
    BY <1>0, <1>9, <2>1 DEF CancelTakes, CancelEnds
<1>10. ASSUME NEW n \in OpNum, TaskEffect(n) PROVE NeededThere'
  <2>0. n = cur
    BY <1>2, <1>10, TaskOfLast
  <2>1. ASSUME NEW v \in Vca, Deploys(n, v) PROVE NeededThere'
    <3>1. Instantiating /\ ~Undeploying(n)
      BY <1>2, <2>0, <2>1, TaskKinds DEF Instantiating
    <3>2. \A m \in OpNum, w \in Vca : vt[m][w] # "last"
      <4>1. SUFFICES ASSUME NEW m \in OpNum, NEW w \in Vca, vt[m][w] = "last"
                     PROVE  FALSE
        OBVIOUS
      <4>2. AnyPending(m) /\ Undeploying(m)
        BY <4>1, PendingFacts DEF Pending, Ended, OrderInv, NeededInv, KindsAgree
      <4> QED
        BY <1>2, <2>0, <3>1, <4>2, OnlyLast
    <3>3. \A m \in OpNum, w \in Vca : vt'[m][w] # "last"
      BY <2>1, <3>2 DEF Deploys, DeployPcs, Created
    <3>4. vt[n][v] = "first" => v \in env
      BY <2>0, <3>1 DEF EnvsThere, Existing, Created
    <3>5. /\ \A w \in Vca : w # v => vca'[w] = vca[w]
          /\ vca'[v].needed => vca[v].needed \/ vt[n][v] = "first"
          /\ env \subseteq env'
      BY <2>1 DEF Deploys
    <3> QED
      BY <1>3, <3>3, <3>4, <3>5 DEF NeededThere
  <2>2. ASSUME NEW v \in Vca, Removes(n, v) PROVE NeededThere'
    <3>1. \A m \in OpNum : m # n => vt[m][v] # "last"
      <4>1. SUFFICES ASSUME NEW m \in OpNum, m # n, vt[m][v] = "last" PROVE FALSE
        OBVIOUS
      <4>2. AnyPending(m)
        BY <4>1, PendingFacts DEF Pending, Ended
      <4> QED
        BY <1>2, <2>0, <4>1, <4>2, OnlyLast
    <3>2. /\ \A w \in Vca : vca'[w].needed => vca[w].needed
          /\ \A w \in Vca : w # v => vca'[w] = vca[w]
          /\ vt'[n][v] # "last"
          /\ \A m \in OpNum, w \in Vca : m # n \/ w # v => vt'[m][w] = vt[m][w]
      BY <2>2 DEF Removes
    <3> QED
      BY <1>3, <1>4, <3>1, <3>2 DEF NeededThere
  <2>3. ASSUME NEW k \in Kdu, KduMoves(n, k) PROVE NeededThere'
    BY <1>0, <2>3 DEF KduMoves
  <2>4. CASE RoMoves(n) \/ DeleteMoves(n)
    BY <1>0, <2>4 DEF RoMoves, DeleteMoves
  <2> QED
    BY <1>10, <2>1, <2>2, <2>3, <2>4 DEF TaskEffect
<1> QED
  BY <1>5, <1>6, <1>7, <1>8, <1>9, <1>10 DEF Effects

\* What a task waits for comes when nothing failed.
LEMMA NotHopeless ==
    ASSUME OrderInv, EnvsThere, Unfaulted, SwThere, Innocence,
           Instantiating, Blameless(cur), NEW v \in Vca
    PROVE  ~Hopeless(cur, v)
<1>1. /\ cur \in OpNum /\ Deploying(cur) /\ faults = 0 /\ late = {}
      /\ cur \in Nat
  BY DEF Instantiating, Blameless, OpNum
<1>0. \A w \in OfNs : ~HelmOfNs(w) /\ OfNs = {w}
  BY <1>1 DEF Blameless, NotSupported
<1>2. /\ rt[cur] \notin Bad
      /\ \A w \in Vca : vt[cur][w] \notin Bad
  BY <1>1 DEF Innocence
<1>3. ~TargetFailed(v)
  BY <1>1 DEF Unfaulted, TargetFailed
<1>4. cur > 1 => nsd.peers = {}
  BY <1>1 DEF Blameless, Outdated
<1>5. \A w \in Vca : vt[cur][w] \in Ended =>
            w \in env /\ vca[w].sw /\ vca[w].status = "READY"
  <2>1. \A w \in Vca : vt[cur][w] \in Ended => vt[cur][w] = "done"
    BY <1>2 DEF Ended, Bad
  <2> QED
    BY <2>1 DEF EnvsThere, Existing, Installed
<1>7. ASSUME vt[cur][v] \in {"boot", "vm"} PROVE ~Hopeless(cur, v)
  BY <1>2, <1>3, <1>7 DEF Hopeless, Bad
<1>8. ASSUME vt[cur][v] = "relate" PROVE ~Hopeless(cur, v)
  <2>1. \A p \in Peers(v) : p \in Vca
    BY DEF Peers
  <2>2. PeersInstalled(v) => Peers(v) \subseteq env
    <3>1. CASE cur > 1
      BY <1>4, <3>1 DEF Peers
    <3>2. CASE cur = 1
      <4>1. \A p \in Vca : vca[p].sw => p \in env
        BY <1>1, <3>2, OnlyDeploys DEF SwThere
      <4> QED
        BY <2>1, <4>1 DEF PeersInstalled
    <3> QED
      BY <1>1, <3>1, <3>2 DEF OpNum
  <2> QED
    BY <1>5, <1>8, <2>1, <2>2 DEF Hopeless
<1>9. ASSUME vt[cur][v] = "depend" PROVE ~Hopeless(cur, v)
  <2>1. \A w \in Dependencies(v) : w \in Vca /\ w # v /\ Level(v) = "NS"
    BY DEF Dependencies
  <2>2. \A w \in Dependencies(v) : Level(w) # "NS"
    BY <1>0, <2>1 DEF OfNs
  <2> QED
    BY <1>5, <1>9, <2>1, <2>2 DEF Hopeless
<1>10. ASSUME vt[cur][v] = "more" PROVE ~Hopeless(cur, v)
  BY <1>0, <1>10 DEF Hopeless, HelmOfNs, OfNs
<1> QED
  BY <1>7, <1>8, <1>9, <1>10 DEF Hopeless

LEMMA InnocenceKept ==
    ASSUME OrderInv, OrderInv', EnvsThere, Unfaulted, NotAsked, SwThere,
           NeededThere, Innocence, Effects
    PROVE  Innocence'
<1> USE DEF recVars, extVars, taskVars
<1> DEFINE Clear(n) == /\ n = cur => ~main.exc
                       /\ rt[n] \notin Bad /\ dt[n] \notin Bad
                       /\ \A v \in Vca : vt[n][v] \notin Bad
                       /\ \A k \in Kdu : kt[n][k] \notin Bad
                       /\ ops[n].state # "FAILED"
<1>1. SUFFICES ASSUME NEW n \in OpNum, Blameless(n)' PROVE Clear(n)'
  BY DEF Innocence
<1>2. /\ faults' = 0 /\ late' = {} /\ creq'.op # n /\ faults = 0 /\ late = {}
      /\ nsd' = nsd
  BY <1>1, FaultsStay DEF Blameless
<1>3. creq.op # n
  BY <1>2, NotAskedKept DEF OpNum
<1>4. ASSUME ops'[n].kind = ops[n].kind PROVE Blameless(n) /\ Clear(n)
  <2>1. Blameless(n)
    BY <1>1, <1>2, <1>3, <1>4 DEF Blameless, Outdated, NotSupported, OfNs, HelmOfNs,
       Deploying, Undeploying, Type, Level
  <2> QED
    BY <2>1 DEF Innocence
<1>0. ASSUME ops'[n].kind = ops[n].kind,
             n = cur' /\ main'.exc => n = cur /\ main.exc,
             ops'[n].state = "FAILED" => ops[n].state = "FAILED",
             rt'[n] \in Bad => rt[n] \in Bad, dt'[n] \in Bad => dt[n] \in Bad,
             \A v \in Vca : vt'[n][v] \in Bad => vt[n][v] \in Bad,
             \A k \in Kdu : kt'[n][k] \in Bad => kt[n][k] \in Bad
      PROVE  Clear(n)'
  BY <1>0, <1>4
<1>5. CASE Starts /\ (StartInstantiate \/ StartTerminate)
  <2>1. CASE n # cur'
    BY <1>0, <1>5, <2>1 DEF Starts
  <2>2. CASE n = cur'
    <3>1. rt'[n] = "off" /\ dt'[n] = "off" /\ \A k \in Kdu : kt'[n][k] = "off"
      BY <1>5, <2>2, NewStart
    <3>2. ops'[n].state = "PROCESSING" /\ ~main'.exc
      BY <1>5, <2>2 DEF Starts
    <3>3. \A v \in Vca : vt'[n][v] \in {"off", "last", "destroy", "done"}
      <4>1. CASE StartInstantiate
        <5>1. main'.pc = "kdus"
          BY <4>1 DEF StartInstantiate
        <5> QED
          BY <1>5, <2>2, <5>1, NewStart
      <4>2. CASE StartTerminate
        <5>1. \A v \in Vca : ~vca[v].needed \/ Level(v) # "NS"
          <6>1. \A v \in Vca : vca[v].needed => v \in nsd.terminate
            BY DEF OrderInv, NeededInv, Recorded
          <6>2. ops'[n].kind = "terminate"
            BY <1>5, <2>2, <4>2 DEF Starts, StartTerminate
          <6>3. OfNs \cap nsd.terminate = {}
            BY <1>1, <1>2, <6>2
               DEF Blameless, NotSupported, Undeploying, OfNs, Level
          <6> QED
            BY <6>1, <6>3 DEF OfNs
        <5>2. \A v \in Vca : DestroyStart(v) \in {"last", "destroy", "done"}
          BY <5>1 DEF DestroyStart, AfterPrimitives
        <5>3. \A v \in Vca : vt'[n][v] = IF vca[v].ee THEN DestroyStart(v) ELSE "off"
          BY <2>2, <4>2 DEF StartTerminate, OrderInv, NeededInv, TypeOK
        <5> QED
          BY <5>2, <5>3
      <4> QED
        BY <1>5, <4>1, <4>2
    <3> QED
      BY <3>1, <3>2, <3>3 DEF Bad
  <2> QED
    BY <2>1, <2>2
<1>6. ASSUME NEW k \in Kdu, DeployKdu(k) PROVE Clear(n)'
  <2>1. main'.exc = main.exc /\ kt \in [OpNum -> [Kdu -> Pcs]]
    BY <1>6, MainRecord DEF DeployKdu, OrderInv, NeededInv, TypeOK
  <2>2. \A j \in Kdu : kt'[n][j] \in {kt[n][j], "work"}
    BY <1>6, <2>1 DEF DeployKdu
  <2> QED
    BY <1>0, <1>6, <2>1, <2>2 DEF DeployKdu, Bad
<1>7. CASE LaunchRo \/ LaunchHelm
  <2>1. cur \in OpNum /\ NeededInv
    BY <1>7, StepKinds DEF OrderInv
  <2>2. main'.exc = main.exc /\ rt'[n] \in {rt[n], "work"}
    BY <1>7, <2>1, MainRecord DEF LaunchRo, LaunchHelm, NeededInv, TypeOK
  <2>3. \A v \in Vca : vt'[n][v] \in {vt[n][v], "boot", "create"}
    <3>1. CASE UNCHANGED <<vca, vt>>
      BY <3>1
    <3>2. CASE LaunchVcas
      BY <2>1, <3>2, LaunchEffect DEF Launches
    <3> QED
      BY <1>7, <3>1, <3>2 DEF LaunchRo, LaunchHelm
  <2>4. UNCHANGED <<cur, ops, dt, kt>>
    BY <1>7 DEF LaunchRo, LaunchHelm
  <2> QED
    BY <1>0, <2>2, <2>3, <2>4 DEF Bad
<1>8. CASE DeletesAll
  <2>1. /\ UNCHANGED <<cur, ops, vt>> /\ main'.exc = main.exc
        /\ rt'[n] \in {rt[n], "work"} /\ dt'[n] \in {dt[n], "work", "off"}
        /\ \A k \in Kdu : kt'[n][k] \in {kt[n][k], "work", "off"}
    BY <1>8 DEF DeletesAll, Rests
  <2> QED
    BY <1>0, <2>1 DEF Bad
<1>9. CASE DeleteSpaces
  <2>1. Rests /\ cur \in OpNum
    BY <1>9, StepKinds, RestEffect DEF DeleteSpaces, OrderInv
  <2>2. /\ main'.exc = main.exc
        /\ rt'[n] \in {rt[n], "work"}
        /\ \A k \in Kdu : kt'[n][k] \in {kt[n][k], "work", "off"}
    BY <2>1 DEF Rests
  <2> QED
    BY <1>0, <1>9, <2>2 DEF DeleteSpaces, Bad
<1>10. CASE Finishes
  <2>1. ops'[n].kind = ops[n].kind /\ UNCHANGED <<cur, vt, kt, rt, dt>> /\ ~main'.exc
    BY <1>10 DEF Finishes, Idle
  <2>2. CASE n # cur
    BY <1>0, <1>10, <2>1, <2>2 DEF Finishes
  <2>3. CASE n = cur
    <3>1. Clear(n)
      BY <1>4, <2>1
    <3>2. ~AnyPending(n)
      BY <1>2, <1>10, <2>3 DEF Finishes
    <3>3. \A pc \in Pcs : ~Pending(pc) /\ pc \notin Bad => ~Unfinished(pc)
      BY DEF Pending, Ended, Bad, Unfinished
    <3>4. /\ rt[n] \in Pcs /\ dt[n] \in Pcs
          /\ \A v \in Vca : vt[n][v] \in Pcs
          /\ \A k \in Kdu : kt[n][k] \in Pcs
      BY DEF OrderInv, NeededInv, TypeOK
    <3>5. /\ ~Unfinished(rt[n]) /\ ~Unfinished(dt[n])
          /\ \A v \in Vca : ~Unfinished(vt[n][v])
          /\ \A k \in Kdu : ~Unfinished(kt[n][k])
      BY <3>1, <3>2, <3>3, <3>4, PendingFacts
    <3>6. ~main.exc /\ ~VcaUnfinished /\ ~VimUnfinished /\ ~Unfinished(dt[cur])
      BY <2>3, <3>1, <3>5 DEF VcaUnfinished, VimUnfinished
    <3>7. ops'[n].state # "FAILED"
      BY <1>10, <2>3, <3>6 DEF Finishes
    <3> QED
      BY <2>1, <3>1, <3>7
  <2> QED
    BY <2>2, <2>3
<1>11. ~GivesUp
  BY <1>2 DEF GivesUp
<1>12. CASE CancelSends \/ VmReport \/ UNCHANGED vars
  BY <1>0, <1>12 DEF CancelSends, VmReport, vars
<1>13. CASE CancelTakes
  <2>1. n # cur /\ cur' = cur /\ ops' = ops
    BY <1>3, <1>13 DEF CancelTakes
  <2>2. /\ rt'[n] = rt[n] /\ dt'[n] = dt[n]
        /\ \A v \in Vca : vt'[n][v] = vt[n][v]
        /\ \A k \in Kdu : kt'[n][k] = kt[n][k]
    BY <1>13, <2>1 DEF CancelTakes, Cancels
  <2> QED
    BY <1>0, <2>1, <2>2
<1>14. CASE CancelEnds
  <2>1. n # creq.op /\ UNCHANGED <<cur, main>> /\ ops'[n] = ops[n]
    BY <1>3, <1>14 DEF CancelEnds
  <2>2. /\ rt'[n] = rt[n] /\ dt'[n] = dt[n]
        /\ \A v \in Vca : vt'[n][v] = vt[n][v]
        /\ \A k \in Kdu : kt'[n][k] = kt[n][k]
    BY <1>14, <2>1 DEF CancelEnds, Cancels
  <2> QED
    BY <1>0, <2>1, <2>2
<1>15. ASSUME NEW m \in OpNum, TaskEffect(m) PROVE Clear(n)'
  <2>0. OperationFrame /\ m = cur
    BY <1>2, <1>15, TaskStepMoves, TaskOfLast DEF OrderInv
  <2>1. ops' = ops /\ main' = main /\ cur' = cur /\ Blameless(n) /\ Clear(n)
    BY <1>4, <2>0 DEF OperationFrame
  <2>2. ASSUME NEW v \in Vca, Deploys(m, v) PROVE Clear(n)'
    <3>1. CASE n # m
      BY <1>0, <2>1, <2>2, <3>1 DEF Deploys, VcaFrame
    <3>2. CASE n = m
      <4>1. Instantiating
        BY <1>2, <2>0, <2>2, TaskKinds DEF Instantiating
      <4>2. ~Hopeless(m, v)
        BY <2>0, <2>1, <3>2, <4>1, NotHopeless
      <4>3. vt'[m][v] \notin Bad
        BY <1>2, <2>2, <4>2 DEF Deploys, Bad, DeployPcs, Created
      <4>4. /\ \A w \in Vca : w # v => vt'[m][w] = vt[m][w]
            /\ UNCHANGED <<rt, dt, kt>>
        BY <2>2 DEF Deploys, VcaFrame
      <4> QED
        BY <1>0, <2>1, <3>2, <4>3, <4>4
    <3> QED
      BY <3>1, <3>2
  <2>3. ASSUME NEW v \in Vca, Removes(m, v) PROVE Clear(n)'
    <3>1. CASE n # m
      BY <1>0, <2>1, <2>3, <3>1 DEF Removes, VcaFrame
    <3>2. CASE n = m
      <4>1. vt[m][v] = "last" => v \in env
        BY <1>2 DEF NeededThere
      <4>2. vt'[m][v] \notin Bad
        BY <1>2, <2>3, <4>1 DEF Removes, Bad
      <4>3. /\ \A w \in Vca : w # v => vt'[m][w] = vt[m][w]
            /\ UNCHANGED <<rt, dt, kt>>
        BY <2>3 DEF Removes, VcaFrame
      <4> QED
        BY <1>0, <2>1, <3>2, <4>2, <4>3
    <3> QED
      BY <3>1, <3>2
  <2>4. ASSUME NEW k \in Kdu, KduMoves(m, k) PROVE Clear(n)'
    <3>1. /\ \A j \in Kdu : kt'[n][j] \in {kt[n][j], "done"}
          /\ UNCHANGED <<rt, dt, vt>>
      BY <1>2, <2>4 DEF KduMoves
    <3> QED
      BY <1>0, <2>1, <3>1 DEF Bad
  <2>5. CASE RoMoves(m)
    <3>1. vnfr.vm # "ERROR"
      BY <1>2 DEF Unfaulted
    <3>2. rt'[n] \in {rt[n], "done"} /\ UNCHANGED <<kt, dt, vt>>
      BY <1>2, <2>5, <3>1 DEF RoMoves
    <3> QED
      BY <1>0, <2>1, <3>2 DEF Bad
  <2>6. CASE DeleteMoves(m)
    <3>1. dt'[n] \in {dt[n], "done"} /\ UNCHANGED <<kt, rt, vt>>
      BY <1>2, <2>6 DEF DeleteMoves
    <3> QED
      BY <1>0, <2>1, <3>1 DEF Bad
  <2> QED
    BY <1>15, <2>2, <2>3, <2>4, <2>5, <2>6 DEF TaskEffect
<1> QED
  BY <1>5, <1>6, <1>7, <1>8, <1>9, <1>10, <1>11, <1>12, <1>13, <1>14, <1>15
     DEF Effects

CausedInv ==
    /\ OrderInv /\ EnvsThere
    /\ Unfaulted /\ NotAsked /\ SwThere /\ NeededThere /\ Innocence

LEMMA CausedInit == ASSUME Init PROVE CausedInv
<1>1. OrderInv /\ EnvsThere
  BY OutcomeInit DEF OutcomeInv
<1>2. /\ main = Idle /\ env = {} /\ vnfr = [vm |-> "none", error |-> FALSE]
      /\ creq.op = 0
      /\ \A v \in Vca : ~vca[v].sw /\ ~vca[v].ee /\ ~vca[v].needed
      /\ \A k \in Kdu : kdu[k].status = "none"
      /\ \A n \in OpNum : /\ ops[n].state = "none" /\ rt[n] = "off" /\ dt[n] = "off"
                          /\ \A v \in Vca : vt[n][v] = "off"
                          /\ \A k \in Kdu : kt[n][k] = "off"
  BY DEF Init, NoVca
<1>3. Unfaulted /\ NotAsked /\ SwThere /\ NeededThere
  BY <1>2 DEF Unfaulted, NotAsked, SwThere, NeededThere, Idle
<1>4. Innocence
  BY <1>2 DEF Innocence, Idle, Bad
<1> QED
  BY <1>1, <1>3, <1>4 DEF CausedInv

LEMMA CausedKept == ASSUME NativeApart, CausedInv, [Next]_vars PROVE CausedInv'
<1>1. OrderInv /\ OrderInv' /\ Effects
  BY OrderKept, StepEffect DEF CausedInv, OrderInv
<1> QED
  BY <1>1, EnvsThereKept, UnfaultedKept, NotAskedKept, SwThereKept,
     NeededThereKept, InnocenceKept DEF CausedInv

\* An operation fails only when something failed: a call to another system, the
\* timeout of an operation or a cancel; when it instantiates again an NS whose
\* record is outdated; or when the NS asks for what the code cannot do: helm or
\* two environments of the NS itself, a charm of it to terminate.  No order in which the tasks of one operation wait
\* for each other makes it fail (NsLcm.instantiate, terminate).
THEOREM FailuresAreCaused ==
    ASSUME NativeApart PROVE Spec => []FailureHasCause
<1>1. Init => CausedInv
  BY CausedInit
<1>2. CausedInv /\ [Next]_vars => CausedInv'
  BY CausedKept
<1>3. CausedInv => FailureHasCause
  <2>1. SUFFICES ASSUME CausedInv, NEW n \in OpNum, ops[n].state = "FAILED",
                        faults = 0, late = {}, creq.op # n, ~Outdated(n),
                        ~NotSupported(n)
                 PROVE  FALSE
    BY DEF FailureHasCause, CausedInv, OrderInv, NeededInv, TypeOK
  <2> QED
    BY <2>1 DEF CausedInv, Innocence, Blameless
<1> QED
  BY <1>1, <1>2, <1>3, PTL DEF Spec
=============================================================================
