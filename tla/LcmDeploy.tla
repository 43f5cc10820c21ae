----------------------------- MODULE LcmDeploy -----------------------------
(* NsLcm.instantiate (osm_lcm/ns.py) between the moment it may run and its   *)
(* outcome: the tasks it creates for KDUs, the VIM and the execution         *)
(* environments, what these wait for, and how the outcome is put together.   *)
EXTENDS NsDeployDb

Level(v) == nsd.level[v]
Type(v) == nsd.type[v]
HasHelm == \E v \in Vca : Type(v) = "helm"

SetVt(n, v, pc) == vt' = [vt EXCEPT ![n][v] = pc]

-----------------------------------------------------------------------------
(* The coroutine of the operation.                                            *)

\* NBI accepts an instantiation of an NS that is not instantiated.  Up to its
\* first await the coroutine reads the record, sets nsState to INSTANTIATED
\* and (deploy_kdus) empties _admin.deployed.K8s.
StartInstantiate ==
    /\ main.pc = "idle" /\ Another
    /\ nsr.admin = "NOT_INSTANTIATED"
    /\ cur' = cur + 1
    /\ ops' = [ops EXCEPT ![cur + 1] = [kind |-> "instantiate",
                                        state |-> "PROCESSING"]]
    /\ nsr' = [nsr EXCEPT !.admin = "INSTANTIATED", !.state = "BUILDING",
                          !.oper = "init"]
    /\ kdu' = [k \in Kdu |-> [kdu[k] EXCEPT !.instance = FALSE]]
    /\ main' = [pc |-> "kdus", exc |-> FALSE, todo |-> Kdu]
    /\ UNCHANGED <<nsd, vca, vnfr, extVars, copy, taskVars, creq, faults, late>>

Running == main.pc # "idle" /\ ~(creq.state = "sent" /\ creq.op = cur)

\* deploy_kdus, the cluster of k is known and its repositories are
\* synchronized: the record of k is written and its task created, which stores
\* the name of the instance before it awaits the installation.
DeployKdu(k) ==
    /\ Running /\ main.pc = "kdus" /\ k \in main.todo
    /\ main' = [main EXCEPT !.todo = @ \ {k}]
    /\ kdu' = [kdu EXCEPT ![k].instance = TRUE]
    /\ kt' = [kt EXCEPT ![cur][k] = "work"]
    /\ UNCHANGED <<nsd, nsr, vca, vnfr, extVars, cur, ops, copy, vt, rt, dt,
                   creq, faults, late>>

\* The cluster is unknown or cannot be initialised or synchronized, or the
\* namespace or certificate of the helm environments cannot be created: the
\* finally block waits for the tasks created so far.
PreparationFails ==
    /\ Running
    /\ \/ main.pc = "kdus" /\ main.todo # {}
       \/ main.pc = "certs"
    /\ Fault
    /\ main' = [pc |-> "wait", exc |-> TRUE, todo |-> {}]
    /\ UNCHANGED <<nsd, recVars, extVars, cur, ops, copy, taskVars, creq,
                   late>>

\* _deploy_n2vc, and the first segment of instantiate_N2VC: the tasks start in
\* the order of their creation, before any of them resumes.
LaunchVcas ==
    /\ vca' = [v \in Vca |->
                 [vca[v] EXCEPT !.known = TRUE,
                                !.status = IF Type(v) = "native"
                                             THEN @ ELSE "CREATING"]]
    /\ vt' = [vt EXCEPT ![cur] = [v \in Vca |->
                 IF Type(v) = "native" THEN "boot" ELSE "create"]]

\* instantiate_RO requests the deployment (the VIM holds resources from then
\* on).  Without helm there is no await before the other tasks are created.
LaunchRo ==
    /\ Running /\ main.pc = "kdus" /\ main.todo = {}
    /\ rt' = [rt EXCEPT ![cur] = "work"]
    /\ vim' = TRUE
    /\ IF HasHelm
         THEN /\ main' = [main EXCEPT !.pc = "certs"]
              /\ UNCHANGED <<vca, vt>>
         ELSE /\ main' = [main EXCEPT !.pc = "wait"]
              /\ LaunchVcas
    /\ UNCHANGED <<nsd, nsr, kdu, vnfr, env, release, cur, ops, copy, kt, dt,
                   creq, faults, late>>

LaunchHelm ==
    /\ Running /\ main.pc = "certs"
    /\ main' = [main EXCEPT !.pc = "wait"]
    /\ LaunchVcas
    /\ UNCHANGED <<nsd, nsr, kdu, vnfr, extVars, cur, ops, copy, kt, rt, dt,
                   creq, faults, late>>

-----------------------------------------------------------------------------
(* instantiate_RO and _install_kdu.                                           *)

\* RO reports the machines in the vnfrs.
VmReport ==
    /\ vim /\ vnfr.vm = "none"
    /\ \/ vnfr' = [vnfr EXCEPT !.vm = "ACTIVE"] /\ UNCHANGED faults
       \/ vnfr' = [vnfr EXCEPT !.vm = "ERROR"] /\ Fault
    /\ UNCHANGED <<nsd, nsr, vca, kdu, extVars, cur, ops, main, copy,
                   taskVars, creq, late>>

Deploying(n) == ops[n].kind = "instantiate"

RoDone(n) ==
    /\ Deploying(n) /\ rt[n] = "work" /\ vnfr.vm = "ACTIVE"
    /\ rt' = [rt EXCEPT ![n] = "done"]
    /\ UNCHANGED <<nsd, recVars, extVars, cur, ops, main, copy, vt, kt, dt,
                   creq, faults, late>>

\* Refused, failed or too late: set_vnfr_at_error.
RoFails(n) ==
    /\ Deploying(n) /\ rt[n] = "work"
    /\ IF vnfr.vm = "ERROR" THEN UNCHANGED faults ELSE Fault
    /\ rt' = [rt EXCEPT ![n] = "failed"]
    /\ vnfr' = [vnfr EXCEPT !.error = TRUE]
    /\ vim' \in {vim, vnfr.vm # "none" /\ vim}
    /\ UNCHANGED <<nsd, nsr, vca, kdu, env, release, cur, ops, main, copy, vt,
                   kt, dt, creq, late>>

KduDone(n, k) ==
    /\ Deploying(n) /\ kt[n][k] = "work"
    /\ kt' = [kt EXCEPT ![n][k] = "done"]
    /\ kdu' = [kdu EXCEPT ![k].status = "READY"]
    /\ release' = release \cup {k}
    /\ UNCHANGED <<nsd, nsr, vca, vnfr, env, vim, cur, ops, main, copy, vt, rt,
                   dt, creq, faults, late>>

\* The installation, which is atomic, or a primitive after it.
KduFails(n, k) ==
    /\ Deploying(n) /\ kt[n][k] = "work" /\ Fault
    /\ kt' = [kt EXCEPT ![n][k] = "failed"]
    /\ kdu' = [kdu EXCEPT ![k].status = "ERROR"]
    /\ release' \in {release, release \cup {k}}
    /\ UNCHANGED <<nsd, nsr, vca, vnfr, env, vim, cur, ops, main, copy, vt, rt,
                   dt, creq, late>>

-----------------------------------------------------------------------------
(* instantiate_N2VC.                                                          *)

VcaFrame == UNCHANGED <<nsd, nsr, kdu, vnfr, release, vim, cur, ops, main,
                        copy, kt, rt, dt, creq, late>>

\* native_charm: the VM is up, the environment is registered.
Boot(n, v) ==
    /\ vt[n][v] = "boot" /\ vnfr.vm = "ACTIVE"
    /\ Level(v) = "VNF" => ~vnfr.error
    /\ SetVt(n, v, "create")
    /\ vca' = [vca EXCEPT ![v].status = "REGISTERING"]
    /\ VcaFrame /\ UNCHANGED <<env, faults>>

\* The environment exists and its ee_id is stored; that of an earlier operation
\* is never reused (ee_id is set to None before).  k8s_proxy_charm has its
\* software already.
Create(n, v) ==
    /\ vt[n][v] = "create"
    /\ env' = env \cup {v}
    /\ vca' = [vca EXCEPT ![v].ee = TRUE, ![v].status = "INSTALLING SW",
                          ![v].sw = @ \/ Type(v) = "k8s"]
    /\ SetVt(n, v, IF Type(v) = "k8s" THEN "relate" ELSE "install")
    /\ VcaFrame /\ UNCHANGED faults

InstallSw(n, v) ==
    /\ vt[n][v] = "install"
    /\ vca' = [vca EXCEPT ![v].sw = TRUE]
    /\ SetVt(n, v, "relate")
    /\ VcaFrame /\ UNCHANGED <<env, faults>>

Peers(v) == {p \in Vca \ {v} : {p, v} \in nsd.peers}

\* Mutant of PeersInstalled: the entries of both ends are enough.
PeersKnown(v) == \A p \in Peers(v) : vca[p].known

\* _add_vca_relations: both ends have config_sw_installed in the record.
PeersInstalled(v) == \A p \in Peers(v) : vca[p].known /\ vca[p].sw

\* add_relation names both environments.  A native charm has waited for its
\* VM, a charm of the NS has none.
Relate(n, v) ==
    /\ vt[n][v] = "relate" /\ PeersInstalled(v) /\ Peers(v) \subseteq env
    /\ SetVt(n, v, IF Type(v) = "native" \/ Level(v) = "NS"
                     THEN "depend" ELSE "vm")
    /\ VcaFrame /\ UNCHANGED <<env, vca, faults>>

\* wait_kdu_up, wait_vm_up_insert_key_ro: the VNF's own status comes first.
TargetUp(v) ==
    CASE Level(v) = "KDU" -> \A k \in Kdu : kdu[k].status = "READY"
      [] Level(v) = "VNF" -> vnfr.vm = "ACTIVE" /\ ~vnfr.error
      [] OTHER -> vnfr.vm = "ACTIVE"

TargetFailed(v) ==
    CASE Level(v) = "KDU" -> \E k \in Kdu : kdu[k].status = "ERROR"
      [] Level(v) = "VNF" -> vnfr.vm = "ERROR" \/ vnfr.error
      [] OTHER -> vnfr.vm # "ACTIVE" /\ (vnfr.vm = "ERROR" \/ vnfr.error)

VmUp(n, v) ==
    /\ vt[n][v] = "vm" /\ TargetUp(v)
    /\ SetVt(n, v, "depend")
    /\ VcaFrame /\ UNCHANGED <<env, vca, faults>>

\* Mutant of Dependencies: the charm of the NS looks only at the entries that
\* come after its own.
DependenciesAfter(v) == IF Level(v) = "NS" THEN {w \in Vca : w > v} ELSE {}

\* _wait_dependent_n2vc: the charm of the NS waits for all the others.  The
\* entries of configurationStatus have no member-vnf-index, so no entry is
\* ever found equal to that of a VNF charm.
Dependencies(v) == IF Level(v) = "NS" THEN Vca \ {v} ELSE {}

DependenciesReady(v) == \A w \in Dependencies(v) : vca[w].status = "READY"

\* Without initial primitives nothing is awaited any more.
Depend(n, v) ==
    /\ vt[n][v] = "depend"
    /\ IF v \in nsd.initial
         THEN /\ DependenciesReady(v)
              /\ vca' = [vca EXCEPT ![v].status = "EXECUTING PRIMITIVE"]
              /\ SetVt(n, v, "first")
         ELSE /\ vca' = [vca EXCEPT ![v].status = "READY"]
              /\ SetVt(n, v, "done")
    /\ VcaFrame /\ UNCHANGED <<env, faults>>

\* Once some primitive has been executed the terminate primitives are needed.
FirstPrimitive(n, v) ==
    /\ vt[n][v] = "first"
    /\ vca' = [vca EXCEPT ![v].needed = @ \/ v \in nsd.terminate]
    /\ SetVt(n, v, "more")
    /\ VcaFrame /\ UNCHANGED <<env, faults>>

\* After its primitives a helm chart looks up its VNF for the metrics; one of the
\* NS has none (db_vnfr is None), which raises.
HelmOfNs(v) == Type(v) = "helm" /\ Level(v) = "NS"

MorePrimitives(n, v) ==
    /\ vt[n][v] = "more" /\ ~HelmOfNs(v)
    /\ vca' = [vca EXCEPT ![v].status = "READY"]
    /\ SetVt(n, v, "done")
    /\ VcaFrame /\ UNCHANGED <<env, faults>>

\* Mutant of Hopeless: the waits notice no failure and have no time limit.
Unlimited(n, v) == vt[n][v] = "more" /\ HelmOfNs(v)

\* What v awaits will not come: the wait is left at once or at its timeout.
\* Two environments of the NS wait for each other.
Hopeless(n, v) ==
    CASE vt[n][v] = "boot" ->
             TargetFailed(v) \/ rt[n] \in {"failed", "cancelled"}
      [] vt[n][v] = "vm" ->
             \/ TargetFailed(v)
             \/ rt[n] \in {"failed", "cancelled"} /\ vnfr.vm # "ACTIVE"
      [] vt[n][v] = "relate" ->
             \/ \E p \in Peers(v) : ~vca[p].sw /\ vt[n][p] \in Ended
             \/ PeersInstalled(v) /\ ~(Peers(v) \subseteq env)
      [] vt[n][v] = "depend" ->
             /\ v \in nsd.initial
             /\ \E w \in Dependencies(v) :
                    /\ vca[w].status # "READY"
                    /\ vt[n][w] \in Ended \/ Level(w) = "NS"
      [] vt[n][v] = "more" -> HelmOfNs(v)
      [] OTHER -> FALSE

\* The except clause: BROKEN, and LcmException ends the task.  A creation that
\* failed may leave the environment.
VcaFails(n, v) ==
    /\ Deploying(n) /\ Pending(vt[n][v])
    /\ IF Hopeless(n, v) THEN UNCHANGED faults ELSE Fault
    /\ vca' = [vca EXCEPT ![v].status = "BROKEN"]
    /\ SetVt(n, v, "failed")
    /\ env' \in {env, IF vt[n][v] = "create" THEN env \cup {v} ELSE env}
    /\ VcaFrame

VcaStep(n, v) ==
    \/ Boot(n, v) \/ Create(n, v) \/ InstallSw(n, v) \/ Relate(n, v)
    \/ VmUp(n, v) \/ Depend(n, v) \/ FirstPrimitive(n, v)
    \/ MorePrimitives(n, v)

-----------------------------------------------------------------------------
(* The outcome.                                                               *)

Unfinished(pc) == pc \notin {"off", "done"}
VcaUnfinished == \E v \in Vca : Unfinished(vt[cur][v])
\* Mutant of VimUnfinished: a failed KDU counts as a charm's failure only.
RoUnfinished == Unfinished(rt[cur])

VimUnfinished ==
    Unfinished(rt[cur]) \/ \E k \in Kdu : Unfinished(kt[cur][k])

\* _wait_for_tasks returns when all tasks ended, or at the timeout of the
\* operation and without cancelling those that are left.
Waited ==
    \/ ~AnyPending(cur) /\ UNCHANGED late
    \/ AnyPending(cur) /\ CountPending(cur) <= MaxLeft /\ late' = late \cup {cur}

\* Mutants of Outcome: the errors of the tasks are left out; the state of the
\* NS in place of the operation's.
OwnOutcome(failed) == [ops EXCEPT ![cur].state = IF main.exc THEN "FAILED"
                                                             ELSE "COMPLETED"]
NsOutcome(failed) == [ops EXCEPT ![cur].state = IF failed THEN "BROKEN"
                                                          ELSE "READY"]

Outcome(failed) == [ops EXCEPT ![cur].state = IF failed THEN "FAILED"
                                                        ELSE "COMPLETED"]

FinishInstantiate ==
    /\ Running /\ main.pc = "wait" /\ Deploying(cur)
    /\ Waited
    /\ LET failed == main.exc \/ VcaUnfinished \/ VimUnfinished
       IN /\ ops' = Outcome(failed)
          /\ nsr' = [nsr EXCEPT
                       !.state = IF failed THEN "BROKEN" ELSE "READY",
                       !.oper = IF VimUnfinished THEN "failed" ELSE "running",
                       !.config = IF VcaUnfinished THEN "failed"
                                                   ELSE "configured"]
    /\ main' = Idle /\ copy' = NoCopy
    /\ UNCHANGED <<nsd, vca, kdu, vnfr, extVars, cur, taskVars, creq, faults>>
=============================================================================
