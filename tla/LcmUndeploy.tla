---------------------------- MODULE LcmUndeploy ----------------------------
(* NsLcm.terminate (osm_lcm/ns.py): the terminate primitives, then the       *)
(* deletion of the environments, the KDUs and the VIM resources.             *)
EXTENDS LcmDeploy

Undeploying(n) == ops[n].kind = "terminate"

-----------------------------------------------------------------------------
(* The coroutine of the operation.                                            *)

\* Only helm and native environments are destroyed one by one.
DestroysEe(v) == Type(v) \in {"helm", "native"}

\* The models of the NS in Juju: charms in Kubernetes have one of their own.
SharesModel(v) == Type(v) \in {"lxc", "native"}

\* Where destroy_N2VC first awaits; with neither it ends at once.
AfterPrimitives(v) == IF DestroysEe(v) THEN "destroy" ELSE "done"

\* Mutant of DestroyStart: the terminate primitives are never executed.
DestroyAtOnce(v) == AfterPrimitives(v)

\* terminate() looks for the ns-configuration in the nsrs record, which has it
\* under nsd only: for the NS it hands over None, and destroy_N2VC raises as soon
\* as it asks it for the terminate primitives.
DestroyStart(v) ==
    CASE ~vca[v].needed -> AfterPrimitives(v)
      [] vca[v].needed /\ Level(v) # "NS" -> "last"
      [] OTHER -> "failed"

\* NBI accepts the termination of an NS that is instantiated.  The coroutine
\* copies _admin.deployed and creates a task for every environment with ee_id.
StartTerminate ==
    /\ main.pc = "idle" /\ Another
    /\ nsr.admin = "INSTANTIATED"
    /\ cur' = cur + 1
    /\ ops' = [ops EXCEPT ![cur + 1] = [kind |-> "terminate",
                                        state |-> "PROCESSING"]]
    /\ nsr' = [nsr EXCEPT !.state = "TERMINATING", !.oper = "terminating",
                          !.config = "terminating"]
    /\ copy' = [vca |-> vca, kdus |-> {k \in Kdu : kdu[k].instance}]
    /\ vt' = [vt EXCEPT ![cur + 1] =
                 [v \in Vca |-> IF vca[v].ee THEN DestroyStart(v) ELSE "off"]]
    /\ main' = [pc |-> "prims", exc |-> FALSE, todo |-> {}]
    /\ UNCHANGED <<nsd, vca, kdu, vnfr, extVars, kt, rt, dt, creq, faults,
                   late>>

PrimitivesEnded == PendingVcas(cur) = {}
PrimitivesFailed == \E v \in Vca : Unfinished(vt[cur][v])

\* Mutant of LaunchRest: KDUs that are not ready are left out.
LaunchReadyRest ==
    /\ kt' = [kt EXCEPT ![cur] =
                 [k \in Kdu |-> IF kdu[k].status = "READY" THEN "work"
                                                          ELSE "off"]]
    /\ rt' = [rt EXCEPT ![cur] = "work"]
    /\ main' = [main EXCEPT !.pc = "wait"]

\* The tasks for the KDUs of the copy and for the VIM.
LaunchRest ==
    /\ kt' = [kt EXCEPT ![cur] = [k \in Kdu |-> IF k \in copy.kdus
                                                  THEN "work" ELSE "off"]]
    /\ rt' = [rt EXCEPT ![cur] = "work"]
    /\ main' = [main EXCEPT !.pc = "wait"]

HelmKnown == \E v \in Vca : copy.vca[v].known /\ Type(v) = "helm"
AnyKnown == \E v \in Vca : copy.vca[v].known

\* "remove All execution environments at once": the namespace of helm when
\* one of the environments is of that type, else _delete_all_N2VC.
DeleteAll ==
    /\ Running /\ main.pc = "prims" /\ PrimitivesEnded /\ ~PrimitivesFailed
    /\ IF HelmKnown
         THEN /\ main' = [main EXCEPT !.pc = "spaces"]
              /\ UNCHANGED <<vca, kt, rt, dt>>
         ELSE /\ LaunchRest
              /\ dt' = [dt EXCEPT ![cur] = IF AnyKnown THEN "work" ELSE "off"]
              /\ vca' = IF AnyKnown
                          THEN [v \in Vca |->
                                  IF copy.vca[v].status = "none" THEN vca[v]
                                  ELSE [vca[v] EXCEPT !.status = "TERMINATING"]]
                          ELSE vca
    /\ UNCHANGED <<nsd, nsr, kdu, vnfr, extVars, cur, ops, copy, vt, creq,
                   faults, late>>

\* delete_namespace takes every helm release of the NS with it.
DeleteSpaces ==
    /\ Running /\ main.pc = "spaces"
    /\ env' = {v \in env : Type(v) # "helm"}
    /\ LaunchRest
    /\ UNCHANGED <<nsd, recVars, release, vim, cur, ops, copy, vt, dt, creq,
                   faults, late>>

SpacesFail ==
    /\ Running /\ main.pc = "spaces" /\ Fault
    /\ main' = [main EXCEPT !.pc = "wait", !.exc = TRUE]
    /\ UNCHANGED <<nsd, recVars, extVars, cur, ops, copy, taskVars, creq,
                   late>>

-----------------------------------------------------------------------------
(* destroy_N2VC.                                                              *)

\* The terminate primitives were executed.
DestroyPrimitive(n, v) ==
    /\ vt[n][v] = "last" /\ v \in env
    /\ vca' = [vca EXCEPT ![v].needed = FALSE]
    /\ SetVt(n, v, AfterPrimitives(v))
    /\ VcaFrame /\ UNCHANGED <<env, faults>>

\* helm uninstalls the release; for a native charm the juju model of the NS is
\* destroyed, with every environment in it.
DestroyEe(n, v) ==
    /\ vt[n][v] = "destroy"
    /\ env' = IF Type(v) = "helm" THEN env \ {v}
                                  ELSE {w \in env : ~SharesModel(w)}
    /\ SetVt(n, v, "done")
    /\ VcaFrame /\ UNCHANGED <<vca, faults>>

\* A primitive of an environment that is gone fails like any other.
DestroyFails(n, v) ==
    /\ Undeploying(n) /\ vt[n][v] \in {"last", "destroy"}
    /\ IF vt[n][v] = "last" /\ v \notin env THEN UNCHANGED faults ELSE Fault
    /\ SetVt(n, v, "failed")
    /\ VcaFrame /\ UNCHANGED <<env, vca>>

-----------------------------------------------------------------------------
(* The other tasks.                                                           *)

\* delete_namespace destroys the models of the NS.
DeleteAllDone(n) ==
    /\ dt[n] = "work"
    /\ env' = {v \in env : Type(v) \notin Juju}
    /\ vca' = [v \in Vca |-> IF vca[v].status = "none" THEN vca[v]
                             ELSE [vca[v] EXCEPT !.status = "DELETED"]]
    /\ dt' = [dt EXCEPT ![n] = "done"]
    /\ UNCHANGED <<nsd, nsr, kdu, vnfr, release, vim, cur, ops, main, copy,
                   vt, kt, rt, creq, faults, late>>

DeleteAllFails(n) ==
    /\ dt[n] = "work" /\ Fault
    /\ dt' = [dt EXCEPT ![n] = "failed"]
    /\ UNCHANGED <<nsd, recVars, extVars, cur, ops, main, copy, vt, kt, rt,
                   creq, late>>

Uninstall(n, k) ==
    /\ Undeploying(n) /\ kt[n][k] = "work"
    /\ \/ /\ kt' = [kt EXCEPT ![n][k] = "done"]
          /\ release' = release \ {k}
          /\ UNCHANGED faults
       \/ /\ kt' = [kt EXCEPT ![n][k] = "failed"]
          /\ Fault /\ UNCHANGED release
    /\ UNCHANGED <<nsd, recVars, env, vim, cur, ops, main, copy, vt, rt, dt,
                   creq, late>>

\* _terminate_ng_ro: RO removes what the VIM holds, and the record of the NS.
RoDelete(n) ==
    /\ Undeploying(n) /\ rt[n] = "work"
    /\ \/ /\ rt' = [rt EXCEPT ![n] = "done"]
          /\ vim' = FALSE /\ vnfr' = [vnfr EXCEPT !.vm = "none"]
          /\ UNCHANGED faults
       \/ /\ rt' = [rt EXCEPT ![n] = "failed"]
          /\ Fault /\ UNCHANGED <<vim, vnfr>>
    /\ UNCHANGED <<nsd, nsr, vca, kdu, env, release, cur, ops, main, copy, vt,
                   kt, dt, creq, late>>

-----------------------------------------------------------------------------
(* The outcome.                                                               *)

\* Failed primitives end the operation before anything else is deleted.
TerminateWaited ==
    CASE main.pc = "prims" -> /\ \/ PrimitivesFailed /\ PrimitivesEnded
                                 \/ ~PrimitivesEnded
                              /\ Waited
      [] main.pc = "wait" -> Waited
      [] OTHER -> FALSE

FinishTerminate ==
    /\ Running /\ Undeploying(cur)
    /\ TerminateWaited
    /\ LET failed == \/ main.exc \/ VcaUnfinished \/ VimUnfinished
                     \/ Unfinished(dt[cur])
       IN /\ ops' = Outcome(failed)
          /\ nsr' = IF failed
                      THEN [nsr EXCEPT !.state = "BROKEN", !.oper = "failed"]
                      ELSE [nsr EXCEPT !.state = "NOT_INSTANTIATED",
                                       !.oper = "terminated",
                                       !.admin = "NOT_INSTANTIATED"]
    /\ main' = Idle /\ copy' = NoCopy
    /\ UNCHANGED <<nsd, vca, kdu, vnfr, extVars, cur, taskVars, creq, faults>>

-----------------------------------------------------------------------------
(* The cancel command (lcm.py) for the operation that runs.                   *)

\* The first task cancelled, and awaited, is that of the operation itself; it
\* is at one of its awaits.
CancelSend ==
    /\ main.pc # "idle" /\ MaxCancel > 0 /\ creq.state = "none"
    /\ main.pc = "kdus" => main.todo # {}
    /\ main.pc = "prims" => ~PrimitivesEnded
    /\ creq' = [op |-> cur, state |-> "sent"]
    /\ UNCHANGED <<nsd, recVars, extVars, cur, ops, main, copy, taskVars,
                   faults, late>>

\* Of the tasks of operation n that have not ended, those for the environments
\* V, for the KDUs K and, when rest is TRUE, the others are cancelled.  What was
\* asked of another system may have been done.
CancelThose(n, V, K, rest) ==
    /\ vt' = [vt EXCEPT ![n] = [v \in Vca |-> IF v \in V THEN Cancelled(vt[n][v])
                                                        ELSE vt[n][v]]]
    /\ kt' = [kt EXCEPT ![n] = [k \in Kdu |-> IF k \in K THEN Cancelled(kt[n][k])
                                                        ELSE kt[n][k]]]
    /\ rt' = [rt EXCEPT ![n] = IF rest THEN Cancelled(@) ELSE @]
    /\ dt' = [dt EXCEPT ![n] = IF rest THEN Cancelled(@) ELSE @]
    /\ \E made \in SUBSET {v \in V : vt[n][v] = "create"} :
          env' = env \cup made
    /\ \E made \in SUBSET {k \in K : kt[n][k] = "work" /\ Deploying(n)} :
          release' = release \cup made

CancelTasks(n) == CancelThose(n, Vca, Kdu, TRUE)

\* Tasks are registered, and cancelled and awaited, KDU by KDU, then the VIM's,
\* then those of the environments: up to the first that failed.
FailedKdus(n) == {k \in Kdu : kt[n][k] = "failed"}
FailedVcas(n) == {v \in Vca : vt[n][v] = "failed"}
BeforeFailed(n) ==
    IF FailedKdus(n) # {} \/ rt[n] = "failed" THEN {}
    ELSE {w \in Vca : \A v \in FailedVcas(n) : w < v}

CancelUpToFailed(n) ==
    \E K \in SUBSET Kdu :
        /\ FailedKdus(n) = {} => K = Kdu
        /\ CancelThose(n, BeforeFailed(n), K, FailedKdus(n) = {})

\* CancelledError in the coroutine: before the finally block it is an error
\* like any other, in the finally block's wait the pending tasks are cancelled
\* and awaited again.
CancelMain ==
    /\ creq.state = "sent" /\ creq.op = cur /\ main.pc # "idle"
    /\ creq' = [creq EXCEPT !.state = "taken"]
    /\ main' = [pc |-> "wait", exc |-> TRUE, todo |-> {}]
    /\ IF main.pc = "wait" THEN CancelTasks(cur)
                           ELSE UNCHANGED <<taskVars, env, release>>
    /\ UNCHANGED <<nsd, recVars, vim, cur, ops, copy, faults, late>>

Registered(n) == {vt[n][v] : v \in Vca} \cup {kt[n][k] : k \in Kdu} \cup {rt[n]}

\* The coroutine has ended; the tasks an instantiation registered are
\* cancelled and awaited next.  One that failed raises its exception again:
\* the command is left before it cancels the others and updates the operation.
CancelEnd ==
    /\ creq.state = "taken" /\ (creq.op # cur \/ main.pc = "idle")
    /\ IF Deploying(creq.op) /\ "failed" \in Registered(creq.op)
         THEN /\ creq' = [creq EXCEPT !.state = "raised"]
              /\ CancelUpToFailed(creq.op) /\ UNCHANGED ops
         ELSE /\ creq' = [creq EXCEPT !.state = "answered"]
              /\ ops' = [ops EXCEPT ![creq.op].state = "FAILED_TEMP"]
              /\ IF Deploying(creq.op) THEN CancelTasks(creq.op)
                                       ELSE UNCHANGED <<taskVars, env, release>>
    /\ UNCHANGED <<nsd, recVars, vim, cur, main, copy, faults, late>>
=============================================================================
