------------------------------ MODULE NsDeploy ------------------------------
(* The deployment and removal of one network service by an LCM worker: the   *)
(* operations one after the other, each with the tasks it awaits, other      *)
(* systems that fail, operations that reach their timeout, a cancel.         *)
EXTENDS LcmUndeploy

MainStep ==
    \/ StartInstantiate \/ StartTerminate
    \/ (\E k \in Kdu : DeployKdu(k))
    \/ PreparationFails \/ LaunchRo \/ LaunchHelm \/ FinishInstantiate
    \/ DeleteAll \/ DeleteSpaces \/ SpacesFail \/ FinishTerminate

TaskStep(n) ==
    \/ RoDone(n) \/ RoFails(n) \/ DeleteAllDone(n) \/ DeleteAllFails(n)
    \/ RoDelete(n)
    \/ \E k \in Kdu : KduDone(n, k) \/ KduFails(n, k) \/ Uninstall(n, k)
    \/ \E v \in Vca : \/ VcaStep(n, v) \/ VcaFails(n, v)
                      \/ DestroyPrimitive(n, v) \/ DestroyEe(n, v)
                      \/ DestroyFails(n, v)

CancelStep == CancelSend \/ CancelMain \/ CancelEnd

Next ==
    \/ MainStep \/ VmReport \/ CancelStep
    \/ \E n \in OpNum : TaskStep(n)

Spec == Init /\ [][Next]_vars

\* As long as something can go on without a failure, something goes on: the
\* worker's event loop runs, RO reports and the systems that are called answer.
GoOn ==
    /\ \/ MainStep \/ VmReport \/ CancelMain \/ CancelEnd
       \/ \E n \in OpNum : TaskStep(n)
    /\ UNCHANGED faults

FairSpec == Spec /\ WF_vars(GoOn)

-----------------------------------------------------------------------------
(* What the outcome of an operation means.                                    *)

Last(kind, state) ==
    main.pc = "idle" /\ cur > 0 /\ ops[cur] = [kind |-> kind, state |-> state]

\* An instantiation began while tasks of an operation before it may go on.
Overlapped ==
    \E left \in late, n \in OpNum : left < n /\ n <= cur /\ Deploying(n)

\* An instantiation that completed has everything running: each environment
\* exists and is configured, the VMs are active and the KDUs deployed
\* (NsLcm.instantiate).
CompletedIsRunning ==
    (Last("instantiate", "COMPLETED") /\ ~Overlapped) =>
        /\ env = Vca /\ \A v \in Vca : vca[v].status = "READY" /\ vca[v].sw
        /\ vim /\ vnfr.vm = "ACTIVE" /\ release = Kdu

\* A termination that completed leaves nothing outside of OSM, unless an
\* earlier operation left tasks behind at its timeout (NsLcm.terminate:
\* "remove All execution environments at once").
TerminatedIsClean ==
    (Last("terminate", "COMPLETED") /\ late = {}) =>
        env = {} /\ release = {} /\ ~vim

\* After an instantiation that got as far as to create its tasks, config-status
\* tells whether every environment is configured, and operational-status
\* whether the VMs and the KDUs are there.
FailureIsLocated ==
    (/\ main.pc = "idle" /\ cur > 0 /\ Deploying(cur) /\ late = {}
     /\ \A v \in Vca : vt[cur][v] # "off") =>
        /\ nsr.config = "configured" <=> \A v \in Vca : vca[v].status = "READY"
        /\ nsr.oper = "running" =>
              /\ vnfr.vm = "ACTIVE"
              /\ \A k \in Kdu : kdu[k].status = "READY"

\* An instantiation after a termination finds what the first one recorded and the
\* termination left: the config_sw_installed of charms in a relation, whose
\* environments are gone.
Outdated(n) == Deploying(n) /\ n > 1 /\ nsd.peers # {}

\* What the code cannot do for an NS: a helm chart or a second environment of its
\* own, whose primitives never run, and the terminate primitives of its charm.
OfNs == {v \in Vca : Level(v) = "NS"}
NotSupported(n) ==
    \/ Deploying(n) /\ \E v \in OfNs : HelmOfNs(v) \/ OfNs # {v}
    \/ Undeploying(n) /\ OfNs \cap nsd.terminate # {}

\* An operation fails only when something failed: another system, its timeout
\* or a cancel; when its record is outdated; or when the descriptor asks for
\* what is not supported.
FailureHasCause ==
    \A n \in OpNum : ops[n].state = "FAILED" =>
        \/ faults > 0 \/ late # {} \/ creq.op = n
        \/ Outdated(n) \/ NotSupported(n)

\* The Day-1 primitives of the NS run once those of every other environment of
\* the same operation are done (_wait_dependent_n2vc).
NsPrimitivesLast ==
    ~Overlapped => \A n \in OpNum, v \in nsd.initial :
        (nsd.level[v] = "NS" /\ vt[n][v] \in {"first", "more"}) =>
            \A w \in Vca \ {v} : vt[n][w] = "done"

\* An environment whose terminate primitives are needed is not removed before
\* they ran, unless it was used by a task that a timeout left behind
\* (destroy_N2VC).
NeededRuns ==
    [][\A v \in env \ env' : vca[v].needed => late # {}]_vars

\* Every operation gets its outcome, and a cancel command ends: no task waits
\* for one that waits for it, after a failure or a cancel neither.
OperationEnds ==
    (main.pc # "idle" \/ creq.state \in {"sent", "taken"}) ~>
        (main.pc = "idle" /\ creq.state \notin {"sent", "taken"})
=============================================================================
