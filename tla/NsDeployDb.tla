----------------------------- MODULE NsDeployDb -----------------------------
(***************************************************************************)
(* What an LCM worker awaits while it instantiates and terminates ONE      *)
(* network service (NS): the tasks for the VIM (RO), for the Kubernetes    *)
(* deployment units (KDUs) and for the execution environments (VCAs) of    *)
(* its charms and helm charts, the fields of the "nsrs" and "vnfrs"        *)
(* records they communicate through, and what exists outside of OSM.       *)
(*                                                                         *)
(* NsLcm models when an operation may run at all; here the operations of   *)
(* the NS run one after the other.  A step is what asyncio runs between    *)
(* two awaits.                                                             *)
(***************************************************************************)
EXTENDS Naturals, FiniteSets

CONSTANTS
    Vcas,         \* length of _admin.deployed.VCA
    Kdu,          \* the KDUs of the NS
    Descriptors,  \* what the descriptors of the NS may ask for
    MaxOps,       \* bound on the operations of the NS
    MaxTroubled,  \* bound on them after a failure, a timeout or a cancel
    MaxFaults,    \* bound on the calls to other systems that fail or are slow
    MaxLeft,      \* bound on the tasks an operation leaves behind at its timeout
    MaxCancel     \* bound on cancel commands (0 or 1)

Vca == 1..Vcas
OpNum == 1..MaxOps

Levels == {"NS", "VNF", "VDU", "KDU"}
Types == {"lxc", "k8s", "native", "helm"}
Juju == {"lxc", "k8s", "native"}

\* level and type of each execution environment, those with initial
\* (Day-1) and with terminate primitives, and the pairs in a relation.
DescriptorType ==
    [level : [Vca -> Levels], type : [Vca -> Types], initial : SUBSET Vca,
     terminate : SUBSET Vca, peers : SUBSET (SUBSET Vca)]

ASSUME SizeAssumption == Vcas \in Nat /\ MaxOps \in Nat /\ MaxTroubled \in Nat
ASSUME DescriptorAssumption == Descriptors \subseteq DescriptorType
\* An environment of the NS always gets a primitive "config".
ASSUME ConfigAssumption ==
    \A d \in Descriptors, v \in Vca : d.level[v] = "NS" => v \in d.initial
ASSUME BudgetAssumption ==
    MaxFaults \in Nat /\ MaxLeft \in Nat /\ MaxCancel \in {0, 1}

VARIABLES
    nsd,     \* the descriptor of the NS
    nsr,     \* the states shown by the nsrs record
    vca,     \* _admin.deployed.VCA and configurationStatus of the nsrs record
    kdu,     \* _admin.deployed.K8s (nsrs) and kdur status (vnfrs) of each KDU
    vnfr,    \* the VM state written by RO, and the status ERROR written by LCM
    env,     \* external: the execution environments that exist
    release, \* external: the KDUs that are deployed
    vim,     \* external: does the VIM hold resources of the NS
    cur,     \* number of the last operation
    ops,     \* kind and outcome of each operation
    main,    \* the coroutine of the last operation
    copy,    \* the nsrs record as a termination read it when it began
    vt,      \* vt[n][v]: the task of operation n for execution environment v
    kt,      \* kt[n][k]: the task of operation n for KDU k
    rt,      \* rt[n]: the task of operation n for the VIM
    dt,      \* dt[n]: the task of operation n that deletes all environments
    creq,    \* the cancel command: the operation and how far it got
    faults,  \* failures of other systems so far
    late     \* history: the operations that left tasks behind at their timeout

recVars  == <<nsr, vca, kdu, vnfr>>
extVars  == <<env, release, vim>>
taskVars == <<vt, kt, rt, dt>>
vars == <<nsd, recVars, extVars, cur, ops, main, copy, taskVars, creq,
          faults, late>>

-----------------------------------------------------------------------------
Statuses == {"none", "CREATING", "REGISTERING", "INSTALLING SW",
             "EXECUTING PRIMITIVE", "READY", "BROKEN", "TERMINATING",
             "DELETED"}

(* Where a task awaits.  An instantiation's task for an environment: the VM  *)
(* ("boot", native charms), the creation ("create"), its software            *)
(* ("install"), its peers ("relate"), the VM or KDU ("vm"), the other        *)
(* environments ("depend"), the first primitive ("first") and the others     *)
(* ("more").  A termination's: the terminate primitives ("last") and the     *)
(* deletion ("destroy").                                                     *)
Ended == {"done", "failed", "cancelled"}
Pcs == Ended \cup {"off", "boot", "create", "install", "relate", "vm",
                   "depend", "first", "more", "last", "destroy", "work"}

\* "kdus", "certs": before all tasks exist; "prims": the terminate primitives
\* are awaited; "spaces": the helm namespace is; "wait": _wait_for_tasks.
MainPcs == {"idle", "kdus", "certs", "prims", "spaces", "wait"}

VcaType == [known : BOOLEAN, ee : BOOLEAN, sw : BOOLEAN, needed : BOOLEAN,
            status : Statuses]
KduType == [instance : BOOLEAN, status : {"none", "READY", "ERROR"}]

NsrType ==
    [admin : {"NOT_INSTANTIATED", "INSTANTIATED"},
     state : {"NOT_INSTANTIATED", "BUILDING", "READY", "BROKEN", "TERMINATING"},
     oper : {"init", "running", "failed", "terminating", "terminated"},
     config : {"init", "configured", "failed", "terminating"}]
OpType == [kind : {"none", "instantiate", "terminate"},
           state : {"none", "PROCESSING", "COMPLETED", "FAILED", "FAILED_TEMP"}]
MainType == [pc : MainPcs, exc : BOOLEAN, todo : SUBSET Kdu]
CopyType == [vca : [Vca -> VcaType], kdus : SUBSET Kdu]
VnfrType == [vm : {"none", "ACTIVE", "ERROR"}, error : BOOLEAN]
CreqType == [op : 0..MaxOps,
             state : {"none", "sent", "taken", "answered", "raised"}]

TypeOK ==
    /\ nsd \in Descriptors
    /\ nsr \in NsrType
    /\ vca \in [Vca -> VcaType]
    /\ kdu \in [Kdu -> KduType]
    /\ vnfr \in VnfrType
    /\ env \subseteq Vca /\ release \subseteq Kdu /\ vim \in BOOLEAN
    /\ cur \in 0..MaxOps
    /\ ops \in [OpNum -> OpType]
    /\ main \in MainType
    /\ copy \in CopyType
    /\ vt \in [OpNum -> [Vca -> Pcs]] /\ kt \in [OpNum -> [Kdu -> Pcs]]
    /\ rt \in [OpNum -> Pcs] /\ dt \in [OpNum -> Pcs]
    /\ creq \in CreqType
    /\ faults \in 0..MaxFaults
    /\ late \subseteq OpNum

NoVca == [v \in Vca |-> [known |-> FALSE, ee |-> FALSE, sw |-> FALSE,
                         needed |-> FALSE, status |-> "none"]]
NoCopy == [vca |-> NoVca, kdus |-> {}]
Idle == [pc |-> "idle", exc |-> FALSE, todo |-> {}]

Init ==
    /\ nsd \in Descriptors
    /\ nsr = [admin |-> "NOT_INSTANTIATED", state |-> "NOT_INSTANTIATED",
              oper |-> "init", config |-> "init"]
    /\ vca = NoVca
    /\ kdu = [k \in Kdu |-> [instance |-> FALSE, status |-> "none"]]
    /\ vnfr = [vm |-> "none", error |-> FALSE]
    /\ env = {} /\ release = {} /\ vim = FALSE
    /\ cur = 0
    /\ ops = [n \in OpNum |-> [kind |-> "none", state |-> "none"]]
    /\ main = Idle /\ copy = NoCopy
    /\ vt = [n \in OpNum |-> [v \in Vca |-> "off"]]
    /\ kt = [n \in OpNum |-> [k \in Kdu |-> "off"]]
    /\ rt = [n \in OpNum |-> "off"] /\ dt = [n \in OpNum |-> "off"]
    /\ creq = [op |-> 0, state |-> "none"]
    /\ faults = 0 /\ late = {}

-----------------------------------------------------------------------------
Pending(pc) == pc # "off" /\ pc \notin Ended
PendingVcas(n) == {v \in Vca : Pending(vt[n][v])}
PendingKdus(n) == {k \in Kdu : Pending(kt[n][k])}
AnyPending(n) ==
    \/ PendingVcas(n) # {} \/ PendingKdus(n) # {}
    \/ Pending(rt[n]) \/ Pending(dt[n])
CountPending(n) ==
    Cardinality(PendingVcas(n)) + Cardinality(PendingKdus(n))
        + (IF Pending(rt[n]) THEN 1 ELSE 0) + (IF Pending(dt[n]) THEN 1 ELSE 0)

\* A call to another system fails, or takes longer than its caller waits.
Fault == faults < MaxFaults /\ faults' = faults + 1

\* The next operation may be asked for.
Untroubled == faults = 0 /\ late = {} /\ creq.state = "none"
Another == cur < MaxOps /\ (cur < MaxTroubled \/ Untroubled)

\* Task.cancel on a task that has not ended: CancelledError at its await.
Cancelled(pc) == IF Pending(pc) THEN "cancelled" ELSE pc
=============================================================================
