------------------------------ MODULE NsLcmDb ------------------------------
(***************************************************************************)
(* The state shared by the northbound interface (NBI) and the LCM workers  *)
(* for the lifecycle operations of ONE network service: its "nsrs" record, *)
(* its "nslcmops" documents, the "ns" and "nslcmops" bus topics, the VIM   *)
(* resources, and the coroutines of every LCM worker.  Operations of other *)
(* network services are filtered out by nsInstanceId in every query of the *)
(* code, so one service is enough.                                         *)
(*                                                                         *)
(* A document is changed by one database call at a time; every action of   *)
(* NbiNsOps and LcmNsTasks is at most one such call that matters.          *)
(***************************************************************************)
EXTENDS Naturals, FiniteSets

CONSTANTS
    Op,          \* ids of the operation occurrences (nslcmops _id)
    Worker,      \* LCM processes of the "LCM" consumer group
    NoOp,        \* no operation (None in currentOperationID)
    NoWorker,    \* no worker (None in _admin.worker)
    Kinds,       \* the operation kinds NBI may be asked for
    ForceFlags,  \* values of the "force" flag of a request
    MaxSendFail, \* bound on operations whose message NBI cannot send
    MaxCancel,   \* bound on cancel requests
    MayDelete,   \* BOOLEAN: is the removal of the NS requested
    MaxCrash,    \* bound on worker crashes
    MaxRedeliver,\* bound on redelivered bus messages
    MaxPause     \* bound on the operations that stay two hours unmodified

ASSUME NoneAssumption == NoOp \notin Op /\ NoWorker \notin Worker
ASSUME KindAssumption ==
    Kinds \subseteq {"instantiate", "terminate", "action", "update",
                     "heal", "scale", "migrate"}
ASSUME ChoiceAssumption ==
    ForceFlags \subseteq BOOLEAN /\ MayDelete \in BOOLEAN
ASSUME BoundAssumption ==
    /\ MaxSendFail \in Nat /\ MaxCancel \in Nat /\ MaxCrash \in Nat
    /\ MaxRedeliver \in Nat /\ MaxPause \in Nat

VARIABLES
    nsr,        \* the nsrs record
    op,         \* the nslcmops documents
    vim,        \* does the NS hold resources at the VIM (external)
    nbi,        \* progress of the NBI request that creates each operation
    clock,      \* NBI's wall clock, as read by _create_nslcmop
    del,        \* progress of the NBI request that deletes the NS
    cancel,     \* progress of the cancel request of each operation
    inbox,      \* operations whose "ns" message waits at the bus
    delivered,  \* operations whose message was handed to some worker
    up,         \* the running workers
    task,       \* task[w][o]: the coroutine of o at worker w
    handling,   \* handling[w]: the operation whose cancel w is awaiting
    ignored,    \* ignored[o]: operations o's wait filters out as inactive
    excused,    \* history: what o's wait did not see when it ended
    overlap,    \* history: did an operation start while another one ran
    raced,      \* history: did an operation run between the check that allowed
                \* the removal of the NS and the removal, or was it forced
    crashes, redeliveries, pauses   \* used up parts of the bounds

dbVars   == <<nsr, op, vim>>
nbiVars  == <<nbi, clock, del>>
busVars  == <<inbox, delivered, redeliveries>>
lcmVars  == <<up, task, handling, ignored, crashes>>
histVars == <<excused, overlap, raced>>
vars == <<dbVars, nbiVars, cancel, busVars, lcmVars, histVars, pauses>>

-----------------------------------------------------------------------------
AllKinds == {"instantiate", "terminate", "action", "update", "heal", "scale",
             "migrate"}
NsStates == {"NOT_INSTANTIATED", "BUILDING", "READY", "BROKEN", "TERMINATING"}
AdminStates == {"NOT_INSTANTIATED", "INSTANTIATED"}

\* "ABSENT": not yet inserted; "DELETED": removed with the NS.  No code reads
\* the other fields of a document in these two states.
OpStates == {"ABSENT", "PROCESSING", "COMPLETED", "FAILED", "FAILED_TEMP",
             "DELETED"}

(* The stages of a coroutine.  "scheduled": ensure_future was called;        *)
(* "locked": lock_HA succeeded; "waiting": asleep in waitfor_related_HA;     *)
(* "begin", "mark": the synchronous prologue; "run": awaiting the VIM, the   *)
(* VCA or K8s; "worked": the pending tasks are awaited; "finNs", "drain",    *)
(* "finOp", "finNs2": the finally block; "notify": awaiting the bus write;   *)
(* "done": returned; "died": ended by an exception raised inside the finally *)
(* block.                                                                    *)
Pcs == {"none", "scheduled", "locked", "waiting", "begin", "mark", "run",
        "worked", "finNs", "drain", "finOp", "finNs2", "notify", "done",
        "died"}

\* A worker is one thread: no other coroutine of it runs between two stages
\* of these, which are not separated by an await.
SyncPcs == {"locked", "begin", "mark", "finNs", "finOp", "finNs2"}

FinalPcs == {"finNs", "drain", "finOp", "finNs2"}

\* The coroutine passed lock_HA and has not ended.
LivePcs == Pcs \ {"none", "scheduled", "done", "died"}

\* exc: the local "exc"/"error_list"; begun: is db_nsr bound, i.e. the prologue
\* was completed (migrate binds no db_nsr and has no use for it);
\* old: db_nsr["nsState"]
TaskRec == [pc : Pcs, exc : BOOLEAN, begun : BOOLEAN, old : NsStates]
NoTask == [pc |-> "none", exc |-> FALSE, begun |-> FALSE,
           old |-> "NOT_INSTANTIATED"]

\* admin: _admin.nsState; state: nsState; cur: currentOperationID
NsrRec == [exists : BOOLEAN, admin : AdminStates, state : NsStates,
           cur : Op \cup {NoOp}]

\* state: operationState; kind: lcmOperationType; worker: _admin.worker;
\* start: startTime; stale: _admin.modified is two hours old
OpRec == [state : OpStates, kind : AllKinds, worker : Worker \cup {NoWorker},
          start : Nat, stale : BOOLEAN]

TypeOK ==
    /\ nsr \in NsrRec
    /\ op \in [Op -> OpRec]
    /\ vim \in BOOLEAN
    /\ nbi \in [Op -> {"idle", "checked", "stamped", "stored", "sent",
                       "unsent", "refused"}]
    /\ clock \in Nat
    /\ del \in {"idle", "checked", "removed", "done"}
    /\ cancel \in [Op -> {"none", "checked", "sent", "taken", "done",
                          "refused", "failed"}]
    /\ inbox \subseteq Op /\ delivered \subseteq Op
    /\ up \subseteq Worker
    /\ task \in [Worker -> [Op -> TaskRec]]
    /\ handling \in [Worker -> Op \cup {NoOp}]
    /\ ignored \in [Op -> SUBSET Op] /\ excused \in [Op -> SUBSET Op]
    /\ overlap \in BOOLEAN /\ raced \in BOOLEAN
    /\ crashes \in Nat /\ redeliveries \in Nat /\ pauses \in Nat

\* A network service just created, or one instantiated by earlier operations.
NewNsr == [exists |-> TRUE, admin |-> "NOT_INSTANTIATED",
           state |-> "NOT_INSTANTIATED", cur |-> NoOp]
ReadyNsr == [NewNsr EXCEPT !.admin = "INSTANTIATED", !.state = "READY"]

Init ==
    /\ nsr \in {NewNsr, ReadyNsr}
    /\ op = [o \in Op |-> [state |-> "ABSENT", kind |-> "instantiate",
                           worker |-> NoWorker, start |-> 0, stale |-> FALSE]]
    /\ vim = (nsr = ReadyNsr)
    /\ nbi = [o \in Op |-> "idle"] /\ clock = 0 /\ del = "idle"
    /\ cancel = [o \in Op |-> "none"]
    /\ inbox = {} /\ delivered = {}
    /\ up = Worker
    /\ task = [w \in Worker |-> [o \in Op |-> NoTask]]
    /\ handling = [w \in Worker |-> NoOp]
    /\ ignored = [o \in Op |-> {}] /\ excused = [o \in Op |-> {}]
    /\ overlap = FALSE /\ raced = FALSE
    /\ crashes = 0 /\ redeliveries = 0 /\ pauses = 0

-----------------------------------------------------------------------------
\* db.get_one("nslcmops", {"_id": o}) finds the document.
Stored(o) == op[o].state \notin {"ABSENT", "DELETED"}

InProgress(o) == op[o].state = "PROCESSING"

\* The operation has passed its wait and has not yet written its outcome.  A
\* coroutine that failed before it began only records that failure.
ActiveAt(w, o) ==
    \/ task[w][o].pc \in {"begin", "mark", "run", "worked"}
    \/ task[w][o].pc \in FinalPcs /\ task[w][o].begun
Active(o) == \E w \in Worker : ActiveAt(w, o)
NobodyActive == \A o \in Op : ~Active(o)

\* update_db_2 on an nslcmops document also sets _admin.modified, so the
\* operation is no longer inactive for anybody who waits.
Touched(o, rec) == [op EXCEPT ![o] = [rec EXCEPT !.stale = FALSE]]
SeenAgain(o) == [p \in Op |-> ignored[p] \ {o}]

\* _write_ns_status: the DbException of a missing record is swallowed.
WriteNsStatus(state, cur) ==
    nsr' = IF nsr.exists THEN [nsr EXCEPT !.state = state, !.cur = cur]
                         ELSE nsr

\* _write_op_status with an operation_state, same treatment of exceptions.
WriteOpState(o, state) ==
    /\ op' = IF Stored(o) THEN Touched(o, [op[o] EXCEPT !.state = state])
                          ELSE op
    /\ ignored' = IF Stored(o) THEN SeenAgain(o) ELSE ignored

\* _write_op_status without an operation_state: only _admin.modified matters.
WriteOpStage(o) ==
    /\ op' = IF Stored(o) THEN Touched(o, op[o]) ELSE op
    /\ ignored' = IF Stored(o) THEN SeenAgain(o) ELSE ignored
=============================================================================
