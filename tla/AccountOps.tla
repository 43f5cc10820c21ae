----------------------------- MODULE AccountOps -----------------------------
(***************************************************************************)
(* The operations of ONE account (VIM, WIM or SDN controller) with the     *)
(* classic RO: NBI creates, edits and deletes the record and sends one bus *)
(* message per request; the coroutines of VimLcm, WimLcm and SdnLcm carry  *)
(* the operations out at RO.                                               *)
(*                                                                         *)
(* Bounds: NBI handles one request about the account at a time (LCM does   *)
(* its part concurrently); a request to RO that fails has no effect there. *)
(* The wait for earlier operations is not a step: waitfor_related_HA looks *)
(* for top-level fields operationState and startTime, which the records of *)
(* accounts keep one level below _admin.operations, so it never waits.     *)
(***************************************************************************)
EXTENDS Naturals, Sequences, FiniteSets

CONSTANTS
    Kinds,       \* the kinds of account: "vim", "wim", "sdn"
    Create,      \* the request that creates the account
    Edit,        \* requests that edit it
    Delete,      \* requests that delete it
    Forced,      \* those of Delete that carry the "force" flag
    Worker, NoWorker,
    RoId, NoRo,  \* ids of objects at RO
    MaxSendFail, \* bound on requests whose message NBI cannot send
    MaxCrash,    \* bound on worker crashes
    MaxRedeliver \* bound on redelivered bus messages

ASSUME AccountAssumption ==
    /\ Kinds \subseteq {"vim", "wim", "sdn"}
    /\ Create \notin Edit \cup Delete /\ Edit \cap Delete = {}
    /\ Forced \subseteq Delete
    /\ NoWorker \notin Worker /\ NoRo \notin RoId
    /\ MaxSendFail \in Nat /\ MaxCrash \in Nat /\ MaxRedeliver \in Nat

VARIABLES
    kind,       \* which of the three classes
    acct,       \* the record: [exists, ops, ro, status, content]
    req,        \* progress of each request at NBI
    copy,       \* the copy of the record that NBI's request works on
    index,      \* index[r]: the op_id in the message of r, 0 for None
    inbox,      \* requests whose message waits at the bus
    delivered,  \* requests whose message was handed to some worker
    task,       \* task[w][r]: the coroutine of r at w
    live,       \* objects that exist at RO (external)
    used,       \* ids RO has given out (external)
    sentTo,     \* sentTo[i]: the edits object i was told about (external)
    early,    \* history: did an operation go on while another one ran
    overwrote,  \* history: did an edit replace a newer record
    crashes, redeliveries   \* used up parts of the bounds

nbiVars == <<req, copy, index>>
busVars == <<inbox, delivered, redeliveries>>
roVars  == <<live, used, sentTo>>
vars == <<kind, acct, nbiVars, busVars, task, roVars, early, overwrote,
          crashes>>

Request == {Create} \cup Edit \cup Delete

-----------------------------------------------------------------------------
\* One entry of _admin.operations.
OperationRec == [state : {"PROCESSING", "COMPLETED", "FAILED"},
                 worker : Worker \cup {NoWorker}]
NewOperation == [state |-> "PROCESSING", worker |-> NoWorker]

\* ops: _admin.operations; ro: _admin.deployed.RO; status:
\* _admin.operationalState; content: the edits the record includes.
AccountRec == [exists : BOOLEAN, ops : Seq(OperationRec),
               ro : RoId \cup {NoRo},
               status : {"PROCESSING", "ENABLED", "ERROR"},
               content : SUBSET Edit]
NoAccount == [exists |-> FALSE, ops |-> <<>>, ro |-> NoRo,
              status |-> "PROCESSING", content |-> {}]

\* "start": the prologue of create; "read": that of edit and delete; "call",
\* "attach": awaiting RO; "record": RO_vim_id is to be stored; "remove": the
\* record is to be deleted; "finish", "unlock": the finally block.
TaskPcs == {"none", "scheduled", "start", "read", "call", "record", "attach",
            "remove", "finish", "unlock", "over"}
RunningPcs == TaskPcs \ {"none", "scheduled", "over"}

\* seen: the local RO_vim_id; ok: no exception so far.
NoTask == [pc |-> "none", seen |-> NoRo, ok |-> TRUE]

TypeOK ==
    /\ kind \in Kinds
    /\ acct \in AccountRec /\ copy \in AccountRec
    /\ req \in [Request -> {"new", "read", "written", "sent", "unsent",
                           "rolledback", "failed"}]
    /\ index \in [Request -> Nat]
    /\ inbox \subseteq Request /\ delivered \subseteq Request
    /\ task \in [Worker -> [Request -> [pc : TaskPcs, ok : BOOLEAN,
                                        seen : RoId \cup {NoRo}]]]
    /\ live \subseteq RoId /\ used \subseteq RoId
    /\ sentTo \in [RoId -> SUBSET Edit]
    /\ early \in BOOLEAN /\ overwrote \in BOOLEAN
    /\ crashes \in Nat /\ redeliveries \in Nat

Init ==
    /\ kind \in Kinds
    /\ acct = NoAccount /\ copy = NoAccount
    /\ req = [r \in Request |-> "new"]
    /\ index = [r \in Request |-> 0]
    /\ inbox = {} /\ delivered = {}
    /\ task = [w \in Worker |-> [r \in Request |-> NoTask]]
    /\ live = {} /\ used = {} /\ sentTo = [i \in RoId |-> {}]
    /\ early = FALSE /\ overwrote = FALSE
    /\ crashes = 0 /\ redeliveries = 0

-----------------------------------------------------------------------------
(* NBI                                                                        *)

Idle == \A r \in Request : req[r] \notin {"read", "written", "unsent"}

\* BaseTopic.new: the record is inserted with its "create" operation.
NbiCreate ==
    /\ req[Create] = "new"
    /\ acct' = [NoAccount EXCEPT !.exists = TRUE, !.ops = <<NewOperation>>]
    /\ req' = [req EXCEPT ![Create] = "written"]
    /\ index' = [index EXCEPT ![Create] = 1]
    /\ UNCHANGED <<kind, copy, busVars, task, roVars, early, overwrote,
                   crashes>>

\* BaseTopic.edit and CommonVimWimSdn.delete read the record first.
NbiRead(r) ==
    /\ Idle /\ req[r] = "new" /\ r # Create
    /\ acct.exists
    /\ copy' = acct
    /\ req' = [req EXCEPT ![r] = "read"]
    /\ UNCHANGED <<kind, acct, index, busVars, task, roVars, early,
                   overwrote, crashes>>

\* format_on_edit appends an operation to the copy, and the copy replaces the
\* record, whatever was written to that in between.
NbiEdit(r) ==
    /\ req[r] = "read" /\ r \in Edit
    /\ copy' = NoAccount
    /\ IF acct.exists
         THEN /\ acct' = [copy EXCEPT !.ops = Append(@, NewOperation),
                                      !.content = @ \cup {r}]
              /\ index' = [index EXCEPT ![r] = Len(copy.ops) + 1]
              /\ req' = [req EXCEPT ![r] = "written"]
              /\ overwrote' = (overwrote \/ copy # acct)
         ELSE /\ req' = [req EXCEPT ![r] = "failed"]
              /\ UNCHANGED <<acct, index, overwrote>>
    /\ UNCHANGED <<kind, busVars, task, roVars, early, crashes>>

\* delete pushes an operation; with "force" it removes the record itself and
\* its message has no op_id.  A record that is gone meanwhile is an error.
NbiDelete(r) ==
    /\ req[r] = "read" /\ r \in Delete
    /\ copy' = NoAccount
    /\ req' = [req EXCEPT ![r] = IF acct.exists THEN "written" ELSE "failed"]
    /\ acct' = IF ~acct.exists THEN acct
               ELSE IF r \in Forced THEN NoAccount
               ELSE [acct EXCEPT !.ops = Append(@, NewOperation)]
    /\ index' = IF acct.exists /\ r \notin Forced
                  THEN [index EXCEPT ![r] = Len(copy.ops) + 1] ELSE index
    /\ UNCHANGED <<kind, busVars, task, roVars, early, overwrote, crashes>>

\* _send_msg.
NbiSend(r) ==
    /\ req[r] = "written"
    /\ req' = [req EXCEPT ![r] = "sent"]
    /\ inbox' = inbox \cup {r}
    /\ UNCHANGED <<kind, acct, copy, index, delivered, redeliveries, task,
                   roVars, early, overwrote, crashes>>

\* MsgException after two attempts, one of which may have published.
NbiSendFails(r, published) ==
    /\ req[r] = "written"
    /\ Cardinality({q \in Request : req[q] = "rolledback"}) < MaxSendFail
    /\ req' = [req EXCEPT ![r] = "unsent"]
    /\ inbox' = IF published THEN inbox \cup {r} ELSE inbox
    /\ UNCHANGED <<kind, acct, copy, index, delivered, redeliveries, task,
                   roVars, early, overwrote, crashes>>

\* The handler of the request then rolls back.  Only new has an entry in the
\* rollback list: the operation of an edit or a delete stays in the record.
NbiRollback(r) ==
    /\ req[r] = "unsent"
    /\ req' = [req EXCEPT ![r] = "rolledback"]
    /\ acct' = IF r = Create THEN NoAccount ELSE acct
    /\ UNCHANGED <<kind, copy, index, busVars, task, roVars, early, overwrote,
                   crashes>>

-----------------------------------------------------------------------------
(* LCM.  A step is at most one database call or one answer of RO.  Coroutines *)
(* of one worker interleave at every step, as those of two workers do; they   *)
(* really do so only where they await.                                        *)

Pc(w, r) == task[w][r].pc
Running(w, r) == Pc(w, r) \in RunningPcs
Goto(w, r, pc) == task' = [task EXCEPT ![w][r].pc = pc]
Fails(w, r, pc) == task' = [task EXCEPT ![w][r].pc = pc, ![w][r].ok = FALSE]
Over(w, r) == task' = [task EXCEPT ![w][r] = [NoTask EXCEPT !.pc = "over"]]

\* kafka_read_callback; for a VIM it reads the record first, and the exception
\* about a missing one makes the message have no effect.
Deliver(w, r) ==
    /\ r \in inbox
    /\ Pc(w, r) \in {"none", "over"}
    /\ inbox' = inbox \ {r}
    /\ delivered' = delivered \cup {r}
    /\ IF kind = "vim" /\ ~acct.exists
         THEN UNCHANGED task
         ELSE task' = [task EXCEPT ![w][r] = [NoTask EXCEPT !.pc = "scheduled"]]
    /\ UNCHANGED <<kind, acct, nbiVars, redeliveries, roVars, early,
                   overwrote, crashes>>

\* The bus hands out a message again.
Redeliver(r) ==
    /\ redeliveries < MaxRedeliver
    /\ r \in delivered \ inbox
    /\ inbox' = inbox \cup {r}
    /\ redeliveries' = redeliveries + 1
    /\ UNCHANGED <<kind, acct, nbiVars, delivered, task, roVars, early,
                   overwrote, crashes>>

SomebodyRuns == \E w \in Worker, r \in Request : Running(w, r)

\* Mutant of LockFree: the filter only names the account.
LockAnyway(r) == acct.exists /\ index[r] \in DOMAIN acct.ops

\* lock_HA takes _admin.operations.<n>.worker when it is None.
LockFree(r) == /\ acct.exists
               /\ index[r] \in DOMAIN acct.ops
               /\ acct.ops[index[r]].worker = NoWorker

\* Without op_id there is no lock; create of WIM and SDN ignores its result.
GoesOn(r) == index[r] = 0 \/ LockFree(r) \/ (r = Create /\ kind # "vim")

\* An earlier operation of the account is still in state PROCESSING.
EarlierOpen(r) == \E i \in DOMAIN acct.ops :
                     i < index[r] /\ acct.ops[i].state = "PROCESSING"

Lock(w, r) ==
    /\ Pc(w, r) = "scheduled"
    /\ IF GoesOn(r)
         THEN /\ Goto(w, r, IF r = Create THEN "start" ELSE "read")
              /\ early' = (early \/ SomebodyRuns \/ EarlierOpen(r))
         ELSE Over(w, r) /\ UNCHANGED early
    /\ acct' = IF LockFree(r) THEN [acct EXCEPT !.ops[index[r]].worker = w]
                              ELSE acct
    /\ UNCHANGED <<kind, nbiVars, busVars, roVars, overwrote, crashes>>

\* create clears _admin.deployed.RO.  Without the record its finally block
\* raises, because operation_state is not bound.
Start(w, r) ==
    /\ Pc(w, r) = "start"
    /\ IF acct.exists
         THEN Goto(w, r, "call") /\ acct' = [acct EXCEPT !.ro = NoRo]
         ELSE Over(w, r) /\ UNCHANGED acct
    /\ UNCHANGED <<kind, nbiVars, busVars, roVars, early, overwrote, crashes>>

\* edit and delete read _admin.deployed.RO once, before they await.
Read(w, r) ==
    /\ Pc(w, r) = "read"
    /\ IF ~acct.exists THEN Over(w, r)
       ELSE task' = [task EXCEPT
                ![w][r].seen = acct.ro,
                ![w][r].pc = IF acct.ro # NoRo THEN "call"
                             ELSE IF r \in Edit THEN "unlock" ELSE "remove"]
    /\ UNCHANGED <<kind, acct, nbiVars, busVars, roVars, early, overwrote,
                   crashes>>

\* RO.create answers with the id of a new object.  SDN has nothing to attach.
CallCreate(w, r, id) ==
    /\ Pc(w, r) = "call" /\ r = Create
    /\ id \notin used
    /\ live' = live \cup {id} /\ used' = used \cup {id}
    /\ task' = [task EXCEPT ![w][r].seen = id,
                            ![w][r].pc = IF kind = "sdn" THEN "finish"
                                                         ELSE "record"]
    /\ UNCHANGED <<kind, acct, nbiVars, busVars, sentTo, early, overwrote,
                   crashes>>

\* VIM and WIM store the id before they go on.
Record(w, r) ==
    /\ Pc(w, r) = "record"
    /\ IF acct.exists
         THEN /\ acct' = [acct EXCEPT !.ro = task[w][r].seen]
              /\ Goto(w, r, "attach")
         ELSE Over(w, r) /\ UNCHANGED acct
    /\ UNCHANGED <<kind, nbiVars, busVars, roVars, early, overwrote, crashes>>

\* RO.attach of the account to the VIM or WIM.
Attach(w, r) ==
    /\ Pc(w, r) = "attach"
    /\ Goto(w, r, "finish")
    /\ UNCHANGED <<kind, acct, nbiVars, busVars, roVars, early, overwrote,
                   crashes>>

\* RO.edit with what the message holds.
CallEdit(w, r) ==
    /\ Pc(w, r) = "call" /\ r \in Edit
    /\ task[w][r].seen \in live
    /\ sentTo' = [sentTo EXCEPT ![task[w][r].seen] = @ \cup {r}]
    /\ Goto(w, r, "finish")
    /\ UNCHANGED <<kind, acct, nbiVars, busVars, live, used, early, overwrote,
                   crashes>>

\* RO.detach and RO.delete; "not found" is as good.
CallDelete(w, r) ==
    /\ Pc(w, r) = "call" /\ r \in Delete
    /\ live' = live \ {task[w][r].seen}
    /\ Goto(w, r, "remove")
    /\ UNCHANGED <<kind, acct, nbiVars, busVars, used, sentTo, early,
                   overwrote, crashes>>

\* Mutant of CallFails: delete goes on to remove the record.
CallFailsRemoves(w, r) ==
    /\ Pc(w, r) \in {"call", "attach"}
    /\ Fails(w, r, IF r \in Delete THEN "remove" ELSE "finish")
    /\ UNCHANGED <<kind, acct, nbiVars, busVars, roVars, early, overwrote,
                   crashes>>

\* RO refuses or does not answer.  delete unlocks before it writes "ERROR".
CallFails(w, r) ==
    /\ Pc(w, r) \in {"call", "attach"}
    /\ Fails(w, r, IF r \in Delete THEN "unlock" ELSE "finish")
    /\ UNCHANGED <<kind, acct, nbiVars, busVars, roVars, early, overwrote,
                   crashes>>

\* db.del_one.
Remove(w, r) ==
    /\ Pc(w, r) = "remove"
    /\ acct' = NoAccount
    /\ Over(w, r)
    /\ UNCHANGED <<kind, nbiVars, busVars, roVars, early, overwrote, crashes>>

\* Mutants of FinalStatus: the state of the operation; every kind as SDN.
FinalOperationState(w, r) == IF task[w][r].ok THEN "COMPLETED" ELSE "FAILED"
FinalStatusOfSdn(w, r) ==
    IF task[w][r].ok THEN "ENABLED"
    ELSE IF r # Create THEN acct.status ELSE "ERROR"

\* The update of _admin.operationalState.  An edit that had nothing to do at
\* RO does not come here; edit and delete of SDN put the error into the copy
\* of the record instead of the update.
FinalStatus(w, r) ==
    IF task[w][r].ok THEN "ENABLED"
    ELSE IF kind = "sdn" /\ r # Create THEN acct.status ELSE "ERROR"

\* update_db_2.  It raises when the record is gone, and unlock_HA is skipped.
Finish(w, r) ==
    /\ Pc(w, r) = "finish"
    /\ acct' = IF ~acct.exists THEN acct
               ELSE [acct EXCEPT
                       !.status = FinalStatus(w, r),
                       !.ro = IF kind = "sdn" /\ r = Create /\ task[w][r].ok
                                THEN task[w][r].seen ELSE @]
    /\ IF acct.exists /\ r \notin Delete THEN Goto(w, r, "unlock")
                                         ELSE Over(w, r)
    /\ UNCHANGED <<kind, nbiVars, busVars, roVars, early, overwrote, crashes>>

\* Mutants of Outcome: any end counts as a success; only a success is written.
OutcomeAlwaysGood(w, r) == "COMPLETED"
OutcomeIfGood(w, r) == IF task[w][r].ok THEN "COMPLETED" ELSE "PROCESSING"

\* The operationState an operation ends with.
Outcome(w, r) == IF task[w][r].ok THEN "COMPLETED" ELSE "FAILED"

\* unlock_HA: outcome and worker None, for an operation that has an op_id.
Unlock(w, r) ==
    /\ Pc(w, r) = "unlock"
    /\ acct' = IF acct.exists /\ index[r] \in DOMAIN acct.ops
                 THEN [acct EXCEPT !.ops[index[r]] =
                         [state |-> Outcome(w, r), worker |-> NoWorker]]
                 ELSE acct
    /\ IF r \in Delete THEN Goto(w, r, "finish") ELSE Over(w, r)
    /\ UNCHANGED <<kind, nbiVars, busVars, roVars, early, overwrote, crashes>>

\* The process ends and is started again: its coroutines are gone.
Crash(w) ==
    /\ crashes < MaxCrash
    /\ crashes' = crashes + 1
    /\ task' = [task EXCEPT ![w] = [r \in Request |-> NoTask]]
    /\ UNCHANGED <<kind, acct, nbiVars, busVars, roVars, early, overwrote>>

TaskStep(w, r) ==
    \/ Lock(w, r) \/ Start(w, r) \/ Read(w, r)
    \/ \E id \in RoId : CallCreate(w, r, id)
    \/ Record(w, r) \/ Attach(w, r) \/ CallEdit(w, r) \/ CallDelete(w, r)
    \/ CallFails(w, r) \/ Remove(w, r) \/ Finish(w, r) \/ Unlock(w, r)

Next ==
    \/ NbiCreate
    \/ \E r \in Request :
          \/ NbiRead(r) \/ NbiEdit(r) \/ NbiDelete(r) \/ NbiSend(r)
          \/ \E published \in BOOLEAN : NbiSendFails(r, published)
          \/ NbiRollback(r) \/ Redeliver(r)
    \/ \E w \in Worker :
          \/ Crash(w)
          \/ \E r \in Request : Deliver(w, r) \/ TaskStep(w, r)

Spec == Init /\ [][Next]_vars

\* The event loop of a worker that stays up goes on with every coroutine, RO or
\* the timeout of its client answers every call, and the bus hands every
\* message to some worker.
FairSpec ==
    /\ Spec
    /\ \A r \in Request : WF_vars(\E w \in Worker : Deliver(w, r))
    /\ \A w \in Worker, r \in Request : WF_vars(TaskStep(w, r))

-----------------------------------------------------------------------------
(* Properties                                                               *)

AllQuiet == /\ ~SomebodyRuns /\ inbox = {} /\ Idle
            /\ \A w \in Worker, r \in Request : Pc(w, r) # "scheduled"

\* Every operation began after the end of the earlier ones, no message came
\* twice, no worker was lost and no edit replaced what LCM had written.
Orderly == ~early /\ ~overwrote /\ crashes = 0 /\ redeliveries = 0

\* An operation is carried out by the worker whose name lock_HA left in its
\* entry, and so by one worker at a time: creation of WIM and SDN, which do not
\* look at the result of lock_HA, and forced removal, which has no entry, are
\* exempt, and so is a delete that has unlocked.
OneAtATime ==
    \A w \in Worker, r \in Request :
        /\ Running(w, r) /\ index[r] # 0 /\ acct.exists /\ ~overwrote
        /\ r = Create => kind = "vim"
        /\ r \in Delete => Pc(w, r) # "finish"
        => acct.ops[index[r]].worker = w

\* RO holds no object that the record does not name, once all is quiet, unless
\* the record was removed by force or by the rollback of its creation.
NoRoOrphan ==
    /\ AllQuiet /\ Orderly
    /\ req[Create] # "rolledback"
    /\ \A r \in Forced : req[r] = "new"
    => live \subseteq {acct.ro}

\* An account whose operations all are COMPLETED exists at RO, and RO was told
\* of every edit that the record includes.
CompletedIsApplied ==
    /\ AllQuiet /\ Orderly /\ acct.exists
    /\ \A i \in DOMAIN acct.ops : acct.ops[i].state = "COMPLETED"
    => acct.ro \in live /\ sentTo[acct.ro] = acct.content

\* The operationalState of a VIM or WIM shows that its last operation failed.
FailureIsShown ==
    /\ AllQuiet /\ Orderly /\ acct.exists /\ kind # "sdn"
    /\ acct.ops[Len(acct.ops)].state = "FAILED"
    => acct.status = "ERROR"

\* The coroutine of r went down with its worker.
LostInCrash(r) == /\ crashes > 0 /\ r \in delivered \ inbox
                  /\ \A w \in Worker : Pc(w, r) \in {"none", "over"}

Ended(r) == index[r] \in DOMAIN acct.ops
              /\ acct.ops[index[r]].state # "PROCESSING"

\* An operation NBI has sent gets its outcome, whatever RO answers, unless the
\* record goes, an edit replaces it or the worker is lost.
AccountOpEnds ==
    \A r \in Request :
        req[r] = "sent"
            ~> (Ended(r) \/ ~acct.exists \/ overwrote \/ LostInCrash(r))
=============================================================================
