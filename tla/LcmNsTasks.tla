----------------------------- MODULE LcmNsTasks -----------------------------
(***************************************************************************)
(* What the LCM workers do about the operations of a network service: the  *)
(* bus callback, TaskRegistry.lock_HA and waitfor_related_HA, the          *)
(* coroutines of NsLcm (instantiate, terminate, action, update, heal,      *)
(* scale, migrate), the cancel command, and the crash of a worker.         *)
(***************************************************************************)
EXTENDS NsLcmDb

\* No coroutine of w is inside a stretch of code without an await.
CpuFree(w) == w \in up /\ \A o \in Op : task[w][o].pc \notin SyncPcs

\* kafka_read_callback runs for one message at a time and awaits the cancelled
\* task, so a worker that awaits takes no other message.
Listening(w) == CpuFree(w) /\ handling[w] = NoOp

Goto(w, o, pc) == task' = [task EXCEPT ![w][o].pc = pc]
Set(w, o, rec) == task' = [task EXCEPT ![w][o] = rec]

-----------------------------------------------------------------------------
\* kafka_read_callback, topic "ns": ensure_future and TaskRegistry.register.
Deliver(w, o) ==
    /\ Listening(w)
    /\ o \in inbox
    /\ task[w][o].pc \in {"none", "done", "died"}
    /\ inbox' = inbox \ {o}
    /\ delivered' = delivered \cup {o}
    /\ Set(w, o, [NoTask EXCEPT !.pc = "scheduled"])
    /\ UNCHANGED <<dbVars, nbiVars, cancel, redeliveries, up, handling,
                   ignored, crashes, histVars, pauses>>

\* The bus hands a message out again: its offset was not committed when the
\* worker crashed or the consumer group was rebalanced.
Redeliver(o) ==
    /\ redeliveries < MaxRedeliver
    /\ o \in delivered \ inbox
    /\ inbox' = inbox \cup {o}
    /\ redeliveries' = redeliveries + 1
    /\ UNCHANGED <<dbVars, nbiVars, cancel, delivered, lcmVars, histVars,
                   pauses>>

\* Mutant of Lock: the filter of the update does not ask for a free lock.
LockAnyway(w, o) ==
    /\ CpuFree(w)
    /\ task[w][o].pc = "scheduled"
    /\ IF Stored(o)
         THEN /\ op' = [op EXCEPT ![o].worker = w]
              /\ ignored' = [ignored EXCEPT ![o] = {p \in Op : op[p].stale}]
              /\ Goto(w, o, "locked")
         ELSE /\ Goto(w, o, "done")
              /\ UNCHANGED <<op, ignored>>
    /\ UNCHANGED <<nsr, vim, nbiVars, cancel, busVars, up, handling, crashes,
                   histVars, pauses>>

\* lock_HA: one update_one whose filter demands _admin.worker None.  A task
\* that loses returns at once.  The winner enters waitfor_related_HA, which
\* computes "now - 2*3600" once, before its loop.
Lock(w, o) ==
    /\ CpuFree(w)
    /\ task[w][o].pc = "scheduled"
    /\ IF Stored(o) /\ op[o].worker = NoWorker
         THEN /\ op' = [op EXCEPT ![o].worker = w]
              /\ ignored' = [ignored EXCEPT ![o] = {p \in Op : op[p].stale}]
              /\ Goto(w, o, "locked")
         ELSE /\ Goto(w, o, "done")
              /\ UNCHANGED <<op, ignored>>
    /\ UNCHANGED <<nsr, vim, nbiVars, cancel, busVars, up, handling, crashes,
                   histVars, pauses>>

\* Mutant of Blockers: only operations some worker has taken are waited for.
BlockersTaken(o) == {p \in Op : /\ InProgress(p)
                                /\ op[p].worker # NoWorker
                                /\ op[p].start < op[o].start
                                /\ p \notin ignored[o]}

\* The query of waitfor_related_HA (see _get_waitfor_filter_HA).
Blockers(o) == {p \in Op : /\ InProgress(p)
                           /\ op[p].start < op[o].start
                           /\ p \notin ignored[o]}

\* What the wait of o cannot see: documents not there (yet), operations left
\* out for two hours of inactivity, and everything when its own document is
\* gone (then its prologue fails).
Unseen(o) == IF Stored(o) THEN {p \in Op : ~Stored(p)} \cup ignored[o] ELSE Op

\* A poll that finds something: asyncio.sleep(10).
PollBlocked(w, o) ==
    /\ w \in up
    /\ task[w][o].pc = "locked"
    /\ Stored(o) /\ Blockers(o) # {}
    /\ Goto(w, o, "waiting")
    /\ UNCHANGED <<dbVars, nbiVars, cancel, busVars, up, handling, ignored,
                   crashes, histVars, pauses>>

\* A poll that finds nothing, or no document of its own: the wait is over.
PollClear(w, o) ==
    /\ w \in up
    /\ \/ task[w][o].pc = "locked" /\ (Stored(o) => Blockers(o) = {})
       \/ task[w][o].pc = "waiting" /\ CpuFree(w) /\ Blockers(o) = {}
    /\ Goto(w, o, "begin")
    /\ excused' = [excused EXCEPT ![o] = Unseen(o)]
    /\ overlap' = (overlap \/ \E p \in Op \ {o} : Active(p))
    /\ raced' = (raced \/ del = "checked")
    /\ ignored' = [ignored EXCEPT ![o] = {}]
    /\ UNCHANGED <<dbVars, nbiVars, cancel, busVars, up, handling, crashes,
                   pauses>>

-----------------------------------------------------------------------------
\* Where an exception that leaves the wait leads.  The finally blocks of
\* update and heal use old_operational_status and db_vnfrs_list, which are not
\* bound yet: they raise in turn.  scale and migrate write the nsr first
\* whatever happened, the other kinds only when db_nsr is bound.
AfterEarlyExc(o) ==
    CASE op[o].kind \in {"update", "heal"} -> "died"
      [] op[o].kind \in {"scale", "migrate"} -> "finNs"
      [] OTHER -> "finOp"

FailEarly(w, o) == Set(w, o, [task[w][o] EXCEPT !.pc = AfterEarlyExc(o),
                                                !.exc = TRUE])

\* Mutant of WaitTimeout: the loop polls without an end.
NoWaitTimeout(w, o) == FALSE

\* Mutant of WaitTimeout: the operation goes on when the time is over.
WaitTimeoutGoesOn(w, o) ==
    /\ CpuFree(w)
    /\ task[w][o].pc = "waiting"
    /\ Blockers(o) # {}
    /\ Goto(w, o, "begin")
    /\ UNCHANGED <<dbVars, nbiVars, cancel, busVars, up, handling, ignored,
                   crashes, histVars, pauses>>

\* 3600 s of polling: LcmException.
WaitTimeout(w, o) ==
    /\ CpuFree(w)
    /\ task[w][o].pc = "waiting"
    /\ Blockers(o) # {}
    /\ FailEarly(w, o)
    /\ UNCHANGED <<dbVars, nbiVars, cancel, busVars, up, handling, ignored,
                   crashes, histVars, pauses>>

-----------------------------------------------------------------------------
(* The prologue: _write_ns_status, the reads of the operation and of the nsr. *)
(* A missing document raises DbException.                                     *)

ReadsFail(o) == ~Stored(o) \/ ~nsr.exists

BeginInstantiate(w, o) ==
    /\ w \in up /\ task[w][o].pc = "begin" /\ op[o].kind = "instantiate"
    /\ WriteNsStatus("BUILDING", o)
    /\ WriteOpStage(o)
    /\ IF ReadsFail(o)
         THEN FailEarly(w, o)
         ELSE Set(w, o, [task[w][o] EXCEPT !.pc = "mark", !.begun = TRUE])
    /\ UNCHANGED <<vim, nbiVars, cancel, busVars, up, handling, crashes,
                   histVars, pauses>>

\* update_db_2("nsrs", ...) with _admin.nsState INSTANTIATED: not swallowed.
MarkInstantiated(w, o) ==
    /\ w \in up /\ task[w][o].pc = "mark"
    /\ IF nsr.exists
         THEN nsr' = [nsr EXCEPT !.admin = "INSTANTIATED"] /\ Goto(w, o, "run")
         ELSE /\ Set(w, o, [task[w][o] EXCEPT !.pc = "finNs", !.exc = TRUE])
              /\ UNCHANGED nsr
    /\ UNCHANGED <<op, vim, nbiVars, cancel, busVars, up, handling, ignored,
                   crashes, histVars, pauses>>

\* terminate reads before it writes, and returns early (its finally block
\* still records a success) when there is nothing to terminate.
BeginTerminate(w, o) ==
    /\ w \in up /\ task[w][o].pc = "begin" /\ op[o].kind = "terminate"
    /\ IF ReadsFail(o)
         THEN FailEarly(w, o) /\ UNCHANGED <<nsr, op, ignored>>
         ELSE /\ WriteNsStatus("TERMINATING", o)
              /\ WriteOpStage(o)
              /\ Set(w, o, [task[w][o] EXCEPT
                     !.begun = TRUE,
                     !.pc = IF nsr.admin = "NOT_INSTANTIATED" THEN "finNs"
                                                              ELSE "run"])
    /\ UNCHANGED <<vim, nbiVars, cancel, busVars, up, handling, crashes,
                   histVars, pauses>>

\* Mutant of BeginOther: the nsr is not told about the operation.
BeginSilently(w, o) ==
    /\ w \in up /\ task[w][o].pc = "begin"
    /\ op[o].kind \notin {"instantiate", "terminate"}
    /\ IF ReadsFail(o)
         THEN FailEarly(w, o)
         ELSE Set(w, o, [task[w][o] EXCEPT !.pc = "run",
                                           !.begun = TRUE,
                                           !.old = nsr.state])
    /\ UNCHANGED <<nsr, op, vim, nbiVars, cancel, busVars, up, handling,
                   ignored, crashes, histVars, pauses>>

\* action, update, heal, scale, migrate: nsState is kept, currentOperation and
\* currentOperationID are set before the reads; migrate does not read the nsr.
BeginOther(w, o) ==
    /\ w \in up /\ task[w][o].pc = "begin"
    /\ op[o].kind \notin {"instantiate", "terminate"}
    /\ WriteNsStatus(nsr.state, o)
    /\ IF IF op[o].kind = "migrate" THEN ~Stored(o) ELSE ReadsFail(o)
         THEN FailEarly(w, o)
         ELSE Set(w, o, [task[w][o] EXCEPT !.pc = "run",
                                           !.begun = TRUE,
                                           !.old = nsr.state])
    /\ UNCHANGED <<op, vim, nbiVars, cancel, busVars, up, handling, ignored,
                   crashes, histVars, pauses>>

-----------------------------------------------------------------------------
(* The work at the VIM, the VCA and K8s, and its end.                         *)

\* The awaited services did their part.  "written": a stage change was stored.
Work(w, o, written) ==
    /\ CpuFree(w) /\ task[w][o].pc = "run"
    /\ vim' = CASE op[o].kind = "instantiate" -> TRUE
                [] op[o].kind = "terminate" -> FALSE
                [] OTHER -> vim
    /\ IF written THEN WriteOpStage(o) ELSE UNCHANGED <<op, ignored>>
    /\ Goto(w, o, "worked")
    /\ UNCHANGED <<nsr, nbiVars, cancel, busVars, up, handling, crashes,
                   histVars, pauses>>

\* The first statement of the finally block that writes: heal updates the
\* operation before the nsr, all the others the nsr first.
FinallyPc(o) == IF op[o].kind = "heal" THEN "finOp" ELSE "finNs"

\* The pending tasks were awaited, after a failure too.
WorkDone(w, o) ==
    /\ CpuFree(w) /\ task[w][o].pc = "worked"
    /\ Goto(w, o, FinallyPc(o))
    /\ UNCHANGED <<dbVars, nbiVars, cancel, busVars, up, handling, ignored,
                   crashes, histVars, pauses>>

\* An exception, a timeout or a cancellation while awaiting.  heal binds
\* db_vnfrs_list only after heal_RO returned.
FailRun(w, o) ==
    Set(w, o, [task[w][o] EXCEPT
           !.exc = TRUE,
           !.pc = IF op[o].kind = "heal" /\ task[w][o].pc = "run"
                    THEN "died" ELSE "worked"])

WorkFails(w, o) ==
    /\ CpuFree(w) /\ task[w][o].pc \in {"run", "worked"}
    /\ FailRun(w, o)
    /\ UNCHANGED <<dbVars, nbiVars, cancel, busVars, up, handling, ignored,
                   crashes, histVars, pauses>>

-----------------------------------------------------------------------------
(* The finally blocks.                                                        *)

\* Mutant of FinalNsState: the state of the operation instead of the NS's.
FinalOpState(w, o) == IF task[w][o].exc THEN "FAILED" ELSE "COMPLETED"

FinalNsState(w, o) ==
    CASE /\ op[o].kind \in {"instantiate", "terminate"}
         /\ task[w][o].exc -> "BROKEN"
      [] op[o].kind = "instantiate" /\ ~task[w][o].exc -> "READY"
      [] op[o].kind = "terminate" /\ ~task[w][o].exc -> "NOT_INSTANTIATED"
      [] op[o].kind \in {"action", "update"} -> task[w][o].old
      [] OTHER -> nsr.state

\* Mutants of FinishNs.  The first forgets _admin.nsState, the second resets it
\* after a failed terminate too, the third writes only after a success.
FinishNsWith(w, o, write, admin) ==
    /\ w \in up /\ task[w][o].pc = "finNs"
    /\ nsr' = IF ~nsr.exists \/ ~write THEN nsr
              ELSE [nsr EXCEPT !.state = FinalNsState(w, o), !.cur = NoOp,
                               !.admin = admin]
    /\ Goto(w, o, IF op[o].kind = "scale" THEN "drain" ELSE "finOp")
    /\ UNCHANGED <<op, vim, nbiVars, cancel, busVars, up, handling, ignored,
                   crashes, histVars, pauses>>

FinishNsNoReset(w, o) == FinishNsWith(w, o, TRUE, nsr.admin)
FinishNsAlwaysReset(w, o) ==
    FinishNsWith(w, o, TRUE, IF op[o].kind = "terminate"
                               THEN "NOT_INSTANTIATED" ELSE nsr.admin)
FinishNsIfOk(w, o) ==
    FinishNsWith(w, o, ~task[w][o].exc, IF op[o].kind = "terminate"
                                          THEN "NOT_INSTANTIATED"
                                          ELSE nsr.admin)

\* _write_ns_status(..., "IDLE", None); a successful terminate also resets
\* _admin.nsState.
FinishNs(w, o) ==
    /\ w \in up /\ task[w][o].pc = "finNs"
    /\ nsr' = IF ~nsr.exists THEN nsr
              ELSE [nsr EXCEPT
                      !.state = FinalNsState(w, o),
                      !.cur = NoOp,
                      !.admin = IF op[o].kind = "terminate" /\ ~task[w][o].exc
                                  THEN "NOT_INSTANTIATED" ELSE @]
    /\ Goto(w, o, IF op[o].kind = "scale" THEN "drain" ELSE "finOp")
    /\ UNCHANGED <<op, vim, nbiVars, cancel, busVars, up, handling, ignored,
                   crashes, histVars, pauses>>

\* scale awaits its pending tasks after its first write; their errors are not
\* looked at.
Drain(w, o) ==
    /\ CpuFree(w) /\ task[w][o].pc = "drain"
    /\ Goto(w, o, "finOp")
    /\ UNCHANGED <<dbVars, nbiVars, cancel, busVars, up, handling, ignored,
                   crashes, histVars, pauses>>

\* _write_op_status with the final operationState.
FinishOp(w, o) ==
    /\ w \in up /\ task[w][o].pc = "finOp"
    /\ WriteOpState(o, IF task[w][o].exc THEN "FAILED" ELSE "COMPLETED")
    /\ Goto(w, o, IF \/ op[o].kind \in {"heal", "scale"} /\ task[w][o].begun
                     \/ op[o].kind = "migrate"
                  THEN "finNs2" ELSE "notify")
    /\ UNCHANGED <<nsr, vim, nbiVars, cancel, busVars, up, handling, crashes,
                   histVars, pauses>>

\* heal and scale write IDLE (again); migrate calls update_db_2 on the nsr,
\* which raises when the record is gone and there is something to write.
FinishNs2(w, o) ==
    /\ w \in up /\ task[w][o].pc = "finNs2"
    /\ IF op[o].kind = "migrate" THEN UNCHANGED nsr
                                  ELSE WriteNsStatus(nsr.state, NoOp)
    /\ Goto(w, o, IF op[o].kind = "migrate" /\ ~task[w][o].exc /\ ~nsr.exists
                    THEN "died" ELSE "notify")
    /\ UNCHANGED <<op, vim, nbiVars, cancel, busVars, up, handling, ignored,
                   crashes, histVars, pauses>>

\* Mutant of Notify: the lock is released as the account operations do.
NotifyUnlocks(w, o) ==
    /\ CpuFree(w) /\ task[w][o].pc = "notify"
    /\ Set(w, o, [NoTask EXCEPT !.pc = "done"])
    /\ op' = [op EXCEPT ![o].worker = NoWorker]
    /\ UNCHANGED <<nsr, vim, nbiVars, cancel, busVars, up, handling, ignored,
                   crashes, histVars, pauses>>

\* msg.aiowrite of the notification, then TaskRegistry.remove.
Notify(w, o) ==
    /\ CpuFree(w) /\ task[w][o].pc = "notify"
    /\ Set(w, o, [NoTask EXCEPT !.pc = "done"])
    /\ UNCHANGED <<dbVars, nbiVars, cancel, busVars, up, handling, ignored,
                   crashes, histVars, pauses>>

-----------------------------------------------------------------------------
(* Topic "nslcmops", command "cancel".                                        *)

\* The message reaches any worker of the group; only a task in the registry
\* of that worker is cancelled.  A coroutine that has not started is dropped,
\* one that awaits gets CancelledError there.
CancelTake(w, o) ==
    /\ Listening(w)
    /\ cancel[o] = "sent"
    /\ cancel' = [cancel EXCEPT ![o] = "taken"]
    /\ handling' = [handling EXCEPT ![w] = o]
    /\ CASE task[w][o].pc \in {"scheduled", "notify"} -> Goto(w, o, "done")
         [] task[w][o].pc = "waiting" -> FailEarly(w, o)
         [] task[w][o].pc \in {"run", "worked"} -> FailRun(w, o)
         [] task[w][o].pc = "drain" ->
                Set(w, o, [task[w][o] EXCEPT !.pc = "finOp", !.exc = TRUE])
         [] OTHER -> UNCHANGED task
    /\ UNCHANGED <<dbVars, nbiVars, busVars, up, ignored, crashes, histVars,
                   pauses>>

\* Mutant of CancelEnd: nothing is written when the task is not found here.
CancelEndIfFound(w, o) ==
    /\ CpuFree(w)
    /\ handling[w] = o
    /\ task[w][o].pc \in {"none", "done"}
    /\ handling' = [handling EXCEPT ![w] = NoOp]
    /\ cancel' = [cancel EXCEPT ![o] = "done"]
    /\ op' = IF Stored(o) /\ task[w][o].pc = "done"
               THEN [op EXCEPT ![o].state = "FAILED_TEMP"] ELSE op
    /\ UNCHANGED <<nsr, vim, nbiVars, busVars, up, task, ignored, crashes,
                   histVars, pauses>>

\* The awaited task has ended, or there was none: operationState FAILED_TEMP
\* whatever it was before.  set_one is called directly, _admin.modified stays.
CancelEnd(w, o) ==
    /\ CpuFree(w)
    /\ handling[w] = o
    /\ task[w][o].pc \in {"none", "done"}
    /\ handling' = [handling EXCEPT ![w] = NoOp]
    /\ cancel' = [cancel EXCEPT ![o] = "done"]
    /\ op' = IF Stored(o) THEN [op EXCEPT ![o].state = "FAILED_TEMP"] ELSE op
    /\ UNCHANGED <<nsr, vim, nbiVars, busVars, up, task, ignored, crashes,
                   histVars, pauses>>

\* Awaiting a task that ended with an exception raises it again and leaves the
\* callback before the update: a coroutine that died, or one of the tasks that
\* an instantiation, a scaling or a healing registered beside its own.
CancelEndDied(w, o) ==
    /\ CpuFree(w)
    /\ handling[w] = o
    /\ \/ task[w][o].pc = "died"
       \/ /\ task[w][o].pc = "done" /\ task[w][o].exc
          /\ op[o].kind \in {"instantiate", "scale", "heal"}
    /\ handling' = [handling EXCEPT ![w] = NoOp]
    /\ cancel' = [cancel EXCEPT ![o] = "failed"]
    /\ UNCHANGED <<dbVars, nbiVars, busVars, up, task, ignored, crashes,
                   histVars, pauses>>

-----------------------------------------------------------------------------
\* The process ends: its coroutines are gone, _admin.worker keeps its name.
\* A cancel message it was handling is handed out again, or is lost when its
\* offset was already committed (the consumer commits in the background).
Crash(w, committed) ==
    /\ crashes < MaxCrash
    /\ w \in up
    /\ up' = up \ {w}
    /\ crashes' = crashes + 1
    /\ task' = [task EXCEPT ![w] = [o \in Op |-> NoTask]]
    /\ cancel' = [o \in Op |-> IF handling[w] # o THEN cancel[o]
                               ELSE IF committed THEN "failed" ELSE "sent"]
    /\ handling' = [handling EXCEPT ![w] = NoOp]
    /\ UNCHANGED <<dbVars, nbiVars, busVars, ignored, histVars, pauses>>

Restart(w) ==
    /\ w \notin up
    /\ up' = up \cup {w}
    /\ UNCHANGED <<dbVars, nbiVars, cancel, busVars, task, handling, ignored,
                   crashes, histVars, pauses>>

\* Two hours pass without a write to the document of an operation in progress.
Pause(o) ==
    /\ pauses < MaxPause
    /\ InProgress(o) /\ ~op[o].stale
    /\ op' = [op EXCEPT ![o].stale = TRUE]
    /\ pauses' = pauses + 1
    /\ UNCHANGED <<nsr, vim, nbiVars, cancel, busVars, lcmVars, histVars>>

\* The steps of the coroutine of o at w and of the callbacks about o at w.
TaskStep(w, o) ==
    \/ Lock(w, o) \/ PollBlocked(w, o) \/ PollClear(w, o)
    \/ BeginInstantiate(w, o) \/ MarkInstantiated(w, o)
    \/ BeginTerminate(w, o) \/ BeginOther(w, o)
    \/ \E written \in BOOLEAN : Work(w, o, written)
    \/ WorkDone(w, o) \/ FinishNs(w, o) \/ Drain(w, o) \/ FinishOp(w, o)
    \/ FinishNs2(w, o) \/ Notify(w, o)
    \/ CancelEnd(w, o) \/ CancelEndDied(w, o)

LcmNext ==
    \/ \E w \in Worker, o \in Op :
          \/ Deliver(w, o) \/ TaskStep(w, o)
          \/ WaitTimeout(w, o) \/ WorkFails(w, o) \/ CancelTake(w, o)
    \/ \E o \in Op : Redeliver(o) \/ Pause(o)
    \/ \E w \in Worker :
          Restart(w) \/ \E committed \in BOOLEAN : Crash(w, committed)
=============================================================================
