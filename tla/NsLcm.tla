------------------------------- MODULE NsLcm -------------------------------
(***************************************************************************)
(* The lifecycle operations of a network service, end to end: NBI creates, *)
(* cancels and removes; the bus delivers; several LCM workers execute.     *)
(***************************************************************************)
EXTENDS NbiNsOps, LcmNsTasks

Next == NbiNext \/ LcmNext

Spec == Init /\ [][Next]_vars

(* Fairness: the event loop of a worker runs every coroutine that is ready,  *)
(* whatever it awaits ends by itself or by one of the timeouts of            *)
(* LcmCfg.timeout, a wait ends after 3600 s, the bus hands out its messages, *)
(* and a crashed worker is started again by the container platform.  Nothing *)
(* is assumed of NBI: a request it never finishes blocks nobody for ever.    *)
Fairness ==
    /\ \A w \in Worker, o \in Op :
          WF_vars(TaskStep(w, o) \/ WaitTimeout(w, o) \/ WorkFails(w, o))
    /\ \A o \in Op :
          /\ WF_vars(\E w \in Worker : Deliver(w, o))
          /\ WF_vars(\E w \in Worker : CancelTake(w, o))
    /\ \A w \in Worker : WF_vars(Restart(w))

FairSpec == Spec /\ Fairness

-----------------------------------------------------------------------------
(* Safety                                                                   *)

\* An operation that got past its wait has run alone with respect to every
\* earlier operation that is in progress, except those its wait could not see:
\* not inserted yet when it ended, or two hours without a modification
\* (lock_HA, waitfor_related_HA and _get_waitfor_filter_HA together).
StartsInOrder ==
    \A o, p \in Op :
        (Active(o) /\ InProgress(p) /\ op[p].start < op[o].start)
            => p \in excused[o]

\* At most one worker runs an operation, and it is the one recorded in
\* _admin.worker, whatever was redelivered, cancelled or restarted.
OneRunner ==
    \A o \in Op, w \in Worker :
        task[w][o].pc \in LivePcs => op[o].worker = w

\* currentOperationID never names an operation whose record says that it
\* ended well or badly, unless its coroutine is still to clear it: whoever
\* sees a busy NS finds an operation that is really open.  heal records its
\* end before it clears the field, so a crash in between leaves it behind.
BusyHasOwner ==
    (nsr.exists /\ nsr.cur # NoOp)
        => \/ op[nsr.cur].state \notin {"COMPLETED", "FAILED"}
           \/ Active(nsr.cur)
           \/ op[nsr.cur].kind = "heal" /\ crashes > 0

\* When no operation runs and none ever ran beside another one, the two state
\* fields of the nsr agree: NBI decides on _admin.nsState what clients see as
\* nsState.
NsStatesAgree ==
    (nsr.exists /\ NobodyActive /\ ~overlap)
        => /\ nsr.state \in {"READY", "BROKEN"} => nsr.admin = "INSTANTIATED"
           /\ nsr.state = "NOT_INSTANTIATED" => nsr.admin = "NOT_INSTANTIATED"

\* An NS that NBI would delete without force holds nothing at the VIM, as long
\* as operations ran one at a time.
DeletableIsClean ==
    (nsr.exists /\ nsr.admin = "NOT_INSTANTIATED" /\ NobodyActive /\ ~overlap)
        => ~vim

\* A removal that raced with no operation leaves nothing behind at the VIM.
NoOrphan == (~nsr.exists /\ ~raced /\ ~overlap) => ~vim

\* The operation that is at work is the one currentOperationID names, as long
\* as operations run one at a time and no scale or migrate is around: those
\* two write IDLE even when they gave up waiting.
RunningIsShown ==
    \A o \in Op, w \in Worker :
        (task[w][o].pc \in {"mark", "run", "worked"} /\ nsr.exists /\ ~overlap)
            => \/ nsr.cur = o
               \/ \E p \in Op \ {o} : op[p].kind \in {"scale", "migrate"}

-----------------------------------------------------------------------------
(* The inductive invariant behind OneRunner and StartsInOrder: the other      *)
(* conjuncts are what these two need of the rest of the state.                *)

\* A coroutine that has not ended its wait has not bound db_nsr.
NotBegunInWait ==
    \A w \in Worker, o \in Op :
        task[w][o].pc \in {"none", "scheduled", "locked", "waiting"}
            => ~task[w][o].begun

\* A document is absent until NBI stores it, and until then nobody can have
\* taken the operation.
UnstoredIsFree ==
    \A o \in Op :
        /\ op[o].state = "ABSENT" <=> nbi[o] \in {"idle", "checked", "stamped"}
        /\ op[o].state = "ABSENT" => op[o].worker = NoWorker

\* An operation at work could not see those that are still to be stored.
AbsentIsExcused ==
    \A o, p \in Op : (Active(o) /\ op[p].state = "ABSENT") => p \in excused[o]

\* The invariant of the proofs, which TLC checks first: the two properties with
\* what the store of a document, the lock and the wait promise each other.
LcmInv ==
    /\ TypeOK
    /\ OneRunner
    /\ NotBegunInWait
    /\ UnstoredIsFree
    /\ AbsentIsExcused
    /\ StartsInOrder

-----------------------------------------------------------------------------
(* The abstract specification                                               *)

RunningSomewhere(o) == \E w \in Worker : task[w][o].pc \in LivePcs

runnerBar == [o \in Op |-> op[o].worker]
stageBar == [o \in Op |-> IF RunningSomewhere(o) THEN "running"
                          ELSE IF op[o].worker = NoWorker THEN "open"
                                                          ELSE "over"]

Once == INSTANCE NsOpOnce WITH runner <- runnerBar, stage <- stageBar

\* The workers, the database lock and the bus together implement NsOpOnce.
ImplementsOnce == Once!OnceSpec

-----------------------------------------------------------------------------
(* Liveness                                                                 *)

\* The coroutine of o was lost with its worker: nobody will run the operation
\* again, because _admin.worker keeps the name or the message was committed.
LostInCrash(o) ==
    /\ crashes > 0 /\ o \in delivered \ inbox
    /\ \A w \in Worker : task[w][o].pc \in {"none", "done"}

Died(o) == \E w \in Worker : task[w][o].pc = "died"

\* Every operation NBI sent leaves PROCESSING: no worker and no earlier
\* operation, not even one that was lost with its worker, keeps it waiting
\* for ever.  Only an operation lost in a crash or one whose finally block
\* raised stays open.
SentOpEnds ==
    \A o \in Op : nbi[o] = "sent" ~> (~InProgress(o) \/ LostInCrash(o) \/ Died(o))

\* A cancel request that NBI accepted ends the operation, whichever worker
\* gets the message and whatever stage the operation is in, unless the message
\* is lost with the worker that was handling it or one of the cancelled tasks
\* raises.
CancelAnswered ==
    \A o \in Op : cancel[o] = "sent" ~> (~InProgress(o) \/ cancel[o] = "failed")

-----------------------------------------------------------------------------
(* Statements of the repository that the code does not keep                 *)

\* "Get related tasks ... which are still running (operationState=
\* 'PROCESSING')" (waitfor_related_HA): without crashes, an operation that a
\* worker took and that is in state PROCESSING is still being run there.
ProcessingMeansRunning ==
    \A o \in Op :
        (InProgress(o) /\ op[o].worker # NoWorker /\ crashes = 0)
            => RunningSomewhere(o)

\* "When instantiated NBI will not delete directly" (NsLcm.instantiate): an NS
\* removed without force holds nothing at the VIM.
RemovedIsClean == ~nsr.exists => ~vim
=============================================================================
