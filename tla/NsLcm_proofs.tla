---------------------------- MODULE NsLcm_proofs ----------------------------
(***************************************************************************)
(* Theorems about NsLcm, for every number of operations and workers and    *)
(* every bound: how operations take turns, the refinement of NsOpOnce, and *)
(* what the record of a network service says of the operation at work, of  *)
(* the VIM and of its removal.                                             *)
(***************************************************************************)
EXTENDS NsLcm, TLAPS

-----------------------------------------------------------------------------
(* Type correctness                                                         *)

\* What moves a coroutine keeps the table of coroutines well-typed.
LEMMA SetType ==
    ASSUME TypeOK, NEW w \in Worker, NEW o \in Op, NEW rec \in TaskRec,
           Set(w, o, rec)
    PROVE  task' \in [Worker -> [Op -> TaskRec]]
BY DEF TypeOK, Set

\* A change of stage keeps the table of coroutines well-typed.
LEMMA GotoType ==
    ASSUME TypeOK, NEW w \in Worker, NEW o \in Op, NEW pc \in Pcs,
           Goto(w, o, pc)
    PROVE  task' \in [Worker -> [Op -> TaskRec]]
<1>1. task[w][o] \in TaskRec
  BY DEF TypeOK
<1>2. [task[w][o] EXCEPT !.pc = pc] \in TaskRec
  BY <1>1 DEF TaskRec
<1>3. Set(w, o, [task[w][o] EXCEPT !.pc = pc])
  BY DEF Goto, Set, TypeOK
<1> QED
  BY <1>2, <1>3, SetType

\* The two kinds of network service a run starts from are well-typed.
LEMMA InitType == Init => TypeOK
<1> SUFFICES ASSUME Init PROVE TypeOK
  OBVIOUS
<1>0. vim \in BOOLEAN
  BY Zenon DEF Init
<1>1. nsr \in NsrRec
  <2>1. nsr \in {NewNsr, ReadyNsr}
    BY DEF Init
  <2>2. NewNsr \in NsrRec
    BY DEF NsrRec, NewNsr, AdminStates, NsStates
  <2>3. ReadyNsr \in NsrRec
    BY <2>2 DEF NsrRec, ReadyNsr, AdminStates, NsStates
  <2> QED
    BY <2>1, <2>2, <2>3
<1>2. op \in [Op -> OpRec]
  BY DEF Init, OpRec, OpStates, AllKinds
<1>3. NoTask \in TaskRec
  BY DEF NoTask, TaskRec, Pcs, NsStates
<1>4. task \in [Worker -> [Op -> TaskRec]]
  BY <1>3 DEF Init
<1> QED
  BY <1>0, <1>1, <1>2, <1>4 DEF Init, TypeOK

\* _write_ns_status leaves a well-typed nsr, present or removed.
LEMMA WriteNsStatusType ==
    ASSUME TypeOK, NEW state \in NsStates, NEW cur \in Op \cup {NoOp},
           WriteNsStatus(state, cur)
    PROVE  nsr' \in NsrRec
BY DEF TypeOK, WriteNsStatus, NsrRec

\* Every operation document is a well-typed record.
LEMMA OpRecType ==
    ASSUME TypeOK, NEW o \in Op
    PROVE  op[o] \in OpRec
BY DEF TypeOK

\* _write_op_status with an operation_state keeps documents well-typed.
LEMMA WriteOpStateType ==
    ASSUME TypeOK, NEW o \in Op, NEW state \in OpStates, WriteOpState(o, state)
    PROVE  op' \in [Op -> OpRec] /\ ignored' \in [Op -> SUBSET Op]
<1>1. op[o] \in OpRec
  BY OpRecType
<1>2. [[op[o] EXCEPT !.state = state] EXCEPT !.stale = FALSE] \in OpRec
  BY <1>1 DEF OpRec
<1>3. Touched(o, [op[o] EXCEPT !.state = state]) \in [Op -> OpRec]
  BY <1>2 DEF Touched, TypeOK
<1>4. SeenAgain(o) \in [Op -> SUBSET Op]
  BY DEF SeenAgain, TypeOK
<1> QED
  BY <1>3, <1>4 DEF WriteOpState, TypeOK

\* _write_op_status without one keeps documents well-typed.
LEMMA WriteOpStageType ==
    ASSUME TypeOK, NEW o \in Op, WriteOpStage(o)
    PROVE  op' \in [Op -> OpRec] /\ ignored' \in [Op -> SUBSET Op]
<1>1. op[o] \in OpRec
  BY OpRecType
<1>2. [op[o] EXCEPT !.stale = FALSE] \in OpRec
  BY <1>1 DEF OpRec
<1>3. Touched(o, op[o]) \in [Op -> OpRec]
  BY <1>2 DEF Touched, TypeOK
<1>4. SeenAgain(o) \in [Op -> SUBSET Op]
  BY DEF SeenAgain, TypeOK
<1> QED
  BY <1>3, <1>4 DEF WriteOpStage, TypeOK

\* Every entry of the table of coroutines is a well-typed record.
LEMMA TaskRecType ==
    ASSUME TypeOK, NEW w \in Worker, NEW o \in Op
    PROVE  task[w][o] \in TaskRec
BY DEF TypeOK

\* An exception that leaves the wait leads to a stage of the coroutine.
LEMMA FailEarlyType ==
    ASSUME TypeOK, NEW w \in Worker, NEW o \in Op, FailEarly(w, o)
    PROVE  task' \in [Worker -> [Op -> TaskRec]]
<1>1. AfterEarlyExc(o) \in Pcs
  BY DEF AfterEarlyExc, Pcs
<1>2. [task[w][o] EXCEPT !.pc = AfterEarlyExc(o), !.exc = TRUE] \in TaskRec
  BY <1>1, TaskRecType DEF TaskRec
<1> QED
  BY <1>2, SetType DEF FailEarly

\* An exception in the work leads to a stage of the coroutine.
LEMMA FailRunType ==
    ASSUME TypeOK, NEW w \in Worker, NEW o \in Op, FailRun(w, o)
    PROVE  task' \in [Worker -> [Op -> TaskRec]]
<1> DEFINE pc == IF op[o].kind = "heal" /\ task[w][o].pc = "run"
                   THEN "died" ELSE "worked"
<1>1. pc \in Pcs
  BY DEF Pcs
<1> HIDE DEF pc
<1>2. [task[w][o] EXCEPT !.exc = TRUE, !.pc = pc] \in TaskRec
  BY <1>1, TaskRecType DEF TaskRec
<1> QED
  BY <1>2, SetType DEF FailRun, pc

\* A step of NBI keeps every variable well-typed.
LEMMA NbiNextType == TypeOK /\ NbiNext => TypeOK'
<1> SUFFICES ASSUME TypeOK, NbiNext PROVE TypeOK'
  OBVIOUS
<1>1. ASSUME NEW o \in Op, NEW kind \in Kinds, NEW force \in ForceFlags,
             NbiCheck(o, kind, force)
      PROVE  TypeOK'
  <2>1. op[o] \in OpRec
    BY OpRecType
  <2>2. [op[o] EXCEPT !.kind = kind] \in OpRec
    BY <2>1, KindAssumption DEF OpRec, AllKinds
  <2>3. op' \in [Op -> OpRec]
    BY <1>1, <2>2 DEF NbiCheck, TypeOK
  <2> QED
    BY <1>1, <2>3
       DEF NbiCheck, TypeOK, dbVars, nbiVars, busVars, lcmVars, histVars
<1>2. ASSUME NEW o \in Op, NbiStamp(o) PROVE TypeOK'
  <2>1. op[o] \in OpRec
    BY OpRecType
  <2>2. [op[o] EXCEPT !.start = clock + 1] \in OpRec
    <3>1. clock + 1 \in Nat
      BY DEF TypeOK
    <3> QED
      BY <2>1, <3>1 DEF OpRec
  <2>3. op' \in [Op -> OpRec]
    BY <1>2, <2>2 DEF NbiStamp, TypeOK
  <2> QED
    BY <1>2, <2>3
       DEF NbiStamp, TypeOK, dbVars, nbiVars, busVars, lcmVars, histVars
<1>3. ASSUME NEW o \in Op, NbiStore(o) PROVE TypeOK'
  <2>1. op[o] \in OpRec
    BY OpRecType
  <2>2. [op[o] EXCEPT !.state = "PROCESSING"] \in OpRec
    BY <2>1 DEF OpRec, OpStates
  <2>3. op' \in [Op -> OpRec]
    BY <1>3, <2>2 DEF NbiStore, TypeOK
  <2> QED
    BY <1>3, <2>3
       DEF NbiStore, TypeOK, dbVars, nbiVars, busVars, lcmVars, histVars
<1>4. ASSUME NEW o \in Op, NbiSend(o) PROVE TypeOK'
  BY <1>4 DEF NbiSend, TypeOK, dbVars, nbiVars, busVars, lcmVars, histVars
<1>5. ASSUME NEW o \in Op, NbiRollback(o) PROVE TypeOK'
  <2>1. op[o] \in OpRec
    BY OpRecType
  <2>2. [op[o] EXCEPT !.state = "DELETED"] \in OpRec
    BY <2>1 DEF OpRec, OpStates
  <2>3. op' \in [Op -> OpRec]
    BY <1>5, <2>2 DEF NbiRollback, TypeOK
  <2> QED
    BY <1>5, <2>3
       DEF NbiRollback, TypeOK, dbVars, nbiVars, busVars, lcmVars, histVars
<1>11. ASSUME NEW o \in Op, NEW published \in BOOLEAN,
              NbiSendFails(o, published)
       PROVE  TypeOK'
  BY <1>11
     DEF NbiSendFails, TypeOK, dbVars, nbiVars, busVars, lcmVars, histVars
<1>6. ASSUME NEW o \in Op, NbiCancelCheck(o) PROVE TypeOK'
  BY <1>6
     DEF NbiCancelCheck, TypeOK, dbVars, nbiVars, busVars, lcmVars, histVars
<1>7. ASSUME NEW o \in Op, NbiCancelSend(o) PROVE TypeOK'
  BY <1>7
     DEF NbiCancelSend, TypeOK, dbVars, nbiVars, busVars, lcmVars, histVars
<1>8. ASSUME NEW force \in ForceFlags, NbiDeleteCheck(force) PROVE TypeOK'
  BY <1>8
     DEF NbiDeleteCheck, TypeOK, dbVars, nbiVars, busVars, lcmVars, histVars
<1>9. CASE NbiDeleteNsr
  <2>1. nsr' \in NsrRec
    BY <1>9 DEF NbiDeleteNsr, TypeOK, NsrRec
  <2> QED
    BY <1>9, <2>1
       DEF NbiDeleteNsr, TypeOK, dbVars, nbiVars, busVars, lcmVars, histVars
<1>10. CASE NbiDeleteOps
  <2>1. ASSUME NEW o \in Op PROVE [op[o] EXCEPT !.state = "DELETED"] \in OpRec
    BY OpRecType DEF OpRec, OpStates
  <2>2. op' \in [Op -> OpRec]
    BY <1>10, <2>1, OpRecType DEF NbiDeleteOps
  <2> QED
    BY <1>10, <2>2
       DEF NbiDeleteOps, TypeOK, dbVars, nbiVars, busVars, lcmVars, histVars
<1> QED
  BY <1>1, <1>2, <1>3, <1>4, <1>5, <1>6, <1>7, <1>8, <1>9, <1>10,
     <1>11
     DEF NbiNext

\* The entry of a coroutine that does not exist is well-typed.
LEMMA NoTaskType == NoTask \in TaskRec
BY DEF NoTask, TaskRec, Pcs, NsStates

\* A step of the coroutine of o at w, or of a callback about it.
LEMMA TaskStepType ==
    ASSUME TypeOK, NEW w \in Worker, NEW o \in Op,
           TaskStep(w, o) \/ WaitTimeout(w, o) \/ WorkFails(w, o)
             \/ CancelTake(w, o) \/ Deliver(w, o)
    PROVE  TypeOK'
<1>0. op[o] \in OpRec /\ task[w][o] \in TaskRec
  BY OpRecType, TaskRecType
<1>1. CASE Deliver(w, o)
  <2>1. [NoTask EXCEPT !.pc = "scheduled"] \in TaskRec
    BY NoTaskType DEF TaskRec, Pcs
  <2>2. task' \in [Worker -> [Op -> TaskRec]]
    BY <1>1, <2>1, SetType DEF Deliver
  <2> QED
    BY <1>1, <2>2
       DEF Deliver, TypeOK, dbVars, nbiVars, busVars, lcmVars, histVars
<1>2. CASE Lock(w, o)
  <2>1. task' \in [Worker -> [Op -> TaskRec]]
    BY <1>2, GotoType DEF Lock, Pcs
  <2>2. [op[o] EXCEPT !.worker = w] \in OpRec
    BY <1>0 DEF OpRec
  <2>3. op' \in [Op -> OpRec]
    BY <1>2, <2>2 DEF Lock, TypeOK
  <2>4. ignored' \in [Op -> SUBSET Op]
    BY <1>2 DEF Lock, TypeOK
  <2> QED
    BY <1>2, <2>1, <2>3, <2>4
       DEF Lock, TypeOK, dbVars, nbiVars, busVars, lcmVars, histVars
<1>3. CASE PollBlocked(w, o)
  <2>1. task' \in [Worker -> [Op -> TaskRec]]
    BY <1>3, GotoType DEF PollBlocked, Pcs
  <2> QED
    BY <1>3, <2>1
       DEF PollBlocked, TypeOK, dbVars, nbiVars, busVars, lcmVars, histVars
<1>4. CASE PollClear(w, o)
  <2>1. task' \in [Worker -> [Op -> TaskRec]]
    BY <1>4, GotoType DEF PollClear, Pcs
  <2>2. Unseen(o) \subseteq Op
    BY DEF Unseen, TypeOK
  <2>3. excused' \in [Op -> SUBSET Op] /\ ignored' \in [Op -> SUBSET Op]
    BY <1>4, <2>2 DEF PollClear, TypeOK
  <2>4. overlap' \in BOOLEAN /\ raced' \in BOOLEAN
    BY <1>4 DEF PollClear
  <2> QED
    BY <1>4, <2>1, <2>3, <2>4
       DEF PollClear, TypeOK, dbVars, nbiVars, busVars, lcmVars, histVars
<1>5. CASE WaitTimeout(w, o)
  <2>1. task' \in [Worker -> [Op -> TaskRec]]
    BY <1>5, FailEarlyType DEF WaitTimeout
  <2> QED
    BY <1>5, <2>1
       DEF WaitTimeout, TypeOK, dbVars, nbiVars, busVars, lcmVars, histVars
<1>6. CASE BeginInstantiate(w, o)
  <2>1. nsr' \in NsrRec
    BY <1>6, WriteNsStatusType DEF BeginInstantiate, NsStates
  <2>2. op' \in [Op -> OpRec] /\ ignored' \in [Op -> SUBSET Op]
    BY <1>6, WriteOpStageType DEF BeginInstantiate
  <2>3. [task[w][o] EXCEPT !.pc = "mark", !.begun = TRUE] \in TaskRec
    BY <1>0 DEF TaskRec, Pcs
  <2>4. task' \in [Worker -> [Op -> TaskRec]]
    BY <1>6, <2>3, SetType, FailEarlyType DEF BeginInstantiate
  <2> QED
    BY <1>6, <2>1, <2>2, <2>4
       DEF BeginInstantiate, TypeOK, dbVars, nbiVars, busVars, lcmVars,
           histVars
<1>7. CASE MarkInstantiated(w, o)
  <2>1. nsr' \in NsrRec
    BY <1>7 DEF MarkInstantiated, TypeOK, NsrRec, AdminStates
  <2>2. [task[w][o] EXCEPT !.pc = "finNs", !.exc = TRUE] \in TaskRec
    BY <1>0 DEF TaskRec, Pcs
  <2>3. task' \in [Worker -> [Op -> TaskRec]]
    BY <1>7, <2>2, SetType, GotoType DEF MarkInstantiated, Pcs
  <2> QED
    BY <1>7, <2>1, <2>3
       DEF MarkInstantiated, TypeOK, dbVars, nbiVars, busVars, lcmVars,
           histVars
<1>8. CASE BeginTerminate(w, o)
  <2>1. nsr' \in NsrRec
    BY <1>8, WriteNsStatusType DEF BeginTerminate, NsStates, TypeOK
  <2>2. op' \in [Op -> OpRec] /\ ignored' \in [Op -> SUBSET Op]
    BY <1>8, WriteOpStageType DEF BeginTerminate, TypeOK
  <2> DEFINE pc == IF nsr.admin = "NOT_INSTANTIATED" THEN "finNs" ELSE "run"
  <2>3. [task[w][o] EXCEPT !.begun = TRUE, !.pc = pc] \in TaskRec
    BY <1>0 DEF TaskRec, Pcs
  <2>4. task' \in [Worker -> [Op -> TaskRec]]
    BY <1>8, <2>3, SetType, FailEarlyType DEF BeginTerminate
  <2> QED
    BY <1>8, <2>1, <2>2, <2>4
       DEF BeginTerminate, TypeOK, dbVars, nbiVars, busVars, lcmVars, histVars
<1>9. CASE BeginOther(w, o)
  <2>1. nsr.state \in NsStates
    BY DEF TypeOK, NsrRec
  <2>2. nsr' \in NsrRec
    BY <1>9, <2>1, WriteNsStatusType DEF BeginOther
  <2>3. [task[w][o] EXCEPT !.pc = "run", !.begun = TRUE, !.old = nsr.state]
          \in TaskRec
    BY <1>0, <2>1 DEF TaskRec, Pcs
  <2>4. task' \in [Worker -> [Op -> TaskRec]]
    BY <1>9, <2>3, SetType, FailEarlyType DEF BeginOther
  <2> QED
    BY <1>9, <2>2, <2>4
       DEF BeginOther, TypeOK, dbVars, nbiVars, busVars, lcmVars, histVars
<1>10. ASSUME NEW written \in BOOLEAN, Work(w, o, written) PROVE TypeOK'
  <2>1. task' \in [Worker -> [Op -> TaskRec]]
    BY <1>10, GotoType DEF Work, Pcs
  <2>2. op' \in [Op -> OpRec] /\ ignored' \in [Op -> SUBSET Op]
    BY <1>10, WriteOpStageType DEF Work, TypeOK
  <2>3. vim' \in BOOLEAN
    BY <1>10 DEF Work, TypeOK
  <2> QED
    BY <1>10, <2>1, <2>2, <2>3
       DEF Work, TypeOK, dbVars, nbiVars, busVars, lcmVars, histVars
<1>11. CASE WorkDone(w, o)
  <2>1. task' \in [Worker -> [Op -> TaskRec]]
    BY <1>11, GotoType DEF WorkDone, Pcs, FinallyPc
  <2> QED
    BY <1>11, <2>1
       DEF WorkDone, TypeOK, dbVars, nbiVars, busVars, lcmVars, histVars
<1>12. CASE WorkFails(w, o)
  <2>1. task' \in [Worker -> [Op -> TaskRec]]
    BY <1>12, FailRunType DEF WorkFails
  <2> QED
    BY <1>12, <2>1
       DEF WorkFails, TypeOK, dbVars, nbiVars, busVars, lcmVars, histVars
<1>13. CASE FinishNs(w, o)
  <2>1. FinalNsState(w, o) \in NsStates
    <3>1. nsr.state \in NsStates /\ task[w][o].old \in NsStates
      BY <1>0 DEF TypeOK, NsrRec, TaskRec
    <3> QED
      BY <1>0, <3>1 DEF FinalNsState, NsStates, TaskRec
  <2> DEFINE admin == IF op[o].kind = "terminate" /\ ~task[w][o].exc
                        THEN "NOT_INSTANTIATED" ELSE nsr.admin
  <2>2. [nsr EXCEPT !.state = FinalNsState(w, o), !.cur = NoOp, !.admin = admin]
          \in NsrRec
    BY <2>1 DEF NsrRec, AdminStates, TypeOK
  <2>3. nsr' \in NsrRec
    BY <1>13, <2>2 DEF FinishNs, TypeOK
  <2>4. task' \in [Worker -> [Op -> TaskRec]]
    BY <1>13, GotoType DEF FinishNs, Pcs
  <2> QED
    BY <1>13, <2>3, <2>4
       DEF FinishNs, TypeOK, dbVars, nbiVars, busVars, lcmVars, histVars
<1>14. CASE Drain(w, o)
  <2>1. task' \in [Worker -> [Op -> TaskRec]]
    BY <1>14, GotoType DEF Drain, Pcs
  <2> QED
    BY <1>14, <2>1
       DEF Drain, TypeOK, dbVars, nbiVars, busVars, lcmVars, histVars
<1>15. CASE FinishOp(w, o)
  <2>1. task' \in [Worker -> [Op -> TaskRec]]
    BY <1>15, GotoType DEF FinishOp, Pcs
  <2>2. op' \in [Op -> OpRec] /\ ignored' \in [Op -> SUBSET Op]
    BY <1>15, WriteOpStateType DEF FinishOp, OpStates
  <2> QED
    BY <1>15, <2>1, <2>2
       DEF FinishOp, TypeOK, dbVars, nbiVars, busVars, lcmVars, histVars
<1>16. CASE FinishNs2(w, o)
  <2>1. task' \in [Worker -> [Op -> TaskRec]]
    BY <1>16, GotoType DEF FinishNs2, Pcs
  <2>2. nsr.state \in NsStates
    BY DEF TypeOK, NsrRec
  <2>3. nsr' \in NsrRec
    BY <1>16, <2>2, WriteNsStatusType DEF FinishNs2, TypeOK
  <2> QED
    BY <1>16, <2>1, <2>3
       DEF FinishNs2, TypeOK, dbVars, nbiVars, busVars, lcmVars, histVars
<1>17. CASE Notify(w, o)
  <2>1. [NoTask EXCEPT !.pc = "done"] \in TaskRec
    BY NoTaskType DEF TaskRec, Pcs
  <2>2. task' \in [Worker -> [Op -> TaskRec]]
    BY <1>17, <2>1, SetType DEF Notify
  <2> QED
    BY <1>17, <2>2
       DEF Notify, TypeOK, dbVars, nbiVars, busVars, lcmVars, histVars
<1>18. CASE CancelTake(w, o)
  <2>1. [task[w][o] EXCEPT !.pc = "finOp", !.exc = TRUE] \in TaskRec
    BY <1>0 DEF TaskRec, Pcs
  <2>2. \/ Goto(w, o, "done") \/ FailEarly(w, o) \/ FailRun(w, o)
        \/ Set(w, o, [task[w][o] EXCEPT !.pc = "finOp", !.exc = TRUE])
        \/ UNCHANGED task
    BY <1>18 DEF CancelTake
  <2>3. task' \in [Worker -> [Op -> TaskRec]]
    BY <2>1, <2>2, GotoType, SetType, FailEarlyType, FailRunType
       DEF Pcs, TypeOK
  <2> QED
    BY <1>18, <2>3
       DEF CancelTake, TypeOK, dbVars, nbiVars, busVars, lcmVars, histVars
<1>19. CASE CancelEnd(w, o)
  <2>1. [op[o] EXCEPT !.state = "FAILED_TEMP"] \in OpRec
    BY <1>0 DEF OpRec, OpStates
  <2>2. op' \in [Op -> OpRec]
    BY <1>19, <2>1 DEF CancelEnd, TypeOK
  <2> QED
    BY <1>19, <2>2
       DEF CancelEnd, TypeOK, dbVars, nbiVars, busVars, lcmVars, histVars
<1>20. CASE CancelEndDied(w, o)
  BY <1>20
     DEF CancelEndDied, TypeOK, dbVars, nbiVars, busVars, lcmVars, histVars
<1> QED
  BY <1>1, <1>2, <1>3, <1>4, <1>5, <1>6, <1>7, <1>8, <1>9, <1>10, <1>11, <1>12,
     <1>13, <1>14, <1>15, <1>16, <1>17, <1>18, <1>19, <1>20
     DEF TaskStep

\* A step of the LCM workers keeps every variable well-typed.
LEMMA LcmNextType == TypeOK /\ LcmNext => TypeOK'
<1> SUFFICES ASSUME TypeOK, LcmNext PROVE TypeOK'
  OBVIOUS
<1>1. ASSUME NEW w \in Worker, NEW o \in Op,
             Deliver(w, o) \/ TaskStep(w, o) \/ WaitTimeout(w, o)
               \/ WorkFails(w, o) \/ CancelTake(w, o)
      PROVE  TypeOK'
  BY <1>1, TaskStepType
<1>2. ASSUME NEW o \in Op, Redeliver(o) PROVE TypeOK'
  BY <1>2 DEF Redeliver, TypeOK, dbVars, nbiVars, busVars, lcmVars, histVars
<1>3. ASSUME NEW o \in Op, Pause(o) PROVE TypeOK'
  <2>1. [op[o] EXCEPT !.stale = TRUE] \in OpRec
    BY OpRecType DEF OpRec
  <2>2. op' \in [Op -> OpRec]
    BY <1>3, <2>1 DEF Pause, TypeOK
  <2> QED
    BY <1>3, <2>2
       DEF Pause, TypeOK, dbVars, nbiVars, busVars, lcmVars, histVars
<1>4. ASSUME NEW w \in Worker, Restart(w) PROVE TypeOK'
  BY <1>4 DEF Restart, TypeOK, dbVars, nbiVars, busVars, lcmVars, histVars
<1>5. ASSUME NEW w \in Worker, NEW committed \in BOOLEAN, Crash(w, committed)
      PROVE  TypeOK'
  <2>1. task' \in [Worker -> [Op -> TaskRec]]
    BY <1>5, NoTaskType DEF Crash, TypeOK
  <2> QED
    BY <1>5, <2>1
       DEF Crash, TypeOK, dbVars, nbiVars, busVars, lcmVars, histVars
<1> QED
  BY <1>1, <1>2, <1>3, <1>4, <1>5 DEF LcmNext

\* Every step, and every stutter, keeps every variable well-typed.
LEMMA NextType == TypeOK /\ [Next]_vars => TypeOK'
<1>1. TypeOK /\ UNCHANGED vars => TypeOK'
  BY DEF vars, TypeOK, dbVars, nbiVars, busVars, lcmVars, histVars
<1> QED
  BY <1>1, NbiNextType, LcmNextType DEF Next

\* Every variable keeps its type.
THEOREM TypeCorrect == Spec => []TypeOK
BY InitType, NextType, PTL DEF Spec

-----------------------------------------------------------------------------
(* The steps that neither lock, nor end a wait, nor create an operation.     *)

\* Locks and start times are kept, no operation is opened (again), and a
\* document neither appears nor becomes absent.
OpFrame ==
    \A p \in Op :
        /\ op'[p].worker = op[p].worker
        /\ op'[p].start = op[p].start
        /\ op'[p].state = "PROCESSING" => op[p].state = "PROCESSING"
        /\ op'[p].state = "ABSENT" <=> op[p].state = "ABSENT"

RecActive(rec) == \/ rec.pc \in {"begin", "mark", "run", "worked"}
                  \/ rec.pc \in FinalPcs /\ rec.begun

\* A coroutine may end, but it neither passes lock_HA nor its wait.
MayBecome(old, new) ==
    /\ new.pc \in LivePcs => old.pc \in LivePcs
    /\ RecActive(new) => RecActive(old)
    /\ new.pc \in {"none", "scheduled", "locked", "waiting"} => ~new.begun

TaskFrame == \A v \in Worker, p \in Op : MayBecome(task[v][p], task'[v][p])

OneWorkerMoves ==
    \/ UNCHANGED task
    \/ \E w \in Worker : \A v \in Worker \ {w} : task'[v] = task[v]

Quiet == OpFrame /\ TaskFrame /\ OneWorkerMoves

\* Whether an operation is at work is read off its coroutine alone.
LEMMA ActiveIsRecActive ==
    \A w \in Worker, o \in Op : ActiveAt(w, o) <=> RecActive(task[w][o])
BY DEF ActiveAt, RecActive

\* A step that moves no coroutine satisfies both frames.
LEMMA UnchangedTaskFrame ==
    ASSUME NotBegunInWait, UNCHANGED task
    PROVE  TaskFrame /\ OneWorkerMoves
BY DEF NotBegunInWait, TaskFrame, MayBecome, OneWorkerMoves

\* One coroutine moves.
LEMMA SetFrame ==
    ASSUME TypeOK, NotBegunInWait, NEW w \in Worker, NEW o \in Op, NEW rec,
           Set(w, o, rec), MayBecome(task[w][o], rec)
    PROVE  TaskFrame /\ OneWorkerMoves
<1>1. task' = [task EXCEPT ![w][o] = rec] /\ task \in [Worker -> [Op -> TaskRec]]
  BY DEF Set, TypeOK
<1>2. \A v \in Worker \ {w} : task'[v] = task[v]
  BY <1>1
<1>3. \A v \in Worker, p \in Op :
         task'[v][p] = IF v = w /\ p = o THEN rec ELSE task[v][p]
  BY <1>1
<1>4. \A v \in Worker, p \in Op : MayBecome(task[v][p], task[v][p])
                                    \/ (v = w /\ p = o)
  BY DEF NotBegunInWait, MayBecome
<1> QED
  BY <1>2, <1>3, <1>4 DEF TaskFrame, OneWorkerMoves

\* A change of stage moves the coroutines of one worker only.
LEMMA GotoFrame ==
    ASSUME TypeOK, NotBegunInWait, NEW w \in Worker, NEW o \in Op,
           NEW pc, Goto(w, o, pc),
           MayBecome(task[w][o], [task[w][o] EXCEPT !.pc = pc])
    PROVE  TaskFrame /\ OneWorkerMoves
<1>1. Set(w, o, [task[w][o] EXCEPT !.pc = pc])
  BY DEF Goto, Set, TypeOK
<1> QED
  BY <1>1, SetFrame

\* A stage change within the same part of the coroutine, or its end.
LEMMA PcMayBecome ==
    ASSUME NEW old \in TaskRec, NEW pc \in Pcs,
           pc \in LivePcs => old.pc \in LivePcs,
           \/ pc \notin {"begin", "mark", "run", "worked"} \cup FinalPcs
           \/ RecActive(old) /\ old.pc \in {"begin", "mark", "run", "worked"}
           \/ pc \in FinalPcs /\ old.pc \in FinalPcs,
           pc \in {"none", "scheduled", "locked", "waiting"} => ~old.begun
    PROVE  MayBecome(old, [old EXCEPT !.pc = pc])
BY DEF MayBecome, RecActive, TaskRec, FinalPcs, LivePcs, Pcs

\* The final write of an operation changes neither lock nor start time.
LEMMA WriteOpStateFrame ==
    ASSUME TypeOK, NEW o \in Op, NEW state \in {"COMPLETED", "FAILED"},
           WriteOpState(o, state)
    PROVE  OpFrame
<1>1. \A p \in Op : op[p] \in OpRec
  BY OpRecType
<1>2. CASE Stored(o)
  <2>1. op' = [op EXCEPT ![o] = [[op[o] EXCEPT !.state = state]
                                   EXCEPT !.stale = FALSE]]
    BY <1>2 DEF WriteOpState, Touched
  <2>2. \A p \in Op \ {o} : op'[p] = op[p]
    BY <2>1 DEF TypeOK
  <2>3. /\ op'[o].worker = op[o].worker /\ op'[o].start = op[o].start
        /\ op'[o].state = state
    BY <1>1, <2>1 DEF TypeOK, OpRec
  <2> QED
    BY <1>2, <2>2, <2>3 DEF OpFrame, Stored
<1>3. CASE ~Stored(o)
  BY <1>3 DEF WriteOpState, OpFrame
<1> QED
  BY <1>2, <1>3

\* Nor does the write of a stage change.
LEMMA WriteOpStageFrame ==
    ASSUME TypeOK, NEW o \in Op, WriteOpStage(o)
    PROVE  OpFrame
<1>1. \A p \in Op : op[p] \in OpRec
  BY OpRecType
<1>2. CASE Stored(o)
  <2>1. op' = [op EXCEPT ![o] = [op[o] EXCEPT !.stale = FALSE]]
    BY <1>2 DEF WriteOpStage, Touched
  <2> QED
    BY <1>1, <2>1 DEF OpFrame, TypeOK, OpRec
<1>3. CASE ~Stored(o)
  BY <1>3 DEF WriteOpStage, OpFrame
<1> QED
  BY <1>2, <1>3

\* An exception before or in the wait, or in the prologue.
LEMMA FailEarlyFrame ==
    ASSUME TypeOK, NotBegunInWait, NEW w \in Worker, NEW o \in Op,
           FailEarly(w, o), task[w][o].pc \in {"waiting", "begin"}
    PROVE  TaskFrame /\ OneWorkerMoves
<1> DEFINE rec == [task[w][o] EXCEPT !.pc = AfterEarlyExc(o), !.exc = TRUE]
<1>1. task[w][o] \in TaskRec
  BY TaskRecType
<1>2. AfterEarlyExc(o) \in {"died", "finNs", "finOp"}
  BY DEF AfterEarlyExc
<1>3. rec.pc = AfterEarlyExc(o) /\ rec.begun = task[w][o].begun
  BY <1>1 DEF TaskRec
<1>4. task[w][o].pc = "waiting" => ~task[w][o].begun
  BY DEF NotBegunInWait
<1>5. MayBecome(task[w][o], rec)
  BY <1>2, <1>3, <1>4 DEF MayBecome, RecActive, FinalPcs, LivePcs, Pcs
<1> QED
  BY <1>5, SetFrame DEF FailEarly

\* An exception in the work does not start or restart an operation.
LEMMA FailRunFrame ==
    ASSUME TypeOK, NotBegunInWait, NEW w \in Worker, NEW o \in Op,
           FailRun(w, o), task[w][o].pc \in {"run", "worked"}
    PROVE  TaskFrame /\ OneWorkerMoves
<1> DEFINE pc == IF op[o].kind = "heal" /\ task[w][o].pc = "run"
                   THEN "died" ELSE "worked"
           rec == [task[w][o] EXCEPT !.exc = TRUE, !.pc = pc]
<1>1. task[w][o] \in TaskRec
  BY TaskRecType
<1>2. pc \in {"died", "worked"}
  OBVIOUS
<1> HIDE DEF pc
<1>3. rec.pc = pc
  BY <1>1 DEF TaskRec
<1>4. MayBecome(task[w][o], rec)
  BY <1>2, <1>3 DEF MayBecome, RecActive, FinalPcs, LivePcs, Pcs
<1> QED
  BY <1>4, SetFrame DEF FailRun, pc

\* Every step of a coroutine, and every callback about it, except the lock and
\* the end of the wait.
LEMMA TaskStepQuiet ==
    ASSUME TypeOK, NotBegunInWait, NEW w \in Worker, NEW o \in Op,
           TaskStep(w, o) \/ WaitTimeout(w, o) \/ WorkFails(w, o)
             \/ CancelTake(w, o) \/ Deliver(w, o),
           ~Lock(w, o), ~PollClear(w, o)
    PROVE  Quiet
<1> DEFINE old == task[w][o]
<1>0. old \in TaskRec /\ \A p \in Op : op[p] \in OpRec
  BY TaskRecType, OpRecType
<1>a. UNCHANGED op => OpFrame
  BY DEF OpFrame
<1> USE DEF LivePcs, Pcs, FinalPcs
<1>1. CASE Deliver(w, o)
  <2>1. MayBecome(old, [NoTask EXCEPT !.pc = "scheduled"])
    BY DEF MayBecome, RecActive, NoTask
  <2> QED
    BY <1>1, <1>a, <2>1, SetFrame DEF Deliver, dbVars, Quiet
<1>2. CASE PollBlocked(w, o)
  <2>1. MayBecome(old, [old EXCEPT !.pc = "waiting"])
    BY <1>0, <1>2, PcMayBecome DEF PollBlocked, NotBegunInWait
  <2> QED
    BY <1>2, <1>a, <2>1, GotoFrame DEF PollBlocked, dbVars, Quiet
<1>3. CASE WaitTimeout(w, o)
  BY <1>3, <1>a, FailEarlyFrame DEF WaitTimeout, dbVars, Quiet
<1>4. CASE BeginInstantiate(w, o)
  <2>1. MayBecome(old, [old EXCEPT !.pc = "mark", !.begun = TRUE])
    BY <1>0, <1>4 DEF BeginInstantiate, MayBecome, RecActive, TaskRec
  <2>2. TaskFrame /\ OneWorkerMoves
    BY <1>4, <2>1, SetFrame, FailEarlyFrame DEF BeginInstantiate
  <2> QED
    BY <1>4, <2>2, WriteOpStageFrame DEF BeginInstantiate, Quiet
<1>5. CASE MarkInstantiated(w, o)
  <2>1. MayBecome(old, [old EXCEPT !.pc = "finNs", !.exc = TRUE])
    BY <1>0, <1>5 DEF MarkInstantiated, MayBecome, RecActive, TaskRec
  <2>2. MayBecome(old, [old EXCEPT !.pc = "run"])
    BY <1>0, <1>5, PcMayBecome DEF MarkInstantiated, RecActive
  <2>3. TaskFrame /\ OneWorkerMoves
    BY <1>5, <2>1, <2>2, SetFrame, GotoFrame DEF MarkInstantiated
  <2> QED
    BY <1>5, <1>a, <2>3 DEF MarkInstantiated, Quiet
<1>6. CASE BeginTerminate(w, o)
  <2> DEFINE pc == IF nsr.admin = "NOT_INSTANTIATED" THEN "finNs" ELSE "run"
  <2>1. MayBecome(old, [old EXCEPT !.begun = TRUE, !.pc = pc])
    BY <1>0, <1>6 DEF BeginTerminate, MayBecome, RecActive, TaskRec
  <2>2. TaskFrame /\ OneWorkerMoves
    BY <1>6, <2>1, SetFrame, FailEarlyFrame DEF BeginTerminate
  <2> QED
    BY <1>6, <1>a, <2>2, WriteOpStageFrame DEF BeginTerminate, Quiet
<1>7. CASE BeginOther(w, o)
  <2>1. MayBecome(old, [old EXCEPT !.pc = "run", !.begun = TRUE,
                                   !.old = nsr.state])
    BY <1>0, <1>7 DEF BeginOther, MayBecome, RecActive, TaskRec
  <2>2. TaskFrame /\ OneWorkerMoves
    BY <1>7, <2>1, SetFrame, FailEarlyFrame DEF BeginOther
  <2> QED
    BY <1>7, <1>a, <2>2 DEF BeginOther, Quiet
<1>8. ASSUME NEW written \in BOOLEAN, Work(w, o, written) PROVE Quiet
  <2>1. MayBecome(old, [old EXCEPT !.pc = "worked"])
    BY <1>0, <1>8, PcMayBecome DEF Work, RecActive
  <2>2. TaskFrame /\ OneWorkerMoves
    BY <1>8, <2>1, GotoFrame DEF Work
  <2> QED
    BY <1>8, <1>a, <2>2, WriteOpStageFrame DEF Work, Quiet
<1>9. CASE WorkDone(w, o)
  <2>1. FinallyPc(o) \in {"finOp", "finNs"}
    BY DEF FinallyPc
  <2>2. MayBecome(old, [old EXCEPT !.pc = FinallyPc(o)])
    BY <1>0, <1>9, <2>1 DEF WorkDone, MayBecome, RecActive, TaskRec
  <2> QED
    BY <1>9, <1>a, <2>2, GotoFrame DEF WorkDone, dbVars, Quiet
<1>10. CASE WorkFails(w, o)
  BY <1>10, <1>a, FailRunFrame DEF WorkFails, dbVars, Quiet
<1>11. CASE FinishNs(w, o)
  <2> DEFINE pc == IF op[o].kind = "scale" THEN "drain" ELSE "finOp"
  <2>1. MayBecome(old, [old EXCEPT !.pc = pc])
    BY <1>0, <1>11, PcMayBecome DEF FinishNs
  <2> QED
    BY <1>11, <1>a, <2>1, GotoFrame DEF FinishNs, Quiet
<1>12. CASE Drain(w, o)
  <2>1. MayBecome(old, [old EXCEPT !.pc = "finOp"])
    BY <1>0, <1>12, PcMayBecome DEF Drain
  <2> QED
    BY <1>12, <1>a, <2>1, GotoFrame DEF Drain, dbVars, Quiet
<1>13. CASE FinishOp(w, o)
  <2>1. \A pc \in {"finNs2", "notify"} : MayBecome(old, [old EXCEPT !.pc = pc])
    BY <1>0, <1>13, PcMayBecome DEF FinishOp
  <2>2. TaskFrame /\ OneWorkerMoves
    BY <1>13, <2>1, GotoFrame DEF FinishOp
  <2> QED
    BY <1>13, <2>2, WriteOpStateFrame DEF FinishOp, Quiet
<1>14. CASE FinishNs2(w, o)
  <2>1. \A pc \in {"died", "notify"} : MayBecome(old, [old EXCEPT !.pc = pc])
    BY <1>0, <1>14, PcMayBecome DEF FinishNs2
  <2> QED
    BY <1>14, <1>a, <2>1, GotoFrame DEF FinishNs2, Quiet
<1>15. CASE Notify(w, o)
  <2>1. MayBecome(old, [NoTask EXCEPT !.pc = "done"])
    BY DEF MayBecome, RecActive, NoTask
  <2> QED
    BY <1>15, <1>a, <2>1, SetFrame DEF Notify, dbVars, Quiet
<1>16. CASE CancelTake(w, o)
  <2>1. ASSUME Goto(w, o, "done") PROVE TaskFrame /\ OneWorkerMoves
    <3>1. MayBecome(old, [old EXCEPT !.pc = "done"])
      BY <1>0, PcMayBecome
    <3> QED
      BY <2>1, <3>1, GotoFrame
  <2>2. ASSUME old.pc = "drain",
               Set(w, o, [old EXCEPT !.pc = "finOp", !.exc = TRUE])
        PROVE  TaskFrame /\ OneWorkerMoves
    <3>1. MayBecome(old, [old EXCEPT !.pc = "finOp", !.exc = TRUE])
      BY <1>0, <2>2 DEF MayBecome, RecActive, TaskRec
    <3> QED
      BY <2>2, <3>1, SetFrame
  <2>3. \/ Goto(w, o, "done")
        \/ old.pc = "waiting" /\ FailEarly(w, o)
        \/ old.pc \in {"run", "worked"} /\ FailRun(w, o)
        \/ old.pc = "drain" /\ Set(w, o, [old EXCEPT !.pc = "finOp",
                                                     !.exc = TRUE])
        \/ UNCHANGED task
    BY <1>16 DEF CancelTake
  <2>4. TaskFrame /\ OneWorkerMoves
    BY <2>1, <2>2, <2>3, FailEarlyFrame, FailRunFrame, UnchangedTaskFrame
  <2> QED
    BY <1>16, <1>a, <2>4 DEF CancelTake, dbVars, Quiet
<1>17. CASE CancelEnd(w, o)
  <2>1. OpFrame
    BY <1>0, <1>17 DEF CancelEnd, OpFrame, OpRec, TypeOK, Stored
  <2> QED
    BY <1>17, <2>1, UnchangedTaskFrame DEF CancelEnd, Quiet
<1>18. CASE CancelEndDied(w, o)
  BY <1>18, <1>a, UnchangedTaskFrame DEF CancelEndDied, dbVars, Quiet
<1> QED
  BY <1>1, <1>2, <1>3, <1>4, <1>5, <1>6, <1>7, <1>8, <1>9, <1>10, <1>11,
     <1>12, <1>13, <1>14, <1>15, <1>16, <1>17, <1>18 DEF TaskStep

\* Only the end of a wait writes excused, and no worker writes nbi.
LEMMA TaskStepHistory ==
    ASSUME NEW w \in Worker, NEW o \in Op,
           TaskStep(w, o) \/ WaitTimeout(w, o) \/ WorkFails(w, o)
             \/ CancelTake(w, o) \/ Deliver(w, o),
           ~PollClear(w, o)
    PROVE  UNCHANGED <<nbi, excused>>
BY DEF TaskStep, Deliver, Lock, PollBlocked, WaitTimeout, BeginInstantiate,
       MarkInstantiated, BeginTerminate, BeginOther, Work, WorkDone, WorkFails,
       FinishNs, Drain, FinishOp, FinishNs2, Notify, CancelTake, CancelEnd,
       CancelEndDied, nbiVars, histVars

\* The other steps of the bus, of a worker as a whole and of time.
LEMMA WorkerStepQuiet ==
    ASSUME TypeOK, NotBegunInWait,
           \/ \E o \in Op : Redeliver(o) \/ Pause(o)
           \/ \E w \in Worker : \/ Restart(w)
                                \/ \E committed \in BOOLEAN : Crash(w, committed)
    PROVE  Quiet /\ UNCHANGED <<nbi, excused>>
<1>a. UNCHANGED op => OpFrame
  BY DEF OpFrame
<1>1. ASSUME NEW o \in Op, Redeliver(o)
      PROVE  Quiet /\ UNCHANGED <<nbi, excused>>
  BY <1>1, <1>a, UnchangedTaskFrame
     DEF Redeliver, dbVars, nbiVars, lcmVars, histVars, Quiet
<1>2. ASSUME NEW o \in Op, Pause(o)
      PROVE  Quiet /\ UNCHANGED <<nbi, excused>>
  <2>1. OpFrame
    BY <1>2, OpRecType DEF Pause, OpFrame, OpRec, TypeOK
  <2> QED
    BY <1>2, <2>1, UnchangedTaskFrame
       DEF Pause, nbiVars, lcmVars, histVars, Quiet
<1>3. ASSUME NEW w \in Worker, Restart(w)
      PROVE  Quiet /\ UNCHANGED <<nbi, excused>>
  BY <1>3, <1>a, UnchangedTaskFrame
     DEF Restart, dbVars, nbiVars, histVars, Quiet
<1>4. ASSUME NEW w \in Worker, NEW committed \in BOOLEAN, Crash(w, committed)
      PROVE  Quiet /\ UNCHANGED <<nbi, excused>>
  <2>1. task' = [task EXCEPT ![w] = [o \in Op |-> NoTask]]
    BY <1>4 DEF Crash
  <2>2. \A v \in Worker, p \in Op :
           task'[v][p] = IF v = w THEN NoTask ELSE task[v][p]
    BY <2>1 DEF TypeOK
  <2>3. \A v \in Worker \ {w} : task'[v] = task[v]
    BY <2>1 DEF TypeOK
  <2>4. \A v \in Worker, p \in Op : MayBecome(task[v][p], task[v][p])
    BY DEF NotBegunInWait, MayBecome
  <2>5. \A v \in Worker, p \in Op : MayBecome(task[v][p], NoTask)
    BY DEF MayBecome, RecActive, NoTask, LivePcs, FinalPcs
  <2>6. TaskFrame /\ OneWorkerMoves
    BY <2>2, <2>3, <2>4, <2>5 DEF TaskFrame, OneWorkerMoves
  <2> QED
    BY <1>4, <1>a, <2>6 DEF Crash, dbVars, nbiVars, histVars, Quiet
<1> QED
  BY <1>1, <1>2, <1>3, <1>4

\* What NBI does never touches a coroutine.
LEMMA NbiLeavesTasks ==
    ASSUME NbiNext
    PROVE  UNCHANGED <<task, excused>>
BY DEF NbiNext, NbiCheck, NbiStamp, NbiStore, NbiSend, NbiSendFails,
       NbiRollback, NbiCancelCheck, NbiCancelSend, NbiDeleteCheck, NbiDeleteNsr,
       NbiDeleteOps, lcmVars, histVars

-----------------------------------------------------------------------------
(* The invariant                                                            *)

\* The inductive invariant holds initially: no coroutine exists.
LEMMA InitInv == Init => LcmInv
<1> SUFFICES ASSUME Init PROVE LcmInv
  OBVIOUS
<1>1. \A w \in Worker, o \in Op : task[w][o] = NoTask
  BY DEF Init
<1>2. \A o \in Op : op[o].state = "ABSENT" /\ op[o].worker = NoWorker
  BY DEF Init
<1>3. \A w \in Worker, o \in Op : ~ActiveAt(w, o)
  BY <1>1 DEF ActiveAt, FinalPcs, NoTask
<1>4. OneRunner /\ NotBegunInWait
  BY <1>1 DEF OneRunner, NotBegunInWait, NoTask, LivePcs
<1>5. UnstoredIsFree
  BY <1>2 DEF Init, UnstoredIsFree
<1>6. AbsentIsExcused /\ StartsInOrder
  BY <1>3 DEF AbsentIsExcused, StartsInOrder, Active
<1> QED
  BY InitType, <1>4, <1>5, <1>6 DEF LcmInv

\* A quiet step keeps every conjunct.
LEMMA QuietKeeps ==
    ASSUME LcmInv, TypeOK', Quiet, UNCHANGED <<nbi, excused>>
    PROVE  LcmInv'
<1>1. OneRunner'
  BY DEF LcmInv, Quiet, OneRunner, OpFrame, TaskFrame, MayBecome
<1>2. NotBegunInWait'
  BY DEF Quiet, NotBegunInWait, TaskFrame, MayBecome
<1>3. UnstoredIsFree'
  BY DEF LcmInv, Quiet, UnstoredIsFree, OpFrame
<1>4. \A o \in Op : Active(o)' => Active(o)
  <2>1. ASSUME NEW w \in Worker, NEW o \in Op, ActiveAt(w, o)'
        PROVE  ActiveAt(w, o)
    BY <2>1 DEF Quiet, TaskFrame, MayBecome, ActiveAt, RecActive
  <2> QED
    BY <2>1 DEF Active
<1>5. AbsentIsExcused'
  BY <1>4 DEF LcmInv, Quiet, AbsentIsExcused, OpFrame
<1>6. StartsInOrder'
  BY <1>4 DEF LcmInv, Quiet, StartsInOrder, OpFrame, InProgress
<1> QED
  BY <1>1, <1>2, <1>3, <1>5, <1>6 DEF LcmInv

\* lock_HA: the loser ends, the winner was alone.
LEMMA LockKeeps ==
    ASSUME LcmInv, TypeOK', NEW w \in Worker, NEW o \in Op, Lock(w, o)
    PROVE  LcmInv'
<1>0. TypeOK /\ \A p \in Op : op[p] \in OpRec
  BY OpRecType DEF LcmInv
<1>1. ASSUME NEW v \in Worker, NEW p \in Op
      PROVE  /\ v # w \/ p # o => task'[v][p] = task[v][p]
             /\ task'[w][o].pc \in {"locked", "done"}
             /\ task'[w][o].begun = task[w][o].begun
  <2>1. \E pc \in {"locked", "done"} : task' = [task EXCEPT ![w][o].pc = pc]
    BY DEF Lock, Goto
  <2> QED
    BY <1>0, <2>1, TaskRecType DEF TypeOK, TaskRec
<1>2. CASE Stored(o) /\ op[o].worker = NoWorker
  <2>1. op' = [op EXCEPT ![o].worker = w]
    BY <1>2 DEF Lock
  <2>2. \A p \in Op : /\ op'[p].state = op[p].state
                      /\ op'[p].start = op[p].start
                      /\ p # o => op'[p].worker = op[p].worker
    BY <1>0, <2>1 DEF TypeOK, OpRec
  <2>3. op'[o].worker = w
    BY <1>0, <2>1 DEF TypeOK, OpRec
  <2>4. \A v \in Worker : task[v][o].pc \notin LivePcs
    BY <1>2, NoneAssumption DEF LcmInv, OneRunner
  <2>5. OneRunner'
    BY <1>1, <2>2, <2>3, <2>4 DEF LcmInv, OneRunner
  <2>6. UnstoredIsFree'
    BY <1>2, <2>2 DEF LcmInv, UnstoredIsFree, Lock, nbiVars, Stored
  <2>7. UNCHANGED excused
    BY DEF Lock, histVars
  <2>8. \A p \in Op : Active(p)' => Active(p)
    BY <1>1 DEF Active, ActiveAt, FinalPcs
  <2>9. AbsentIsExcused' /\ StartsInOrder'
    BY <2>2, <2>7, <2>8
       DEF LcmInv, AbsentIsExcused, StartsInOrder, InProgress
  <2>10. NotBegunInWait'
    BY <1>1 DEF LcmInv, NotBegunInWait, Lock
  <2> QED
    BY <2>5, <2>6, <2>9, <2>10 DEF LcmInv
<1>3. CASE ~(Stored(o) /\ op[o].worker = NoWorker)
  <2>1. MayBecome(task[w][o], [task[w][o] EXCEPT !.pc = "done"])
    BY <1>0, TaskRecType, PcMayBecome DEF LivePcs, Pcs, FinalPcs
  <2>2. TaskFrame /\ OneWorkerMoves
    BY <1>3, <2>1, GotoFrame DEF Lock, LcmInv
  <2> QED
    BY <1>3, <2>2, QuietKeeps
       DEF Lock, nbiVars, histVars, Quiet, OpFrame
<1> QED
  BY <1>2, <1>3

\* The end of the wait: what is still in progress was filtered out.
LEMMA PollClearKeeps ==
    ASSUME LcmInv, TypeOK', NEW w \in Worker, NEW o \in Op, PollClear(w, o)
    PROVE  LcmInv'
<1>0. TypeOK
  BY DEF LcmInv
<1>1. ASSUME NEW v \in Worker, NEW p \in Op
      PROVE  /\ v # w \/ p # o => task'[v][p] = task[v][p]
             /\ task'[w][o].pc = "begin"
             /\ task[w][o].pc \in {"locked", "waiting"}
  BY <1>0, TaskRecType DEF PollClear, Goto, TypeOK, TaskRec
<1>2. UNCHANGED <<op, nbi>>
  BY DEF PollClear, dbVars, nbiVars
<1>3. OneRunner' /\ NotBegunInWait' /\ UnstoredIsFree'
  BY <1>1, <1>2
     DEF LcmInv, OneRunner, NotBegunInWait, UnstoredIsFree, LivePcs, Pcs
<1>4. \A p \in Op \ {o} : (Active(p)' => Active(p)) /\ excused'[p] = excused[p]
  BY <1>0, <1>1 DEF Active, ActiveAt, PollClear, TypeOK
<1>5. excused'[o] = Unseen(o)
  BY <1>0 DEF PollClear, TypeOK
<1>6. \A p \in Op : op[p].state = "ABSENT" => p \in Unseen(o)
  BY DEF Unseen, Stored
<1>7. \A p \in Op : (InProgress(p) /\ op[p].start < op[o].start)
                      => p \in Unseen(o)
  <2>1. CASE Stored(o)
    <3>1. Blockers(o) = {}
      BY <2>1 DEF PollClear
    <3> QED
      BY <2>1, <3>1 DEF Blockers, Unseen
  <2>2. CASE ~Stored(o)
    BY <2>2 DEF Unseen
  <2> QED
    BY <2>1, <2>2
<1>8. AbsentIsExcused'
  BY <1>2, <1>4, <1>5, <1>6 DEF LcmInv, AbsentIsExcused
<1>9. StartsInOrder'
  BY <1>2, <1>4, <1>5, <1>7 DEF LcmInv, StartsInOrder, InProgress
<1> QED
  BY <1>3, <1>8, <1>9 DEF LcmInv

\* NBI creates, cancels and removes.
LEMMA NbiKeeps ==
    ASSUME LcmInv, TypeOK', NbiNext
    PROVE  LcmInv'
<1>0. TypeOK /\ \A p \in Op : op[p] \in OpRec
  BY OpRecType DEF LcmInv
<1>1. UNCHANGED <<task, excused>>
  BY NbiLeavesTasks
<1>2. TaskFrame /\ OneWorkerMoves
  BY <1>1, UnchangedTaskFrame DEF LcmInv
<1>3. \A p \in Op : Active(p)' <=> Active(p)
  BY <1>1 DEF Active, ActiveAt
<1>4. NotBegunInWait'
  BY <1>1 DEF LcmInv, NotBegunInWait
\* Nobody runs an operation that NBI has not stored.
<1>5. \A p \in Op : nbi[p] \in {"idle", "checked", "stamped"} => ~Active(p)
  <2>1. \A v \in Worker, p \in Op : ActiveAt(v, p) => op[p].worker = v
    BY DEF LcmInv, OneRunner, ActiveAt, LivePcs, Pcs, FinalPcs
  <2> QED
    BY <2>1, NoneAssumption DEF LcmInv, UnstoredIsFree, Active
<1>6. ASSUME NEW o \in Op, NEW kind \in Kinds, NEW force \in ForceFlags,
             NbiCheck(o, kind, force)
      PROVE  LcmInv'
  <2>1. op' = [op EXCEPT ![o].kind = kind]
    BY <1>6 DEF NbiCheck
  <2>2. \A p \in Op : /\ op'[p].state = op[p].state
                      /\ op'[p].start = op[p].start
                      /\ op'[p].worker = op[p].worker
    BY <1>0, <2>1 DEF TypeOK, OpRec
  <2>3. nbi[o] = "idle" /\ nbi' = [nbi EXCEPT ![o] = "checked"]
    BY <1>6 DEF NbiCheck
  <2>4. UnstoredIsFree'
    <3>1. \A p \in Op : nbi'[p] = IF p = o THEN "checked" ELSE nbi[p]
      BY <1>0, <2>3 DEF TypeOK
    <3> QED
      BY <2>2, <2>3, <3>1 DEF LcmInv, UnstoredIsFree
  <2>5. OneRunner' /\ AbsentIsExcused' /\ StartsInOrder'
    BY <1>1, <1>3, <2>2
       DEF LcmInv, OneRunner, AbsentIsExcused, StartsInOrder, InProgress
  <2> QED
    BY <1>4, <2>4, <2>5 DEF LcmInv
<1>7. ASSUME NEW o \in Op, NbiStamp(o) PROVE LcmInv'
  <2>1. op' = [op EXCEPT ![o].start = clock + 1]
    BY <1>7 DEF NbiStamp
  <2>2. \A p \in Op : /\ op'[p].state = op[p].state
                      /\ op'[p].worker = op[p].worker
                      /\ p # o => op'[p].start = op[p].start
    BY <1>0, <2>1 DEF TypeOK, OpRec
  <2>3. nbi[o] = "checked" /\ nbi' = [nbi EXCEPT ![o] = "stamped"]
    BY <1>7 DEF NbiStamp
  <2>4. UnstoredIsFree'
    <3>1. \A p \in Op : nbi'[p] = IF p = o THEN "stamped" ELSE nbi[p]
      BY <1>0, <2>3 DEF TypeOK
    <3> QED
      BY <2>2, <2>3, <3>1 DEF LcmInv, UnstoredIsFree
  <2>5. ~Active(o) /\ op[o].state = "ABSENT"
    BY <1>5, <2>3 DEF LcmInv, UnstoredIsFree
  <2>6. OneRunner' /\ AbsentIsExcused'
    BY <1>1, <1>3, <2>2 DEF LcmInv, OneRunner, AbsentIsExcused
  <2>7. StartsInOrder'
    BY <1>1, <1>3, <2>2, <2>5 DEF LcmInv, StartsInOrder, InProgress
  <2> QED
    BY <1>4, <2>4, <2>6, <2>7 DEF LcmInv
<1>8. ASSUME NEW o \in Op, NbiStore(o) PROVE LcmInv'
  <2>1. op' = [op EXCEPT ![o].state = "PROCESSING"]
    BY <1>8 DEF NbiStore
  <2>2. \A p \in Op : /\ op'[p].worker = op[p].worker
                      /\ op'[p].start = op[p].start
                      /\ op'[p].state = IF p = o THEN "PROCESSING"
                                                ELSE op[p].state
    BY <1>0, <2>1 DEF TypeOK, OpRec
  <2>3. nbi[o] = "stamped" /\ nbi' = [nbi EXCEPT ![o] = "stored"]
    BY <1>8 DEF NbiStore
  <2>4. UnstoredIsFree'
    <3>1. \A p \in Op : nbi'[p] = IF p = o THEN "stored" ELSE nbi[p]
      BY <1>0, <2>3 DEF TypeOK
    <3> QED
      BY <2>2, <2>3, <3>1 DEF LcmInv, UnstoredIsFree
  <2>5. op[o].state = "ABSENT"
    BY <2>3 DEF LcmInv, UnstoredIsFree
  <2>6. OneRunner' /\ AbsentIsExcused'
    BY <1>1, <1>3, <2>2 DEF LcmInv, OneRunner, AbsentIsExcused
  <2>7. StartsInOrder'
    BY <1>1, <1>3, <2>2, <2>5
       DEF LcmInv, StartsInOrder, AbsentIsExcused, InProgress
  <2> QED
    BY <1>4, <2>4, <2>6, <2>7 DEF LcmInv
<1>9. ASSUME OpFrame, UNCHANGED nbi PROVE LcmInv'
  BY <1>1, <1>2, <1>9, QuietKeeps DEF Quiet
<1>10. ASSUME OpFrame, NEW o \in Op, nbi[o] \in {"stored", "unsent"},
              \E s \in {"sent", "unsent", "refused"} :
                 nbi' = [nbi EXCEPT ![o] = s]
       PROVE  LcmInv'
  <2>1. \A p \in Op : nbi'[p] \in {"idle", "checked", "stamped"}
                        <=> nbi[p] \in {"idle", "checked", "stamped"}
    BY <1>0, <1>10 DEF TypeOK
  <2>2. UnstoredIsFree'
    BY <1>10, <2>1 DEF LcmInv, UnstoredIsFree, OpFrame
  <2>3. OneRunner' /\ AbsentIsExcused' /\ StartsInOrder'
    BY <1>1, <1>3, <1>10
       DEF LcmInv, OneRunner, AbsentIsExcused, StartsInOrder, InProgress,
           OpFrame
  <2> QED
    BY <1>4, <2>2, <2>3 DEF LcmInv
<1>11. UNCHANGED op => OpFrame
  BY DEF OpFrame
<1>12. ASSUME NEW o \in Op, NbiSend(o) PROVE LcmInv'
  BY <1>10, <1>11, <1>12 DEF NbiSend, dbVars
<1>13. ASSUME NEW o \in Op, NbiRollback(o) PROVE LcmInv'
  <2>1. op[o].state # "ABSENT"
    BY <1>13 DEF NbiRollback, LcmInv, UnstoredIsFree
  <2>2. OpFrame
    BY <1>0, <1>13, <2>1 DEF NbiRollback, OpFrame, OpRec, TypeOK
  <2> QED
    BY <1>10, <1>13, <2>2 DEF NbiRollback
<1>16. ASSUME NEW o \in Op, NEW published \in BOOLEAN,
              NbiSendFails(o, published)
       PROVE  LcmInv'
  BY <1>10, <1>11, <1>16 DEF NbiSendFails, dbVars
<1>14. CASE NbiDeleteOps
  <2>1. OpFrame
    BY <1>0, <1>14 DEF NbiDeleteOps, OpFrame, OpRec, Stored
  <2> QED
    BY <1>9, <1>14, <2>1 DEF NbiDeleteOps
<1>15. CASE \/ \E o \in Op : NbiCancelCheck(o) \/ NbiCancelSend(o)
            \/ \E force \in ForceFlags : NbiDeleteCheck(force)
            \/ NbiDeleteNsr
  BY <1>9, <1>11, <1>15
     DEF NbiCancelCheck, NbiCancelSend, NbiDeleteCheck, NbiDeleteNsr, dbVars,
         nbiVars
<1> QED
  BY <1>6, <1>7, <1>8, <1>12, <1>13, <1>14, <1>15, <1>16 DEF NbiNext

\* Every step keeps the inductive invariant.
LEMMA NextInv == LcmInv /\ [Next]_vars => LcmInv'
<1> SUFFICES ASSUME LcmInv, [Next]_vars PROVE LcmInv'
  OBVIOUS
<1>0. TypeOK /\ NotBegunInWait
  BY DEF LcmInv
<1>1. TypeOK'
  BY <1>0, NextType
<1>2. CASE UNCHANGED vars
  <2>1. Quiet /\ UNCHANGED <<nbi, excused>>
    BY <1>0, <1>2, UnchangedTaskFrame
       DEF vars, dbVars, nbiVars, lcmVars, histVars, Quiet, OpFrame
  <2> QED
    BY <1>1, <2>1, QuietKeeps
<1>3. CASE NbiNext
  BY <1>1, <1>3, NbiKeeps
<1>4. CASE LcmNext
  <2>1. ASSUME NEW w \in Worker, NEW o \in Op,
               TaskStep(w, o) \/ WaitTimeout(w, o) \/ WorkFails(w, o)
                 \/ CancelTake(w, o) \/ Deliver(w, o)
        PROVE  LcmInv'
    <3>1. CASE Lock(w, o)
      BY <1>1, <3>1, LockKeeps
    <3>2. CASE PollClear(w, o)
      BY <1>1, <3>2, PollClearKeeps
    <3>3. CASE ~Lock(w, o) /\ ~PollClear(w, o)
      BY <1>0, <1>1, <2>1, <3>3, TaskStepQuiet, TaskStepHistory, QuietKeeps
    <3> QED
      BY <3>1, <3>2, <3>3
  <2>2. CASE \/ \E o \in Op : Redeliver(o) \/ Pause(o)
             \/ \E w \in Worker :
                   \/ Restart(w)
                   \/ \E committed \in BOOLEAN : Crash(w, committed)
    BY <1>0, <1>1, <2>2, WorkerStepQuiet, QuietKeeps
  <2> QED
    BY <1>4, <2>1, <2>2 DEF LcmNext
<1> QED
  BY <1>2, <1>3, <1>4 DEF Next

\* The inductive invariant holds in every reachable state.
THEOREM Invariance == Spec => []LcmInv
BY InitInv, NextInv, PTL DEF Spec

\* At most one worker runs an operation, and _admin.worker names it, whatever
\* is redelivered, cancelled, crashed or restarted (lock_HA).
THEOREM Exclusion == Spec => []OneRunner
<1>1. LcmInv => OneRunner
  BY DEF LcmInv
<1> QED
  BY <1>1, Invariance, PTL

\* No operation works on the NS beside an earlier one in progress that its
\* wait could see (waitfor_related_HA).
THEOREM Ordering == Spec => []StartsInOrder
<1>1. LcmInv => StartsInOrder
  BY DEF LcmInv
<1> QED
  BY <1>1, Invariance, PTL

-----------------------------------------------------------------------------
(* The refinement of NsOpOnce                                               *)

\* Initially every operation is open in the abstract specification.
LEMMA InitOnce == Init => Once!OnceInit
BY DEF Init, Once!OnceInit, runnerBar, stageBar, RunningSomewhere, NoTask,
       LivePcs

\* Operations that end in one step were run by the same worker.
LEMMA QuietOnce ==
    ASSUME LcmInv, LcmInv', Quiet
    PROVE  \/ \E S \in SUBSET Op : Once!End(S)
           \/ UNCHANGED <<runnerBar, stageBar>>
<1> DEFINE Ended == {o \in Op : RunningSomewhere(o) /\ ~RunningSomewhere(o)'}
<1>1. UNCHANGED runnerBar
  BY DEF Quiet, OpFrame, runnerBar
<1>2. \A o \in Op : RunningSomewhere(o)' => RunningSomewhere(o)
  BY DEF Quiet, TaskFrame, MayBecome, RunningSomewhere
<1>3. \A o \in Op : RunningSomewhere(o) => op[o].worker \in Worker
  BY DEF RunningSomewhere, LcmInv, OneRunner
<1>4. stageBar' = [o \in Op |-> IF o \in Ended THEN "over" ELSE stageBar[o]]
  BY <1>2, <1>3, NoneAssumption DEF stageBar, Quiet, OpFrame
<1>5. \A o \in Ended : stageBar[o] = "running"
  BY DEF stageBar
<1>6. \A o, p \in Ended : runnerBar[o] = runnerBar[p]
  <2>1. CASE UNCHANGED task
    BY <2>1 DEF RunningSomewhere
  <2>2. ASSUME NEW w \in Worker, \A v \in Worker \ {w} : task'[v] = task[v]
        PROVE  \A o \in Ended : op[o].worker = w
    BY <2>2 DEF RunningSomewhere, LcmInv, OneRunner
  <2> QED
    BY <2>1, <2>2 DEF Quiet, OneWorkerMoves, runnerBar
<1>7. CASE Ended = {}
  <2>1. stageBar' = stageBar
    BY <1>4, <1>7 DEF stageBar
  <2> QED
    BY <1>1, <2>1
<1>8. CASE Ended # {}
  BY <1>1, <1>4, <1>5, <1>6, <1>8 DEF Once!End
<1> QED
  BY <1>7, <1>8

\* lock_HA is the Take of the abstract specification, or a stutter.
LEMMA LockOnce ==
    ASSUME LcmInv, NEW w \in Worker, NEW o \in Op, Lock(w, o)
    PROVE  Once!Take(o, w) \/ UNCHANGED <<runnerBar, stageBar>>
<1>0. TypeOK /\ \A p \in Op : op[p] \in OpRec
  BY OpRecType DEF LcmInv
<1>1. ASSUME NEW pc \in Pcs, task' = [task EXCEPT ![w][o].pc = pc],
             NEW v \in Worker, NEW p \in Op
      PROVE  task'[v][p].pc = IF v = w /\ p = o THEN pc ELSE task[v][p].pc
  BY <1>0, <1>1, TaskRecType DEF TypeOK, TaskRec
<1>2. task[w][o].pc = "scheduled"
  BY DEF Lock
<1>3. \A p \in Op \ {o} : RunningSomewhere(p)' <=> RunningSomewhere(p)
  <2>1. \E pc \in Pcs : task' = [task EXCEPT ![w][o].pc = pc]
    BY DEF Lock, Goto, Pcs
  <2> QED
    BY <1>1, <2>1 DEF RunningSomewhere
<1>4. CASE Stored(o) /\ op[o].worker = NoWorker
  <2>1. op' = [op EXCEPT ![o].worker = w]
    BY <1>4 DEF Lock
  <2>2. \A p \in Op : op'[p].worker = IF p = o THEN w ELSE op[p].worker
    BY <1>0, <2>1 DEF TypeOK, OpRec
  <2>3. task' = [task EXCEPT ![w][o].pc = "locked"]
    BY <1>4 DEF Lock, Goto
  <2>4. RunningSomewhere(o)'
    BY <1>1, <2>3 DEF RunningSomewhere, LivePcs, Pcs
  <2>5. ~RunningSomewhere(o)
    BY <1>4, NoneAssumption DEF RunningSomewhere, LcmInv, OneRunner
  <2>6. runnerBar[o] = NoWorker /\ stageBar[o] = "open"
    BY <1>4, <2>5 DEF runnerBar, stageBar
  <2>7. runnerBar' = [runnerBar EXCEPT ![o] = w]
    BY <2>2 DEF runnerBar
  <2>8. stageBar' = [stageBar EXCEPT ![o] = "running"]
    BY <1>3, <2>2, <2>4 DEF stageBar
  <2> QED
    BY <2>6, <2>7, <2>8 DEF Once!Take
<1>5. CASE ~(Stored(o) /\ op[o].worker = NoWorker)
  <2>1. UNCHANGED op /\ task' = [task EXCEPT ![w][o].pc = "done"]
    BY <1>5 DEF Lock, Goto
  <2>2. RunningSomewhere(o)' <=> RunningSomewhere(o)
    BY <1>1, <1>2, <2>1 DEF RunningSomewhere, LivePcs, Pcs
  <2> QED
    BY <1>3, <2>1, <2>2 DEF runnerBar, stageBar
<1> QED
  BY <1>4, <1>5

\* The end of a wait is a stutter of the abstract specification.
LEMMA PollClearOnce ==
    ASSUME LcmInv, NEW w \in Worker, NEW o \in Op, PollClear(w, o)
    PROVE  UNCHANGED <<runnerBar, stageBar>>
<1>1. UNCHANGED op /\ task' = [task EXCEPT ![w][o].pc = "begin"]
  BY DEF PollClear, dbVars, Goto
<1>2. ASSUME NEW v \in Worker, NEW p \in Op
      PROVE  task'[v][p].pc \in LivePcs <=> task[v][p].pc \in LivePcs
  <2>1. task[w][o].pc \in LivePcs
    BY DEF PollClear, LivePcs, Pcs
  <2>2. TypeOK
    BY DEF LcmInv
  <2>3. task'[v][p].pc = IF v = w /\ p = o THEN "begin" ELSE task[v][p].pc
    BY <1>1, <2>2, TaskRecType DEF TypeOK, TaskRec
  <2> QED
    BY <2>1, <2>3 DEF LivePcs, Pcs
<1> QED
  BY <1>1, <1>2 DEF runnerBar, stageBar, RunningSomewhere

\* What NBI does is a stutter of the abstract specification.
LEMMA NbiOnce ==
    ASSUME LcmInv, NbiNext
    PROVE  UNCHANGED <<runnerBar, stageBar>>
<1>0. TypeOK /\ \A p \in Op : op[p] \in OpRec
  BY OpRecType DEF LcmInv
<1>1. UNCHANGED task
  BY NbiLeavesTasks
<1>2. \A p \in Op : op'[p].worker = op[p].worker
  <2>1. \/ UNCHANGED op
        \/ \E o \in Op : \/ \E kind \in Kinds : op' = [op EXCEPT ![o].kind = kind]
                         \/ op' = [op EXCEPT ![o].start = clock + 1]
                         \/ \E state \in OpStates :
                               op' = [op EXCEPT ![o].state = state]
        \/ NbiDeleteOps
    BY DEF NbiNext, NbiCheck, NbiStamp, NbiStore, NbiSend, NbiSendFails,
           NbiRollback, NbiCancelCheck, NbiCancelSend, NbiDeleteCheck, NbiDeleteNsr,
           dbVars, OpStates
  <2>2. CASE NbiDeleteOps
    BY <1>0, <2>2 DEF NbiDeleteOps, OpRec
  <2>3. ASSUME NEW o \in Op, NEW kind \in Kinds,
               op' = [op EXCEPT ![o].kind = kind]
        PROVE  \A p \in Op : op'[p].worker = op[p].worker
    BY <1>0, <2>3 DEF TypeOK, OpRec
  <2>4. ASSUME NEW o \in Op, op' = [op EXCEPT ![o].start = clock + 1]
        PROVE  \A p \in Op : op'[p].worker = op[p].worker
    BY <1>0, <2>4 DEF TypeOK, OpRec
  <2>5. ASSUME NEW o \in Op, NEW state \in OpStates,
               op' = [op EXCEPT ![o].state = state]
        PROVE  \A p \in Op : op'[p].worker = op[p].worker
    BY <1>0, <2>5 DEF TypeOK, OpRec
  <2> QED
    BY <2>1, <2>2, <2>3, <2>4, <2>5
<1> QED
  BY <1>1, <1>2 DEF runnerBar, stageBar, RunningSomewhere

\* Every step implements a step or a stutter of the abstract one.
LEMMA StepOnce ==
    LcmInv /\ LcmInv' /\ [Next]_vars
        => [Once!OnceNext]_<<runnerBar, stageBar>>
<1> SUFFICES ASSUME LcmInv, LcmInv', [Next]_vars
             PROVE  Once!OnceNext \/ UNCHANGED <<runnerBar, stageBar>>
  OBVIOUS
<1>0. TypeOK /\ NotBegunInWait
  BY DEF LcmInv
<1>1. CASE UNCHANGED vars
  BY <1>1 DEF vars, dbVars, lcmVars, runnerBar, stageBar, RunningSomewhere
<1>2. CASE NbiNext
  BY <1>2, NbiOnce
<1>3. CASE LcmNext
  <2>1. ASSUME Quiet
        PROVE  Once!OnceNext \/ UNCHANGED <<runnerBar, stageBar>>
    BY <2>1, QuietOnce DEF Once!OnceNext
  <2>2. ASSUME NEW w \in Worker, NEW o \in Op,
               TaskStep(w, o) \/ WaitTimeout(w, o) \/ WorkFails(w, o)
                 \/ CancelTake(w, o) \/ Deliver(w, o)
        PROVE  Once!OnceNext \/ UNCHANGED <<runnerBar, stageBar>>
    <3>1. CASE Lock(w, o)
      BY <3>1, LockOnce DEF Once!OnceNext
    <3>2. CASE PollClear(w, o)
      BY <3>2, PollClearOnce
    <3>3. CASE ~Lock(w, o) /\ ~PollClear(w, o)
      BY <1>0, <2>1, <2>2, <3>3, TaskStepQuiet
    <3> QED
      BY <3>1, <3>2, <3>3
  <2>3. CASE \/ \E o \in Op : Redeliver(o) \/ Pause(o)
             \/ \E w \in Worker :
                   \/ Restart(w)
                   \/ \E committed \in BOOLEAN : Crash(w, committed)
    BY <1>0, <2>1, <2>3, WorkerStepQuiet
  <2> QED
    BY <1>3, <2>2, <2>3 DEF LcmNext
<1> QED
  BY <1>1, <1>2, <1>3 DEF Next

\* NBI, bus, database and workers together implement NsOpOnce.
THEOREM Refinement == Spec => ImplementsOnce
BY InitOnce, Invariance, StepOnce, PTL DEF Spec, ImplementsOnce, Once!OnceSpec

-----------------------------------------------------------------------------
(* What a step does, field by field.  t and u are the coroutine before and   *)
(* after its step, k is the kind of its operation.                           *)

\* The coroutine of o at w is the only one that moves, and its document the only
\* one that is written.
Steps(w, o) ==
    /\ \A v \in Worker, p \in Op : v # w \/ p # o => task'[v][p] = task[v][p]
    /\ \A p \in Op : op'[p].kind = op[p].kind
    /\ \A p \in Op \ {o} : /\ op'[p].state = op[p].state
                           /\ op'[p].worker = op[p].worker
    /\ UNCHANGED <<nbi, del, crashes>>

SameDoc(o) == op'[o].state = op[o].state /\ op'[o].worker = op[o].worker

SameHistory == UNCHANGED <<overlap, raced>>

Same(t, u) == u.exc = t.exc /\ u.begun = t.begun /\ u.old = t.old

\* The nsr, if it is there, gets these fields.
Writes(state, admin, cur) ==
    /\ nsr'.exists = nsr.exists
    /\ nsr.exists =>
          nsr'.state = state /\ nsr'.admin = admin /\ nsr'.cur = cur

\* Where an exception outside of the work leads.
EarlyEnd(t, u, k) ==
    /\ u.exc /\ u.begun = t.begun
    /\ k \in {"update", "heal"} => u.pc = "died"
    /\ k \in {"scale", "migrate"} => u.pc = "finNs"
    /\ k \notin {"update", "heal", "scale", "migrate"} => u.pc = "finOp"

\* Between delivery and the last wait, whatever writes nothing.
Moves(t, u, k) ==
    /\ UNCHANGED <<nsr, vim>>
    /\ \/ t.pc \in {"scheduled", "notify"} /\ u.pc = "done"
       \/ /\ t.pc \in {"none", "done", "died"}
          /\ u.pc = "scheduled" /\ ~u.exc /\ ~u.begun
       \/ t.pc = "locked" /\ u.pc = "waiting" /\ Same(t, u)
       \/ t.pc = "waiting" /\ EarlyEnd(t, u, k)
       \/ /\ t.pc \in {"run", "worked"} /\ u.exc
          /\ u.begun = t.begun /\ u.old = t.old
          /\ u.pc = IF k = "heal" /\ t.pc = "run" THEN "died" ELSE "worked"
       \/ /\ t.pc = "worked" /\ Same(t, u)
          /\ u.pc = IF k = "heal" THEN "finOp" ELSE "finNs"
       \/ t.pc = "drain" /\ u.pc = "finOp" /\ u.begun = t.begun

\* lock_HA succeeds.
Locks(t, u, w, o) ==
    /\ UNCHANGED <<nsr, vim>>
    /\ t.pc = "scheduled" /\ u.pc = "locked" /\ Same(t, u)
    /\ Stored(o) /\ op[o].worker = NoWorker
    /\ op'[o].state = op[o].state /\ op'[o].worker = w

\* The wait is over.
Clears(t, u, o) ==
    /\ UNCHANGED <<nsr, vim>>
    /\ t.pc \in {"locked", "waiting"} /\ u.pc = "begin" /\ Same(t, u)
    /\ ~overlap' => ~overlap /\ \A p \in Op \ {o} : ~Active(p)
    /\ ~raced' => ~raced /\ del # "checked"

\* An exception in the prologue.
BeginFails(t, u, k, o) ==
    /\ UNCHANGED vim
    /\ t.pc = "begin" /\ EarlyEnd(t, u, k)
    /\ nsr'.exists = nsr.exists /\ nsr'.admin = nsr.admin
    /\ nsr'.state \in {nsr.state, "BUILDING"} /\ nsr'.cur \in {nsr.cur, o}
    /\ nsr.exists => ~Stored(o)

InstantiateBegins(t, u, k, o) ==
    /\ UNCHANGED vim
    /\ k = "instantiate" /\ t.pc = "begin" /\ nsr.exists
    /\ Writes("BUILDING", nsr.admin, o)
    /\ u.pc = "mark" /\ u.begun /\ u.exc = t.exc

TerminateBegins(t, u, k, o) ==
    /\ UNCHANGED vim
    /\ k = "terminate" /\ t.pc = "begin" /\ nsr.exists
    /\ Writes("TERMINATING", nsr.admin, o)
    /\ u.pc = IF nsr.admin = "NOT_INSTANTIATED" THEN "finNs" ELSE "run"
    /\ u.begun /\ u.exc = t.exc

OtherBegins(t, u, k, o) ==
    /\ UNCHANGED vim
    /\ k \notin {"instantiate", "terminate"} /\ t.pc = "begin"
    /\ Writes(nsr.state, nsr.admin, o)
    /\ u.pc = "run" /\ u.begun /\ u.exc = t.exc /\ u.old = nsr.state

Marks(t, u) ==
    /\ UNCHANGED vim
    /\ t.pc = "mark" /\ u.begun = t.begun
    /\ \/ /\ nsr.exists /\ Writes(nsr.state, "INSTANTIATED", nsr.cur)
          /\ u.pc = "run" /\ u.exc = t.exc
       \/ /\ ~nsr.exists /\ UNCHANGED nsr
          /\ u.pc = "finNs"

Works(t, u, k) ==
    /\ UNCHANGED nsr
    /\ t.pc = "run" /\ u.pc = "worked" /\ Same(t, u)
    /\ k = "instantiate" => vim'
    /\ k = "terminate" => ~vim'
    /\ k \notin {"instantiate", "terminate"} => vim' = vim

NsEnds(t, u, k) ==
    /\ UNCHANGED vim
    /\ t.pc = "finNs" /\ u.pc = IF k = "scale" THEN "drain" ELSE "finOp"
    /\ Same(t, u)
    /\ nsr'.exists = nsr.exists
    /\ nsr.exists =>
         /\ nsr'.cur = NoOp
         /\ nsr'.admin = IF k = "terminate" /\ ~t.exc THEN "NOT_INSTANTIATED"
                                                      ELSE nsr.admin
         /\ k \in {"instantiate", "terminate"} /\ t.exc => nsr'.state = "BROKEN"
         /\ k = "instantiate" /\ ~t.exc => nsr'.state = "READY"
         /\ k = "terminate" /\ ~t.exc => nsr'.state = "NOT_INSTANTIATED"
         /\ k \in {"action", "update"} => nsr'.state = t.old
         /\ k \notin {"instantiate", "terminate", "action", "update"} =>
               nsr'.state = nsr.state

OpEnds(t, u, k, o) ==
    /\ UNCHANGED <<nsr, vim>>
    /\ t.pc = "finOp" /\ Same(t, u)
    /\ u.pc = IF (k \in {"heal", "scale"} /\ t.begun) \/ k = "migrate"
                THEN "finNs2" ELSE "notify"
    /\ op'[o].worker = op[o].worker
    /\ IF Stored(o) THEN op'[o].state \in {"COMPLETED", "FAILED"}
                    ELSE op'[o].state = op[o].state

NsEndsAgain(t, u, k) ==
    /\ UNCHANGED vim
    /\ t.pc = "finNs2" /\ u.pc \in {"died", "notify"}
    /\ k = "migrate" => UNCHANGED nsr
    /\ k # "migrate" => Writes(nsr.state, nsr.admin, NoOp)

\* The steps that write no document but the nsr.
NsEffect(t, u, k, o) ==
    \/ Moves(t, u, k)
    \/ BeginFails(t, u, k, o) \/ InstantiateBegins(t, u, k, o)
    \/ TerminateBegins(t, u, k, o) \/ OtherBegins(t, u, k, o)
    \/ Marks(t, u) \/ Works(t, u, k) \/ NsEnds(t, u, k) \/ NsEndsAgain(t, u, k)

\* A step of the coroutine of o at w.
TaskEffect(w, o) ==
    /\ Steps(w, o)
    /\ \/ /\ SameDoc(o) /\ SameHistory
          /\ NsEffect(task[w][o], task'[w][o], op[o].kind, o)
       \/ SameHistory /\ Locks(task[w][o], task'[w][o], w, o)
       \/ SameDoc(o) /\ Clears(task[w][o], task'[w][o], o)
       \/ SameHistory /\ OpEnds(task[w][o], task'[w][o], op[o].kind, o)

\* A step that moves no coroutine and leaves the nsr: of NBI, of the bus, of a
\* callback.
CalmEffect ==
    /\ UNCHANGED <<nsr, vim, task, overlap, crashes>>
    /\ \A p \in Op :
          /\ op'[p].worker = op[p].worker
          /\ op'[p].kind = op[p].kind \/ nbi[p] = "idle"
          /\ nbi'[p] = "idle" => nbi[p] = "idle" /\ op'[p].kind = op[p].kind
          /\ op'[p].state \in {"COMPLETED", "FAILED"} => op'[p].state = op[p].state
          /\ Stored(p)' => Stored(p) \/ op[p].state = "ABSENT"
    /\ \/ UNCHANGED <<del, raced>>
       \/ /\ del = "idle" /\ del' = "checked" /\ nsr.exists
          /\ ~raced' => NobodyActive /\ nsr.admin = "NOT_INSTANTIATED"
       \/ del = "removed" /\ del' = "done" /\ UNCHANGED raced

\* The record of the NS is removed.
RemoveEffect ==
    /\ UNCHANGED <<op, vim, nbi, task, overlap, raced, crashes>>
    /\ del = "checked" /\ del' = "removed" /\ ~nsr'.exists

\* A worker goes down with its coroutines.
CrashEffect(w) ==
    /\ UNCHANGED <<nsr, op, vim, nbi, del, overlap, raced>>
    /\ crashes' = crashes + 1
    /\ \A v \in Worker, p \in Op :
          task'[v][p] = IF v = w THEN NoTask ELSE task[v][p]

Effect ==
    \/ CalmEffect \/ RemoveEffect \/ \E w \in Worker : CrashEffect(w)
    \/ \E w \in Worker, o \in Op : TaskEffect(w, o)

-----------------------------------------------------------------------------
(* Every step of the specification has one of these effects.                 *)

\* A coroutine that is set is the only one that moves.
LEMMA SetMoves ==
    ASSUME TypeOK, NEW w \in Worker, NEW o \in Op, NEW rec, Set(w, o, rec)
    PROVE  /\ task'[w][o] = rec
           /\ \A v \in Worker, p \in Op : v # w \/ p # o => task'[v][p] = task[v][p]
<1>1. task' = [task EXCEPT ![w][o] = rec] /\ task \in [Worker -> [Op -> TaskRec]]
  BY DEF Set, TypeOK
<1> QED
  BY <1>1

\* A change of stage keeps the rest of the coroutine.
LEMMA GotoMoves ==
    ASSUME TypeOK, NEW w \in Worker, NEW o \in Op, NEW pc, Goto(w, o, pc)
    PROVE  /\ task'[w][o].pc = pc /\ Same(task[w][o], task'[w][o])
           /\ \A v \in Worker, p \in Op : v # w \/ p # o => task'[v][p] = task[v][p]
<1>1. Set(w, o, [task[w][o] EXCEPT !.pc = pc])
  BY DEF Goto, Set, TypeOK
<1>2. task[w][o] \in TaskRec
  BY TaskRecType
<1>3. task'[w][o] = [task[w][o] EXCEPT !.pc = pc]
  BY <1>1, SetMoves
<1> QED
  BY <1>1, <1>2, <1>3, SetMoves DEF TaskRec, Same

\* The fields of a coroutine whose stage and exception are set.
LEMMA ExcFields ==
    ASSUME NEW t \in TaskRec, NEW pc, NEW exc
    PROVE  LET u == [t EXCEPT !.pc = pc, !.exc = exc]
           IN u.pc = pc /\ u.exc = exc /\ u.begun = t.begun /\ u.old = t.old
BY DEF TaskRec

\* An early exception moves the coroutine as EarlyEnd says.
LEMMA FailEarlyMoves ==
    ASSUME TypeOK, NEW w \in Worker, NEW o \in Op, FailEarly(w, o)
    PROVE  /\ EarlyEnd(task[w][o], task'[w][o], op[o].kind)
           /\ \A v \in Worker, p \in Op : v # w \/ p # o => task'[v][p] = task[v][p]
<1> DEFINE rec == [task[w][o] EXCEPT !.pc = AfterEarlyExc(o), !.exc = TRUE]
<1>1. task[w][o] \in TaskRec
  BY TaskRecType
<1>2. rec.pc = AfterEarlyExc(o) /\ rec.exc = TRUE /\ rec.begun = task[w][o].begun
  BY <1>1, ExcFields
<1>3. Set(w, o, rec)
  BY DEF FailEarly
<1>4. task'[w][o] = rec
  BY <1>3, SetMoves
<1>5. /\ op[o].kind \in {"update", "heal"} => AfterEarlyExc(o) = "died"
      /\ op[o].kind \in {"scale", "migrate"} => AfterEarlyExc(o) = "finNs"
      /\ op[o].kind \notin {"update", "heal", "scale", "migrate"} =>
            AfterEarlyExc(o) = "finOp"
  BY DEF AfterEarlyExc
<1> HIDE DEF rec
<1>6. EarlyEnd(task[w][o], task'[w][o], op[o].kind)
  BY <1>2, <1>4, <1>5 DEF EarlyEnd
<1> QED
  BY <1>3, <1>6, SetMoves

\* So does one in the work, as Moves says.
LEMMA FailRunMoves ==
    ASSUME TypeOK, NEW w \in Worker, NEW o \in Op, FailRun(w, o)
    PROVE  /\ task'[w][o].exc /\ task'[w][o].begun = task[w][o].begun
           /\ task'[w][o].old = task[w][o].old
           /\ task'[w][o].pc = IF op[o].kind = "heal" /\ task[w][o].pc = "run"
                                 THEN "died" ELSE "worked"
           /\ \A v \in Worker, p \in Op : v # w \/ p # o => task'[v][p] = task[v][p]
<1> DEFINE pc == IF op[o].kind = "heal" /\ task[w][o].pc = "run"
                   THEN "died" ELSE "worked"
           rec == [task[w][o] EXCEPT !.exc = TRUE, !.pc = pc]
<1>1. task[w][o] \in TaskRec
  BY TaskRecType
<1> HIDE DEF pc
<1>2. rec.pc = pc /\ rec.exc = TRUE /\ rec.begun = task[w][o].begun
      /\ rec.old = task[w][o].old
  BY <1>1 DEF TaskRec
<1>3. Set(w, o, rec)
  BY DEF FailRun, pc
<1>4. task'[w][o] = rec
  BY <1>3, SetMoves
<1> HIDE DEF rec
<1> QED
  BY <1>2, <1>3, <1>4, SetMoves DEF pc

\* What the writes of an operation do to the fields that matter here.
LEMMA OpStageFields ==
    ASSUME TypeOK, NEW o \in Op, WriteOpStage(o)
    PROVE  \A p \in Op : /\ op'[p].kind = op[p].kind /\ op'[p].state = op[p].state
                         /\ op'[p].worker = op[p].worker
<1>1. \A p \in Op : op[p] \in OpRec
  BY OpRecType
<1>2. CASE Stored(o)
  <2>1. op' = [op EXCEPT ![o] = [op[o] EXCEPT !.stale = FALSE]]
    BY <1>2 DEF WriteOpStage, Touched
  <2> QED
    BY <1>1, <2>1 DEF TypeOK, OpRec
<1>3. CASE ~Stored(o)
  BY <1>3 DEF WriteOpStage
<1> QED
  BY <1>2, <1>3

\* The final write changes the state of a document that is there, and no lock.
LEMMA OpStateFields ==
    ASSUME TypeOK, NEW o \in Op, NEW state, WriteOpState(o, state)
    PROVE  /\ \A p \in Op : op'[p].kind = op[p].kind /\ op'[p].worker = op[p].worker
           /\ \A p \in Op \ {o} : op'[p].state = op[p].state
           /\ op'[o].state = IF Stored(o) THEN state ELSE op[o].state
<1>1. \A p \in Op : op[p] \in OpRec
  BY OpRecType
<1>2. CASE Stored(o)
  <2>1. op' = [op EXCEPT ![o] = [[op[o] EXCEPT !.state = state]
                                   EXCEPT !.stale = FALSE]]
    BY <1>2 DEF WriteOpState, Touched
  <2>2. \A p \in Op \ {o} : op'[p] = op[p]
    BY <2>1 DEF TypeOK
  <2>3. /\ op'[o].worker = op[o].worker /\ op'[o].kind = op[o].kind
        /\ op'[o].state = state
    BY <1>1, <2>1 DEF TypeOK, OpRec
  <2> QED
    BY <1>2, <2>2, <2>3
<1>3. CASE ~Stored(o)
  BY <1>3 DEF WriteOpState
<1> QED
  BY <1>2, <1>3

\* _write_ns_status writes both fields, or finds no record.
LEMMA NsStatusFields ==
    ASSUME TypeOK, NEW state, NEW cur, WriteNsStatus(state, cur)
    PROVE  Writes(state, nsr.admin, cur) /\ (~nsr.exists => nsr' = nsr)
BY DEF TypeOK, NsrRec, WriteNsStatus, Writes

\* The kinds the nine stages between begin and the end belong to.
LEMMA KindOf == ASSUME TypeOK, NEW o \in Op PROVE op[o].kind \in AllKinds
BY OpRecType DEF OpRec

\* Delivery, lock and wait.
LEMMA WaitEffects ==
    ASSUME LcmInv, NEW w \in Worker, NEW o \in Op,
           \/ Deliver(w, o) \/ Lock(w, o) \/ PollBlocked(w, o) \/ PollClear(w, o)
           \/ WaitTimeout(w, o)
    PROVE  TaskEffect(w, o)
<1> DEFINE t == task[w][o] u == task'[w][o] k == op[o].kind
<1>0. TypeOK
  BY DEF LcmInv
<1>1. CASE Deliver(w, o)
  <2>1. Set(w, o, [NoTask EXCEPT !.pc = "scheduled"])
    BY <1>1 DEF Deliver
  <2>2. u = [NoTask EXCEPT !.pc = "scheduled"]
    BY <1>0, <2>1, SetMoves
  <2>3. u.pc = "scheduled" /\ u.exc = FALSE /\ u.begun = FALSE
    BY <2>2 DEF NoTask
  <2>4. Moves(t, u, k)
    BY <1>1, <2>3 DEF Deliver, Moves, dbVars
  <2>5. Steps(w, o)
    BY <1>0, <1>1, <2>1, SetMoves DEF Steps, Deliver, dbVars, nbiVars
  <2> QED
    BY <1>1, <2>4, <2>5
       DEF TaskEffect, NsEffect, SameDoc, SameHistory, Deliver, dbVars, histVars
<1>2. CASE Lock(w, o)
  <2>1. CASE Stored(o) /\ op[o].worker = NoWorker
    <3>1. Goto(w, o, "locked") /\ op' = [op EXCEPT ![o].worker = w]
      BY <1>2, <2>1 DEF Lock
    <3>2. \A p \in Op : op[p] \in OpRec
      BY <1>0, OpRecType
    <3>3. /\ \A p \in Op : op'[p].kind = op[p].kind /\ op'[p].state = op[p].state
          /\ \A p \in Op \ {o} : op'[p].worker = op[p].worker
          /\ op'[o].worker = w
      BY <1>0, <3>1, <3>2 DEF TypeOK, OpRec
    <3>4. Locks(t, u, w, o)
      BY <1>0, <1>2, <2>1, <3>1, <3>3, GotoMoves DEF Locks, Lock
    <3>5. Steps(w, o)
      BY <1>0, <1>2, <3>1, <3>3, GotoMoves DEF Steps, Lock, nbiVars
    <3> QED
      BY <1>2, <3>4, <3>5 DEF TaskEffect, SameHistory, Lock, histVars
  <2>2. CASE ~(Stored(o) /\ op[o].worker = NoWorker)
    <3>1. Goto(w, o, "done") /\ UNCHANGED op
      BY <1>2, <2>2 DEF Lock
    <3>2. Moves(t, u, k)
      BY <1>0, <1>2, <3>1, GotoMoves DEF Moves, Lock
    <3>3. Steps(w, o)
      BY <1>0, <1>2, <3>1, GotoMoves DEF Steps, Lock, nbiVars
    <3> QED
      BY <1>2, <3>1, <3>2, <3>3
         DEF TaskEffect, NsEffect, SameDoc, SameHistory, Lock, histVars
  <2> QED
    BY <2>1, <2>2
<1>3. CASE PollBlocked(w, o)
  <2>1. Goto(w, o, "waiting") /\ t.pc = "locked"
    BY <1>3 DEF PollBlocked
  <2>2. Moves(t, u, k)
    BY <1>0, <1>3, <2>1, GotoMoves DEF Moves, PollBlocked, dbVars
  <2>3. Steps(w, o)
    BY <1>0, <1>3, <2>1, GotoMoves DEF Steps, PollBlocked, dbVars, nbiVars
  <2> QED
    BY <1>3, <2>2, <2>3
       DEF TaskEffect, NsEffect, SameDoc, SameHistory, PollBlocked, dbVars, histVars
<1>4. CASE PollClear(w, o)
  <2>1. Goto(w, o, "begin") /\ t.pc \in {"locked", "waiting"} /\ UNCHANGED dbVars
    BY <1>4 DEF PollClear
  <2>2. /\ overlap' = (overlap \/ \E p \in Op \ {o} : Active(p))
        /\ raced' = (raced \/ del = "checked")
    BY <1>4 DEF PollClear
  <2>3. Clears(t, u, o)
    BY <1>0, <2>1, <2>2, GotoMoves DEF Clears, dbVars
  <2>4. Steps(w, o)
    BY <1>0, <1>4, <2>1, GotoMoves DEF Steps, PollClear, dbVars, nbiVars
  <2> QED
    BY <2>1, <2>3, <2>4 DEF TaskEffect, SameDoc, dbVars
<1>5. CASE WaitTimeout(w, o)
  <2>1. FailEarly(w, o) /\ t.pc = "waiting"
    BY <1>5 DEF WaitTimeout
  <2>2. Moves(t, u, k)
    BY <1>0, <1>5, <2>1, FailEarlyMoves DEF Moves, WaitTimeout, dbVars
  <2>3. Steps(w, o)
    BY <1>0, <1>5, <2>1, FailEarlyMoves DEF Steps, WaitTimeout, dbVars, nbiVars
  <2> QED
    BY <1>5, <2>2, <2>3
       DEF TaskEffect, NsEffect, SameDoc, SameHistory, WaitTimeout, dbVars, histVars
<1> QED
  BY <1>1, <1>2, <1>3, <1>4, <1>5

\* The prologues.
LEMMA BeginEffects ==
    ASSUME LcmInv, NEW w \in Worker, NEW o \in Op,
           \/ BeginInstantiate(w, o) \/ MarkInstantiated(w, o)
           \/ BeginTerminate(w, o) \/ BeginOther(w, o)
    PROVE  TaskEffect(w, o)
<1> DEFINE t == task[w][o] u == task'[w][o] k == op[o].kind
<1>0. TypeOK /\ t \in TaskRec /\ nsr \in NsrRec /\ k \in AllKinds
  BY TaskRecType, KindOf DEF LcmInv, TypeOK
<1>1. CASE BeginInstantiate(w, o)
  <2>1. /\ WriteNsStatus("BUILDING", o) /\ WriteOpStage(o)
        /\ t.pc = "begin" /\ k = "instantiate" /\ UNCHANGED <<vim, nbi, del, crashes>>
        /\ SameHistory
    BY <1>1 DEF BeginInstantiate, nbiVars, histVars, SameHistory
  <2>2. Writes("BUILDING", nsr.admin, o) /\ (~nsr.exists => nsr' = nsr)
    BY <1>0, <2>1, NsStatusFields
  <2>3. \A p \in Op : /\ op'[p].kind = op[p].kind /\ op'[p].state = op[p].state
                      /\ op'[p].worker = op[p].worker
    BY <1>0, <2>1, OpStageFields
  <2>4. CASE ReadsFail(o)
    <3>1. FailEarly(w, o)
      BY <1>1, <2>4 DEF BeginInstantiate
    <3>2. BeginFails(t, u, k, o)
      BY <1>0, <2>1, <2>2, <2>4, <3>1, FailEarlyMoves
         DEF BeginFails, ReadsFail, Writes
    <3>3. Steps(w, o)
      BY <1>0, <2>1, <2>3, <3>1, FailEarlyMoves DEF Steps
    <3> QED
      BY <2>1, <2>3, <3>2, <3>3 DEF TaskEffect, NsEffect, SameDoc
  <2>5. CASE ~ReadsFail(o)
    <3>1. Set(w, o, [t EXCEPT !.pc = "mark", !.begun = TRUE])
      BY <1>1, <2>5 DEF BeginInstantiate
    <3>2. u = [t EXCEPT !.pc = "mark", !.begun = TRUE]
      BY <1>0, <3>1, SetMoves
    <3>3. u.pc = "mark" /\ u.begun /\ u.exc = t.exc
      BY <1>0, <3>2 DEF TaskRec
    <3>4. InstantiateBegins(t, u, k, o)
      BY <2>1, <2>2, <2>5, <3>3 DEF InstantiateBegins, ReadsFail
    <3>5. Steps(w, o)
      BY <1>0, <2>1, <2>3, <3>1, SetMoves DEF Steps
    <3> QED
      BY <2>1, <2>3, <3>4, <3>5 DEF TaskEffect, NsEffect, SameDoc
  <2> QED
    BY <2>4, <2>5
<1>2. CASE MarkInstantiated(w, o)
  <2>1. t.pc = "mark" /\ UNCHANGED <<op, vim, nbi, del, crashes>> /\ SameHistory
    BY <1>2 DEF MarkInstantiated, nbiVars, histVars, SameHistory
  <2>2. CASE nsr.exists
    <3>1. nsr' = [nsr EXCEPT !.admin = "INSTANTIATED"] /\ Goto(w, o, "run")
      BY <1>2, <2>2 DEF MarkInstantiated
    <3>2. Writes(nsr.state, "INSTANTIATED", nsr.cur)
      BY <1>0, <3>1 DEF Writes, NsrRec
    <3>3. Marks(t, u)
      BY <1>0, <2>1, <2>2, <3>1, <3>2, GotoMoves DEF Marks, Same
    <3>4. Steps(w, o)
      BY <1>0, <2>1, <3>1, GotoMoves DEF Steps
    <3> QED
      BY <2>1, <3>3, <3>4 DEF TaskEffect, NsEffect, SameDoc
  <2>3. CASE ~nsr.exists
    <3>1. Set(w, o, [t EXCEPT !.pc = "finNs", !.exc = TRUE]) /\ UNCHANGED nsr
      BY <1>2, <2>3 DEF MarkInstantiated
    <3>2. u = [t EXCEPT !.pc = "finNs", !.exc = TRUE]
      BY <1>0, <3>1, SetMoves
    <3>3. u.pc = "finNs" /\ u.begun = t.begun
      BY <1>0, <3>2 DEF TaskRec
    <3>4. Marks(t, u)
      BY <2>1, <2>3, <3>1, <3>3 DEF Marks
    <3>5. Steps(w, o)
      BY <1>0, <2>1, <3>1, SetMoves DEF Steps
    <3> QED
      BY <2>1, <3>4, <3>5 DEF TaskEffect, NsEffect, SameDoc
  <2> QED
    BY <2>2, <2>3
<1>3. CASE BeginTerminate(w, o)
  <2>1. /\ t.pc = "begin" /\ k = "terminate" /\ UNCHANGED <<vim, nbi, del, crashes>>
        /\ SameHistory
    BY <1>3 DEF BeginTerminate, nbiVars, histVars, SameHistory
  <2>2. CASE ReadsFail(o)
    <3>1. FailEarly(w, o) /\ UNCHANGED <<nsr, op>>
      BY <1>3, <2>2 DEF BeginTerminate
    <3>2. BeginFails(t, u, k, o)
      BY <1>0, <2>1, <2>2, <3>1, FailEarlyMoves DEF BeginFails, ReadsFail
    <3>3. Steps(w, o)
      BY <1>0, <2>1, <3>1, FailEarlyMoves DEF Steps
    <3> QED
      BY <2>1, <3>1, <3>2, <3>3 DEF TaskEffect, NsEffect, SameDoc
  <2>3. CASE ~ReadsFail(o)
    <3> DEFINE pc == IF nsr.admin = "NOT_INSTANTIATED" THEN "finNs" ELSE "run"
    <3>1. /\ WriteNsStatus("TERMINATING", o) /\ WriteOpStage(o)
          /\ Set(w, o, [t EXCEPT !.begun = TRUE, !.pc = pc])
      BY <1>3, <2>3 DEF BeginTerminate
    <3>2. u = [t EXCEPT !.begun = TRUE, !.pc = pc]
      BY <1>0, <3>1, SetMoves
    <3> HIDE DEF pc
    <3>3. u.pc = pc /\ u.begun /\ u.exc = t.exc
      BY <1>0, <3>2 DEF TaskRec
    <3>4. Writes("TERMINATING", nsr.admin, o)
      BY <1>0, <3>1, NsStatusFields
    <3>5. TerminateBegins(t, u, k, o)
      BY <2>1, <2>3, <3>3, <3>4 DEF TerminateBegins, ReadsFail, pc
    <3>6. \A p \in Op : /\ op'[p].kind = op[p].kind /\ op'[p].state = op[p].state
                        /\ op'[p].worker = op[p].worker
      BY <1>0, <3>1, OpStageFields
    <3>7. Steps(w, o)
      BY <1>0, <2>1, <3>1, <3>6, SetMoves DEF Steps
    <3> QED
      BY <2>1, <3>5, <3>6, <3>7 DEF TaskEffect, NsEffect, SameDoc
  <2> QED
    BY <2>2, <2>3
<1>4. CASE BeginOther(w, o)
  <2>1. /\ t.pc = "begin" /\ k \notin {"instantiate", "terminate"}
        /\ UNCHANGED <<op, vim, nbi, del, crashes>>
        /\ SameHistory /\ WriteNsStatus(nsr.state, o)
    BY <1>4 DEF BeginOther, nbiVars, histVars, SameHistory
  <2>2. Writes(nsr.state, nsr.admin, o) /\ (~nsr.exists => nsr' = nsr)
    BY <1>0, <2>1, NsStatusFields
  <2>3. CASE IF k = "migrate" THEN ~Stored(o) ELSE ReadsFail(o)
    <3>1. FailEarly(w, o)
      BY <1>4, <2>3 DEF BeginOther
    <3>2. BeginFails(t, u, k, o)
      BY <1>0, <2>1, <2>2, <2>3, <3>1, FailEarlyMoves
         DEF BeginFails, ReadsFail, Writes
    <3>3. Steps(w, o)
      BY <1>0, <2>1, <3>1, FailEarlyMoves DEF Steps
    <3> QED
      BY <2>1, <3>2, <3>3 DEF TaskEffect, NsEffect, SameDoc
  <2>4. CASE ~(IF k = "migrate" THEN ~Stored(o) ELSE ReadsFail(o))
    <3>1. Set(w, o, [t EXCEPT !.pc = "run", !.begun = TRUE, !.old = nsr.state])
      BY <1>4, <2>4 DEF BeginOther
    <3>2. u = [t EXCEPT !.pc = "run", !.begun = TRUE, !.old = nsr.state]
      BY <1>0, <3>1, SetMoves
    <3>3. u.pc = "run" /\ u.begun /\ u.exc = t.exc /\ u.old = nsr.state
      BY <1>0, <3>2 DEF TaskRec
    <3>4. OtherBegins(t, u, k, o)
      BY <2>1, <2>2, <3>3 DEF OtherBegins
    <3>5. Steps(w, o)
      BY <1>0, <2>1, <3>1, SetMoves DEF Steps
    <3> QED
      BY <2>1, <3>4, <3>5 DEF TaskEffect, NsEffect, SameDoc
  <2> QED
    BY <2>3, <2>4
<1> QED
  BY <1>1, <1>2, <1>3, <1>4

\* The work, its end and the finally blocks.
LEMMA WorkEffects ==
    ASSUME LcmInv, NEW w \in Worker, NEW o \in Op,
           \/ \E written \in BOOLEAN : Work(w, o, written)
           \/ WorkDone(w, o) \/ WorkFails(w, o)
           \/ FinishNs(w, o) \/ Drain(w, o) \/ FinishOp(w, o)
           \/ FinishNs2(w, o) \/ Notify(w, o)
    PROVE  TaskEffect(w, o)
<1> DEFINE t == task[w][o] u == task'[w][o] k == op[o].kind
<1>0. TypeOK /\ t \in TaskRec /\ nsr \in NsrRec /\ k \in AllKinds
  BY TaskRecType, KindOf DEF LcmInv, TypeOK
<1>1. ASSUME NEW written \in BOOLEAN, Work(w, o, written) PROVE TaskEffect(w, o)
  <2>1. /\ t.pc = "run" /\ Goto(w, o, "worked")
        /\ UNCHANGED <<nsr, nbi, del, crashes>> /\ SameHistory
    BY <1>1 DEF Work, nbiVars, histVars, SameHistory
  <2>2. \A p \in Op : /\ op'[p].kind = op[p].kind /\ op'[p].state = op[p].state
                      /\ op'[p].worker = op[p].worker
    BY <1>0, <1>1, OpStageFields DEF Work
  <2>3. /\ k = "instantiate" => vim'
        /\ k = "terminate" => ~vim'
        /\ k \notin {"instantiate", "terminate"} => vim' = vim
    BY <1>1 DEF Work
  <2>4. Works(t, u, k)
    BY <1>0, <2>1, <2>3, GotoMoves DEF Works
  <2>5. Steps(w, o)
    BY <1>0, <2>1, <2>2, GotoMoves DEF Steps
  <2> QED
    BY <2>1, <2>2, <2>4, <2>5 DEF TaskEffect, NsEffect, SameDoc
<1>2. CASE WorkDone(w, o)
  <2>1. /\ t.pc = "worked" /\ Goto(w, o, FinallyPc(o))
        /\ UNCHANGED <<nsr, op, vim, nbi, del, crashes>> /\ SameHistory
    BY <1>2 DEF WorkDone, dbVars, nbiVars, histVars, SameHistory
  <2>2. Moves(t, u, k)
    BY <1>0, <2>1, GotoMoves DEF Moves, FinallyPc
  <2>3. Steps(w, o)
    BY <1>0, <2>1, GotoMoves DEF Steps
  <2> QED
    BY <2>1, <2>2, <2>3 DEF TaskEffect, NsEffect, SameDoc
<1>3. CASE WorkFails(w, o)
  <2>1. /\ t.pc \in {"run", "worked"} /\ FailRun(w, o)
        /\ UNCHANGED <<nsr, op, vim, nbi, del, crashes>> /\ SameHistory
    BY <1>3 DEF WorkFails, dbVars, nbiVars, histVars, SameHistory
  <2>2. Moves(t, u, k)
    BY <1>0, <2>1, FailRunMoves DEF Moves
  <2>3. Steps(w, o)
    BY <1>0, <2>1, FailRunMoves DEF Steps
  <2> QED
    BY <2>1, <2>2, <2>3 DEF TaskEffect, NsEffect, SameDoc
<1>4. CASE FinishNs(w, o)
  <2>1. /\ t.pc = "finNs" /\ Goto(w, o, IF k = "scale" THEN "drain" ELSE "finOp")
        /\ UNCHANGED <<op, vim, nbi, del, crashes>> /\ SameHistory
    BY <1>4 DEF FinishNs, nbiVars, histVars, SameHistory
  <2>2. /\ nsr'.exists = nsr.exists
        /\ nsr.exists =>
             /\ nsr'.state = FinalNsState(w, o) /\ nsr'.cur = NoOp
             /\ nsr'.admin = IF k = "terminate" /\ ~t.exc THEN "NOT_INSTANTIATED"
                                                          ELSE nsr.admin
    BY <1>0, <1>4 DEF FinishNs, NsrRec
  <2>3. LET state == FinalNsState(w, o)
        IN /\ k \in {"instantiate", "terminate"} /\ t.exc => state = "BROKEN"
           /\ k = "instantiate" /\ ~t.exc => state = "READY"
           /\ k = "terminate" /\ ~t.exc => state = "NOT_INSTANTIATED"
           /\ k \in {"action", "update"} => state = t.old
           /\ k \notin {"instantiate", "terminate", "action", "update"} =>
                 state = nsr.state
    BY DEF FinalNsState
  <2>4. NsEnds(t, u, k)
    BY <1>0, <2>1, <2>2, <2>3, GotoMoves DEF NsEnds
  <2>5. Steps(w, o)
    BY <1>0, <2>1, GotoMoves DEF Steps
  <2> QED
    BY <2>1, <2>4, <2>5 DEF TaskEffect, NsEffect, SameDoc
<1>5. CASE Drain(w, o)
  <2>1. /\ t.pc = "drain" /\ Goto(w, o, "finOp")
        /\ UNCHANGED <<nsr, op, vim, nbi, del, crashes>> /\ SameHistory
    BY <1>5 DEF Drain, dbVars, nbiVars, histVars, SameHistory
  <2>2. Moves(t, u, k)
    BY <1>0, <2>1, GotoMoves DEF Moves, Same
  <2>3. Steps(w, o)
    BY <1>0, <2>1, GotoMoves DEF Steps
  <2> QED
    BY <2>1, <2>2, <2>3 DEF TaskEffect, NsEffect, SameDoc
<1>6. CASE FinishOp(w, o)
  <2> DEFINE pc == IF (k \in {"heal", "scale"} /\ t.begun) \/ k = "migrate"
                     THEN "finNs2" ELSE "notify"
             state == IF t.exc THEN "FAILED" ELSE "COMPLETED"
  <2>1. /\ t.pc = "finOp" /\ Goto(w, o, pc)
        /\ WriteOpState(o, state)
        /\ UNCHANGED <<nsr, vim, nbi, del, crashes>> /\ SameHistory
    BY <1>6 DEF FinishOp, nbiVars, histVars, SameHistory
  <2> HIDE DEF pc
  <2>2. /\ \A p \in Op : op'[p].kind = op[p].kind /\ op'[p].worker = op[p].worker
        /\ \A p \in Op \ {o} : op'[p].state = op[p].state
        /\ op'[o].state = IF Stored(o) THEN state ELSE op[o].state
    BY <1>0, <2>1, OpStateFields
  <2>3. OpEnds(t, u, k, o)
    BY <1>0, <2>1, <2>2, GotoMoves DEF OpEnds, pc
  <2>4. Steps(w, o)
    BY <1>0, <2>1, <2>2, GotoMoves DEF Steps
  <2> QED
    BY <2>1, <2>3, <2>4 DEF TaskEffect
<1>7. CASE FinishNs2(w, o)
  <2> DEFINE pc == IF k = "migrate" /\ ~t.exc /\ ~nsr.exists
                     THEN "died" ELSE "notify"
  <2>1. /\ t.pc = "finNs2" /\ Goto(w, o, pc)
        /\ UNCHANGED <<op, vim, nbi, del, crashes>> /\ SameHistory
    BY <1>7 DEF FinishNs2, nbiVars, histVars, SameHistory
  <2>2. k = "migrate" => UNCHANGED nsr
    BY <1>7 DEF FinishNs2
  <2>3. k # "migrate" => Writes(nsr.state, nsr.admin, NoOp)
    BY <1>0, <1>7, NsStatusFields DEF FinishNs2
  <2>4. pc \in {"died", "notify"}
    OBVIOUS
  <2> HIDE DEF pc
  <2>5. NsEndsAgain(t, u, k)
    BY <1>0, <2>1, <2>2, <2>3, <2>4, GotoMoves DEF NsEndsAgain
  <2>6. Steps(w, o)
    BY <1>0, <2>1, GotoMoves DEF Steps
  <2> QED
    BY <2>1, <2>5, <2>6 DEF TaskEffect, NsEffect, SameDoc
<1>8. CASE Notify(w, o)
  <2>1. /\ Set(w, o, [NoTask EXCEPT !.pc = "done"]) /\ t.pc = "notify"
        /\ UNCHANGED <<nsr, op, vim, nbi, del, crashes>> /\ SameHistory
    BY <1>8 DEF Notify, dbVars, nbiVars, histVars, SameHistory
  <2>2. u.pc = "done"
    <3>1. u = [NoTask EXCEPT !.pc = "done"]
      BY <1>0, <2>1, SetMoves
    <3> QED
      BY <3>1 DEF NoTask
  <2>3. Moves(t, u, k)
    BY <2>1, <2>2 DEF Moves
  <2>4. Steps(w, o)
    BY <1>0, <2>1, SetMoves DEF Steps
  <2> QED
    BY <2>1, <2>3, <2>4 DEF TaskEffect, NsEffect, SameDoc
<1> QED
  BY <1>1, <1>2, <1>3, <1>4, <1>5, <1>6, <1>7, <1>8

\* A cancel message moves the coroutine it is about, or nothing.
LEMMA CancelEffects ==
    ASSUME LcmInv, NEW w \in Worker, NEW o \in Op,
           CancelTake(w, o) \/ CancelEnd(w, o) \/ CancelEndDied(w, o)
    PROVE  TaskEffect(w, o) \/ CalmEffect
<1> DEFINE t == task[w][o] u == task'[w][o] k == op[o].kind
<1>0. TypeOK /\ t \in TaskRec
  BY TaskRecType DEF LcmInv
<1>1. CASE CancelTake(w, o)
  <2>1. UNCHANGED <<nsr, op, vim, nbi, del, raced, overlap, crashes>>
    BY <1>1 DEF CancelTake, dbVars, nbiVars, histVars
  <2>2. ASSUME Moves(t, u, k), \A v \in Worker, p \in Op :
                                  v # w \/ p # o => task'[v][p] = task[v][p]
        PROVE  TaskEffect(w, o)
    BY <2>1, <2>2 DEF TaskEffect, NsEffect, SameDoc, SameHistory, Steps
  <2>3. CASE t.pc \in {"scheduled", "notify"}
    <3>1. Goto(w, o, "done")
      BY <1>1, <2>3 DEF CancelTake
    <3>2. Moves(t, u, k)
      BY <1>0, <2>1, <2>3, <3>1, GotoMoves DEF Moves
    <3> QED
      BY <1>0, <2>2, <3>1, <3>2, GotoMoves
  <2>4. CASE t.pc = "waiting"
    <3>1. FailEarly(w, o)
      BY <1>1, <2>4 DEF CancelTake
    <3>2. Moves(t, u, k)
      BY <1>0, <2>1, <2>4, <3>1, FailEarlyMoves DEF Moves
    <3> QED
      BY <1>0, <2>2, <3>1, <3>2, FailEarlyMoves
  <2>5. CASE t.pc \in {"run", "worked"}
    <3>1. FailRun(w, o)
      BY <1>1, <2>5 DEF CancelTake
    <3>2. Moves(t, u, k)
      BY <1>0, <2>1, <2>5, <3>1, FailRunMoves DEF Moves
    <3> QED
      BY <1>0, <2>2, <3>1, <3>2, FailRunMoves
  <2>6. CASE t.pc = "drain"
    <3>1. Set(w, o, [t EXCEPT !.pc = "finOp", !.exc = TRUE])
      BY <1>1, <2>6 DEF CancelTake
    <3>2. u = [t EXCEPT !.pc = "finOp", !.exc = TRUE]
      BY <1>0, <3>1, SetMoves
    <3>3. u.pc = "finOp" /\ u.begun = t.begun
      BY <1>0, <3>2 DEF TaskRec
    <3>4. Moves(t, u, k)
      BY <2>1, <2>6, <3>3 DEF Moves
    <3> QED
      BY <1>0, <2>2, <3>1, <3>4, SetMoves
  <2>7. CASE t.pc \notin {"scheduled", "notify", "waiting", "run", "worked", "drain"}
    <3>1. UNCHANGED task
      BY <1>1, <2>7 DEF CancelTake
    <3> QED
      BY <2>1, <3>1 DEF CalmEffect, Stored
  <2> QED
    BY <2>3, <2>4, <2>5, <2>6, <2>7
<1>2. CASE CancelEnd(w, o)
  <2>1. UNCHANGED <<nsr, vim, nbi, del, task, raced, overlap, crashes>>
    BY <1>2 DEF CancelEnd, nbiVars, histVars
  <2>2. \A p \in Op : op[p] \in OpRec
    BY <1>0, OpRecType
  <2>3. CASE Stored(o)
    <3>1. op' = [op EXCEPT ![o].state = "FAILED_TEMP"]
      BY <1>2, <2>3 DEF CancelEnd
    <3>2. \A p \in Op : /\ op'[p].kind = op[p].kind /\ op'[p].worker = op[p].worker
                        /\ p # o => op'[p].state = op[p].state
      BY <1>0, <2>2, <3>1 DEF TypeOK, OpRec
    <3>3. op'[o].state = "FAILED_TEMP"
      BY <1>0, <2>2, <3>1 DEF TypeOK, OpRec
    <3> QED
      BY <2>1, <2>3, <3>2, <3>3 DEF CalmEffect, Stored
  <2>4. CASE ~Stored(o)
    BY <1>2, <2>1, <2>4 DEF CancelEnd, CalmEffect, Stored
  <2> QED
    BY <2>3, <2>4
<1>3. CASE CancelEndDied(w, o)
  BY <1>3 DEF CancelEndDied, dbVars, nbiVars, histVars, CalmEffect, Stored
<1> QED
  BY <1>1, <1>2, <1>3

\* The steps of NBI.
LEMMA NbiEffects == ASSUME LcmInv, NbiNext PROVE CalmEffect \/ RemoveEffect
<1>0. TypeOK /\ UnstoredIsFree /\ \A p \in Op : op[p] \in OpRec
  BY OpRecType DEF LcmInv
<1>1. ASSUME NEW o \in Op, NEW kind \in Kinds, NEW force \in ForceFlags,
             NbiCheck(o, kind, force)
      PROVE  CalmEffect
  <2>1. /\ op' = [op EXCEPT ![o].kind = kind] /\ nbi' = [nbi EXCEPT ![o] = "checked"]
        /\ nbi[o] = "idle"
        /\ UNCHANGED <<nsr, vim, del, task, raced, overlap, crashes>>
    BY <1>1 DEF NbiCheck, lcmVars, histVars
  <2>2. \A p \in Op : /\ op'[p].state = op[p].state /\ op'[p].worker = op[p].worker
                      /\ p # o => op'[p].kind = op[p].kind /\ nbi'[p] = nbi[p]
    BY <1>0, <2>1 DEF TypeOK, OpRec
  <2>3. nbi'[o] = "checked"
    BY <1>0, <2>1 DEF TypeOK
  <2> QED
    BY <2>1, <2>2, <2>3 DEF CalmEffect, Stored
<1>2. ASSUME NEW o \in Op, NbiStamp(o) PROVE CalmEffect
  <2>1. /\ op' = [op EXCEPT ![o].start = clock + 1]
        /\ nbi' = [nbi EXCEPT ![o] = "stamped"]
        /\ UNCHANGED <<nsr, vim, del, task, raced, overlap, crashes>>
    BY <1>2 DEF NbiStamp, lcmVars, histVars
  <2>2. \A p \in Op : /\ op'[p].state = op[p].state /\ op'[p].worker = op[p].worker
                      /\ op'[p].kind = op[p].kind
                      /\ nbi'[p] = "idle" => nbi[p] = "idle"
    BY <1>0, <2>1 DEF TypeOK, OpRec
  <2> QED
    BY <2>1, <2>2 DEF CalmEffect, Stored
<1>3. ASSUME NEW o \in Op, NbiStore(o) PROVE CalmEffect
  <2>1. /\ op' = [op EXCEPT ![o].state = "PROCESSING"]
        /\ nbi' = [nbi EXCEPT ![o] = "stored"] /\ nbi[o] = "stamped"
        /\ UNCHANGED <<nsr, vim, del, task, raced, overlap, crashes>>
    BY <1>3 DEF NbiStore, lcmVars, histVars
  <2>2. \A p \in Op : /\ op'[p].worker = op[p].worker
                      /\ op'[p].kind = op[p].kind
                      /\ nbi'[p] = "idle" => nbi[p] = "idle"
                      /\ p # o => op'[p].state = op[p].state
    BY <1>0, <2>1 DEF TypeOK, OpRec
  <2>3. op'[o].state = "PROCESSING" /\ op[o].state = "ABSENT"
    BY <1>0, <2>1 DEF TypeOK, OpRec, UnstoredIsFree
  <2> QED
    BY <2>1, <2>2, <2>3 DEF CalmEffect, Stored
<1>4. ASSUME NEW o \in Op, NbiSend(o) \/ \E published \in BOOLEAN :
                                            NbiSendFails(o, published)
      PROVE  CalmEffect
  <2>1. /\ nbi' = [nbi EXCEPT ![o] = "sent"] \/ nbi' = [nbi EXCEPT ![o] = "unsent"]
        /\ UNCHANGED <<nsr, op, vim, del, task, raced, overlap, crashes>>
    BY <1>4 DEF NbiSend, NbiSendFails, dbVars, lcmVars, histVars
  <2>2. \A p \in Op : nbi'[p] = "idle" => nbi[p] = "idle"
    BY <1>0, <2>1 DEF TypeOK
  <2> QED
    BY <2>1, <2>2 DEF CalmEffect, Stored
<1>5. ASSUME NEW o \in Op, NbiRollback(o) PROVE CalmEffect
  <2>1. /\ op' = [op EXCEPT ![o].state = "DELETED"]
        /\ nbi' = [nbi EXCEPT ![o] = "refused"]
        /\ UNCHANGED <<nsr, vim, del, task, raced, overlap, crashes>>
    BY <1>5 DEF NbiRollback, lcmVars, histVars
  <2>2. \A p \in Op : /\ op'[p].worker = op[p].worker
                      /\ op'[p].kind = op[p].kind
                      /\ nbi'[p] = "idle" => nbi[p] = "idle"
                      /\ p # o => op'[p].state = op[p].state
    BY <1>0, <2>1 DEF TypeOK, OpRec
  <2>3. op'[o].state = "DELETED"
    BY <1>0, <2>1 DEF TypeOK, OpRec
  <2> QED
    BY <2>1, <2>2, <2>3 DEF CalmEffect, Stored
<1>6. ASSUME NEW o \in Op, NbiCancelCheck(o) \/ NbiCancelSend(o) PROVE CalmEffect
  BY <1>6 DEF NbiCancelCheck, NbiCancelSend, dbVars, nbiVars, lcmVars, histVars,
              CalmEffect, Stored
<1>7. ASSUME NEW force \in ForceFlags, NbiDeleteCheck(force) PROVE CalmEffect
  <2>1. /\ UNCHANGED <<nsr, op, vim, nbi, task, overlap, crashes>>
        /\ del = "idle" /\ del' = "checked" /\ nsr.exists
        /\ raced' = (force \/ ~NobodyActive)
        /\ nsr.admin = "INSTANTIATED" => force
    BY <1>7 DEF NbiDeleteCheck, dbVars, lcmVars
  <2>2. nsr.admin \in AdminStates
    BY <1>0 DEF TypeOK, NsrRec
  <2>3. ~raced' => NobodyActive /\ nsr.admin = "NOT_INSTANTIATED"
    BY <2>1, <2>2 DEF AdminStates
  <2> QED
    BY <2>1, <2>3 DEF CalmEffect, Stored
<1>8. CASE NbiDeleteNsr
  <2>1. /\ nsr' = [nsr EXCEPT !.exists = FALSE]
        /\ UNCHANGED <<op, vim, nbi, task, overlap, raced, crashes>>
        /\ del = "checked" /\ del' = "removed"
    BY <1>8 DEF NbiDeleteNsr, lcmVars, histVars
  <2>2. ~nsr'.exists
    BY <1>0, <2>1 DEF TypeOK, NsrRec
  <2> QED
    BY <2>1, <2>2 DEF RemoveEffect
<1>9. CASE NbiDeleteOps
  <2>1. /\ op' = [p \in Op |-> IF Stored(p) THEN [op[p] EXCEPT !.state = "DELETED"]
                                            ELSE op[p]]
        /\ UNCHANGED <<nsr, vim, nbi, task, overlap, raced, crashes>>
        /\ del = "removed" /\ del' = "done"
    BY <1>9 DEF NbiDeleteOps, lcmVars, histVars
  <2>2. ASSUME NEW p \in Op
        PROVE  /\ op'[p].worker = op[p].worker /\ op'[p].kind = op[p].kind
               /\ op'[p].state \in {op[p].state, "DELETED"}
    BY <1>0, <2>1 DEF OpRec
  <2> QED
    BY <2>1, <2>2 DEF CalmEffect, Stored
<1> QED
  BY <1>1, <1>2, <1>3, <1>4, <1>5, <1>6, <1>7, <1>8, <1>9 DEF NbiNext

\* Every step of the specification.
LEMMA StepEffects == ASSUME LcmInv, [Next]_vars PROVE Effect
<1>1. CASE UNCHANGED vars
  BY <1>1 DEF vars, dbVars, nbiVars, lcmVars, histVars, Effect, CalmEffect, Stored
<1>2. CASE NbiNext
  BY <1>2, NbiEffects DEF Effect
<1>3. ASSUME NEW w \in Worker, NEW o \in Op,
             \/ Deliver(w, o) \/ TaskStep(w, o) \/ WaitTimeout(w, o)
             \/ WorkFails(w, o) \/ CancelTake(w, o)
      PROVE  Effect
  <2>1. TaskEffect(w, o) \/ CalmEffect
    BY <1>3, WaitEffects, BeginEffects, WorkEffects, CancelEffects DEF TaskStep
  <2> QED
    BY <2>1 DEF Effect
<1>4. ASSUME NEW o \in Op, Redeliver(o) PROVE Effect
  BY <1>4 DEF Redeliver, dbVars, nbiVars, lcmVars, histVars, Effect, CalmEffect,
              Stored
<1>5. ASSUME NEW o \in Op, Pause(o) PROVE Effect
  <2>1. /\ op' = [op EXCEPT ![o].stale = TRUE]
        /\ UNCHANGED <<nsr, vim, nbi, del, task, raced, overlap, crashes>>
    BY <1>5 DEF Pause, nbiVars, lcmVars, histVars
  <2>2. \A p \in Op : /\ op'[p].state = op[p].state /\ op'[p].worker = op[p].worker
                      /\ op'[p].kind = op[p].kind
    BY <2>1, OpRecType DEF LcmInv, TypeOK, OpRec
  <2> QED
    BY <2>1, <2>2 DEF Effect, CalmEffect, Stored
<1>6. ASSUME NEW w \in Worker, Restart(w) PROVE Effect
  BY <1>6 DEF Restart, dbVars, nbiVars, histVars, Effect, CalmEffect, Stored
<1>7. ASSUME NEW w \in Worker, NEW committed \in BOOLEAN, Crash(w, committed)
      PROVE  Effect
  <2>1. /\ task' = [task EXCEPT ![w] = [o \in Op |-> NoTask]]
        /\ crashes' = crashes + 1
        /\ UNCHANGED <<nsr, op, vim, nbi, del, overlap, raced>>
    BY <1>7 DEF Crash, dbVars, nbiVars, histVars
  <2>2. \A v \in Worker, p \in Op :
           task'[v][p] = IF v = w THEN NoTask ELSE task[v][p]
    BY <2>1 DEF LcmInv, TypeOK
  <2> QED
    BY <2>1, <2>2 DEF Effect, CrashEffect
<1> QED
  BY <1>1, <1>2, <1>3, <1>4, <1>5, <1>6, <1>7 DEF Next, LcmNext

-----------------------------------------------------------------------------
(* The invariants of the coroutines.                                         *)

EarlyPcs == {"scheduled", "locked", "waiting", "begin"}

FreshAt(t) ==
    /\ t.pc \in EarlyPcs => ~t.begun
    /\ t.pc \in EarlyPcs \cup {"mark", "run"} => ~t.exc

\* A coroutine has bound db_nsr only after its prologue, and no exception is
\* on its way before it works.
Fresh == \A w \in Worker, o \in Op : FreshAt(task[w][o])

StagedAt(t, k) ==
    /\ t.pc = "mark" => k = "instantiate" /\ t.begun
    /\ t.pc \in {"run", "worked"} => t.begun
    /\ t.pc = "finNs" /\ ~t.begun => k \in {"scale", "migrate"}
    /\ t.pc = "drain" => k = "scale"
    /\ t.pc = "finOp" /\ k = "heal" => t.begun
    /\ t.pc = "finNs2" => /\ k \in {"heal", "scale", "migrate"}
                          /\ k # "migrate" => t.begun

\* Which kinds come to a stage, and with what behind them.
Staged == \A w \in Worker, o \in Op : StagedAt(task[w][o], op[o].kind)

\* An operation NBI has not been asked for is of the kind the record of a new
\* one has.
Blank == \A o \in Op : nbi[o] = "idle" => op[o].kind = "instantiate"

\* Without an overlap one operation is at work, in one worker.
Alone ==
    ~overlap =>
        \A v, w \in Worker, o, p \in Op :
            ActiveAt(v, o) /\ ActiveAt(w, p) => v = w /\ o = p

StagesInv == LcmInv /\ Fresh /\ Staged /\ Blank /\ Alone

\* A coroutine that is alive belongs to an operation NBI has stored.
LEMMA LiveIsAsked ==
    ASSUME LcmInv, NEW w \in Worker, NEW o \in Op, task[w][o].pc \in LivePcs
    PROVE  op[o].worker = w /\ nbi[o] # "idle" /\ op[o].state # "ABSENT"
<1>1. op[o].worker = w /\ w # NoWorker
  BY NoneAssumption DEF LcmInv, OneRunner
<1>2. op[o].state # "ABSENT"
  BY <1>1 DEF LcmInv, UnstoredIsFree
<1> QED
  BY <1>1, <1>2 DEF LcmInv, UnstoredIsFree

\* What is at work was so before, or has just ended its wait.
LEMMA ActiveBefore ==
    ASSUME Fresh, NEW w \in Worker, NEW o \in Op, TaskEffect(w, o), ActiveAt(w, o)'
    PROVE  ActiveAt(w, o) \/ Clears(task[w][o], task'[w][o], o)
<1> DEFINE t == task[w][o] u == task'[w][o] k == op[o].kind
<1>1. u.pc \in {"begin", "mark", "run", "worked"} \/ (u.pc \in FinalPcs /\ u.begun)
  BY DEF ActiveAt
<1>2. ActiveAt(w, o) <=> t.pc \in {"begin", "mark", "run", "worked"}
                            \/ (t.pc \in FinalPcs /\ t.begun)
  BY DEF ActiveAt
<1>3. t.pc \in EarlyPcs => ~t.begun
  BY DEF Fresh, FreshAt
<1> HIDE DEF t, u
<1>4. ASSUME NsEffect(t, u, k, o)
      PROVE  t.pc \in {"begin", "mark", "run", "worked"} \/ (t.pc \in FinalPcs /\ t.begun)
  <2>1. CASE Moves(t, u, k)
    BY <1>1, <1>3, <2>1 DEF Moves, EarlyEnd, Same, FinalPcs, EarlyPcs
  <2>2. CASE BeginFails(t, u, k, o) \/ InstantiateBegins(t, u, k, o)
             \/ TerminateBegins(t, u, k, o) \/ OtherBegins(t, u, k, o)
             \/ Marks(t, u) \/ Works(t, u, k)
    BY <2>2 DEF BeginFails, InstantiateBegins, TerminateBegins, OtherBegins, Marks, Works
  <2>3. CASE NsEnds(t, u, k) \/ NsEndsAgain(t, u, k)
    BY <1>1, <2>3 DEF NsEnds, NsEndsAgain, Same, FinalPcs
  <2> QED
    BY <1>4, <2>1, <2>2, <2>3 DEF NsEffect
<1>5. ASSUME Locks(t, u, w, o) PROVE FALSE
  BY <1>1, <1>5 DEF Locks, FinalPcs
<1>6. ASSUME OpEnds(t, u, k, o) PROVE t.pc \in FinalPcs /\ t.begun
  BY <1>1, <1>6 DEF OpEnds, Same, FinalPcs
<1> QED
  BY <1>2, <1>4, <1>5, <1>6 DEF TaskEffect, t, u

\* A step of a coroutine keeps what is known of its stage.
LEMMA TaskStages ==
    ASSUME StagesInv, NEW w \in Worker, NEW o \in Op, TaskEffect(w, o)
    PROVE  FreshAt(task'[w][o]) /\ StagedAt(task'[w][o], op[o].kind)
<1> DEFINE t == task[w][o] u == task'[w][o] k == op[o].kind
<1>1. FreshAt(t) /\ StagedAt(t, k) /\ k \in AllKinds
  BY KindOf DEF StagesInv, Fresh, Staged, LcmInv
<1> HIDE DEF t, u, k
<1>2. ASSUME NsEffect(t, u, k, o) PROVE FreshAt(u) /\ StagedAt(u, k)
  <2>1. CASE Moves(t, u, k)
    BY <1>1, <2>1 DEF Moves, EarlyEnd, Same, FreshAt, StagedAt, EarlyPcs
  <2>2. CASE BeginFails(t, u, k, o)
    BY <1>1, <2>2 DEF BeginFails, EarlyEnd, FreshAt, StagedAt, EarlyPcs
  <2>3. CASE InstantiateBegins(t, u, k, o)
    BY <1>1, <2>3 DEF InstantiateBegins, FreshAt, StagedAt, EarlyPcs
  <2>4. CASE TerminateBegins(t, u, k, o)
    BY <1>1, <2>4 DEF TerminateBegins, FreshAt, StagedAt, EarlyPcs
  <2>5. CASE OtherBegins(t, u, k, o)
    BY <1>1, <2>5 DEF OtherBegins, FreshAt, StagedAt, EarlyPcs
  <2>6. CASE Marks(t, u)
    BY <1>1, <2>6 DEF Marks, FreshAt, StagedAt, EarlyPcs
  <2>7. CASE Works(t, u, k)
    BY <1>1, <2>7 DEF Works, Same, FreshAt, StagedAt, EarlyPcs
  <2>8. CASE NsEnds(t, u, k)
    BY <1>1, <2>8 DEF NsEnds, Same, FreshAt, StagedAt, EarlyPcs
  <2>9. CASE NsEndsAgain(t, u, k)
    BY <1>1, <2>9 DEF NsEndsAgain, FreshAt, StagedAt, EarlyPcs
  <2> QED
    BY <1>2, <2>1, <2>2, <2>3, <2>4, <2>5, <2>6, <2>7, <2>8, <2>9 DEF NsEffect
<1>3. ASSUME Locks(t, u, w, o) PROVE FreshAt(u) /\ StagedAt(u, k)
  BY <1>1, <1>3 DEF Locks, Same, FreshAt, StagedAt, EarlyPcs
<1>4. ASSUME Clears(t, u, o) PROVE FreshAt(u) /\ StagedAt(u, k)
  BY <1>1, <1>4 DEF Clears, Same, FreshAt, StagedAt, EarlyPcs
<1>5. ASSUME OpEnds(t, u, k, o) PROVE FreshAt(u) /\ StagedAt(u, k)
  BY <1>1, <1>5 DEF OpEnds, Same, FreshAt, StagedAt, EarlyPcs
<1> QED
  BY <1>2, <1>3, <1>4, <1>5 DEF TaskEffect, t, u, k

\* Initially no coroutine is there.
LEMMA InitStages == Init => StagesInv
<1> SUFFICES ASSUME Init PROVE StagesInv
  OBVIOUS
<1>1. LcmInv
  BY InitInv
<1>2. /\ \A w \in Worker, o \in Op : task[w][o] = NoTask
      /\ \A o \in Op : op[o].kind = "instantiate"
  BY DEF Init
<1>3. NoTask.pc = "none"
  BY DEF NoTask
<1>4. Fresh /\ Staged
  BY <1>2, <1>3 DEF Fresh, FreshAt, Staged, StagedAt, EarlyPcs
<1>5. Alone
  BY <1>2, <1>3 DEF Alone, ActiveAt, FinalPcs
<1> QED
  BY <1>1, <1>2, <1>4, <1>5 DEF StagesInv, Blank

\* The invariants of the coroutines are kept.
LEMMA NextStages == StagesInv /\ [Next]_vars => StagesInv'
<1> SUFFICES ASSUME StagesInv, [Next]_vars PROVE StagesInv'
  OBVIOUS
<1>0. LcmInv /\ LcmInv' /\ Fresh /\ Staged /\ Blank /\ Alone
  BY NextInv DEF StagesInv
<1>1. Effect
  BY <1>0, StepEffects
<1>2. CASE CalmEffect
  <2>1. ASSUME NEW w \in Worker, NEW o \in Op
        PROVE  StagedAt(task[w][o], op'[o].kind)
    <3>1. CASE task[w][o].pc \in LivePcs
      <4>1. op'[o].kind = op[o].kind
        BY <1>0, <1>2, <3>1, LiveIsAsked DEF CalmEffect
      <4> QED
        BY <1>0, <4>1 DEF Staged
    <3>2. CASE task[w][o].pc \notin LivePcs
      BY <3>2 DEF StagedAt, LivePcs, Pcs
    <3> QED
      BY <3>1, <3>2
  <2>2. Fresh' /\ Staged'
    BY <1>0, <1>2, <2>1 DEF CalmEffect, Fresh, Staged
  <2>3. Blank'
    BY <1>0, <1>2 DEF CalmEffect, Blank
  <2>4. Alone'
    BY <1>0, <1>2 DEF CalmEffect, Alone, ActiveAt
  <2> QED
    BY <1>0, <2>2, <2>3, <2>4 DEF StagesInv
<1>3. CASE RemoveEffect
  BY <1>0, <1>3 DEF RemoveEffect, StagesInv, Fresh, Staged, Blank, Alone, ActiveAt
<1>4. ASSUME NEW w \in Worker, CrashEffect(w) PROVE StagesInv'
  <2>1. NoTask.pc = "none"
    BY DEF NoTask
  <2>2. Fresh' /\ Staged'
    BY <1>0, <1>4, <2>1
       DEF CrashEffect, Fresh, Staged, FreshAt, StagedAt, EarlyPcs
  <2>3. \A v \in Worker, p \in Op : ActiveAt(v, p)' => ActiveAt(v, p)
    BY <1>4, <2>1 DEF CrashEffect, ActiveAt, FinalPcs
  <2>4. Alone' /\ Blank'
    BY <1>0, <1>4, <2>3 DEF CrashEffect, Alone, Blank
  <2> QED
    BY <1>0, <2>2, <2>4 DEF StagesInv
<1>5. ASSUME NEW w \in Worker, NEW o \in Op, TaskEffect(w, o) PROVE StagesInv'
  <2>1. Steps(w, o)
    BY <1>5 DEF TaskEffect
  <2>2. FreshAt(task'[w][o]) /\ StagedAt(task'[w][o], op[o].kind)
    BY <1>5, TaskStages
  <2>3. Fresh' /\ Staged'
    BY <1>0, <2>1, <2>2 DEF Steps, Fresh, Staged
  <2>4. Blank'
    BY <1>0, <2>1 DEF Steps, Blank
  <2>5. Alone'
    <3> SUFFICES ASSUME ~overlap', NEW v \in Worker, NEW x \in Worker,
                        NEW p \in Op, NEW q \in Op,
                        ActiveAt(v, p)', ActiveAt(x, q)'
                 PROVE  v = x /\ p = q
      BY DEF Alone
    <3>1. ~overlap
      BY <1>5 DEF TaskEffect, SameHistory, Clears
    <3>2. \A y \in Worker, r \in Op :
             y # w \/ r # o => (ActiveAt(y, r)' <=> ActiveAt(y, r))
      BY <2>1 DEF Steps, ActiveAt
    <3>3. CASE Clears(task[w][o], task'[w][o], o)
      <4>1. \A r \in Op \ {o} : ~Active(r)
        BY <3>3 DEF Clears
      <4>2. task[w][o].pc \in LivePcs
        BY <3>3 DEF Clears, LivePcs, Pcs
      <4>3. op[o].worker = w
        BY <1>0, <4>2, LiveIsAsked
      <4>4. \A y \in Worker : ActiveAt(y, o) => y = w
        BY <1>0, <4>3 DEF LcmInv, OneRunner, ActiveAt, FinalPcs, LivePcs, Pcs
      <4>5. \A y \in Worker, r \in Op : ActiveAt(y, r)' => y = w /\ r = o
        BY <3>2, <4>1, <4>4 DEF Active
      <4> QED
        BY <4>5
    <3>4. CASE ~Clears(task[w][o], task'[w][o], o)
      <4>1. \A y \in Worker, r \in Op : ActiveAt(y, r)' => ActiveAt(y, r)
        BY <1>0, <1>5, <3>2, <3>4, ActiveBefore
      <4> QED
        BY <1>0, <3>1, <4>1 DEF Alone
    <3> QED
      BY <3>3, <3>4
  <2> QED
    BY <1>0, <2>3, <2>4, <2>5 DEF StagesInv
<1> QED
  BY <1>1, <1>2, <1>3, <1>4, <1>5 DEF Effect

-----------------------------------------------------------------------------
(* The two states of the nsr and the VIM.                                    *)

\* What the operation at work knows of the nsr and the VIM at its stage.
StageAgrees(t, k) ==
    /\ k = "instantiate" =>
         /\ t.pc = "mark" => nsr.state = "BUILDING"
         /\ t.begun /\ t.pc \in {"run", "worked", "finNs"} =>
               nsr.admin = "INSTANTIATED"
    /\ k = "terminate" =>
         /\ t.pc \in {"run", "worked"} => nsr.admin = "INSTANTIATED"
         /\ t.pc = "finNs" /\ t.exc => nsr.admin = "INSTANTIATED"
         /\ t.pc \in {"worked", "finNs"} /\ ~t.exc => ~vim
    /\ k \in {"action", "update"} /\ t.pc \in {"run", "worked", "finNs"} =>
         t.old = nsr.state

\* The two states of the nsr agree.
FieldsAgree ==
    /\ nsr.state \in {"READY", "BROKEN"} => nsr.admin = "INSTANTIATED"
    /\ nsr.state = "NOT_INSTANTIATED" => nsr.admin = "NOT_INSTANTIATED"

CleanIfDeletable == nsr.admin = "NOT_INSTANTIATED" => ~vim

\* Without an overlap the record tells the truth at every moment, not only
\* between operations.
StatesAgree ==
    (nsr.exists /\ ~overlap) =>
        /\ FieldsAgree /\ CleanIfDeletable
        /\ \A w \in Worker, o \in Op : StageAgrees(task[w][o], op[o].kind)

StatesInv == StagesInv /\ StatesAgree

\* A stage with something to know of the nsr is one of an operation at work, or
\* has nothing to know.
LEMMA IdleAgrees ==
    ASSUME StagesInv, NEW w \in Worker, NEW o \in Op, ~ActiveAt(w, o)
    PROVE  StageAgrees(task[w][o], op[o].kind)
<1>1. StagedAt(task[w][o], op[o].kind)
  BY DEF StagesInv, Staged
<1> QED
  BY <1>1 DEF StagedAt, StageAgrees, ActiveAt, FinalPcs

\* Beside the one operation at work no other one is.
LEMMA OthersAreIdle ==
    ASSUME StagesInv, ~overlap, NEW w \in Worker, NEW o \in Op, ActiveAt(w, o),
           NEW v \in Worker, NEW p \in Op, v # w \/ p # o
    PROVE  ~ActiveAt(v, p)
BY DEF StagesInv, Alone

\* The steps of a coroutine keep the record true, field by field.
LEMMA FieldsKept ==
    ASSUME StatesInv, nsr.exists, ~overlap, NEW w \in Worker, NEW o \in Op,
           TaskEffect(w, o)
    PROVE  FieldsAgree' /\ CleanIfDeletable'
<1> DEFINE t == task[w][o] u == task'[w][o] k == op[o].kind
<1>1. /\ StageAgrees(t, k) /\ StagedAt(t, k) /\ FreshAt(t) /\ k \in AllKinds
      /\ FieldsAgree /\ CleanIfDeletable /\ nsr.admin \in AdminStates
      /\ vim \in BOOLEAN
  BY KindOf DEF StatesInv, StatesAgree, StagesInv, Fresh, Staged, LcmInv, TypeOK, NsrRec
<1> HIDE DEF t, u, k
<1>2. ASSUME NsEffect(t, u, k, o) PROVE FieldsAgree' /\ CleanIfDeletable'
  <2>1. CASE Moves(t, u, k)
    BY <1>1, <2>1 DEF Moves, FieldsAgree, CleanIfDeletable
  <2>2. CASE BeginFails(t, u, k, o)
    BY <1>1, <2>2 DEF BeginFails, FieldsAgree, CleanIfDeletable
  <2>3. CASE InstantiateBegins(t, u, k, o)
    BY <1>1, <2>3 DEF InstantiateBegins, Writes, FieldsAgree, CleanIfDeletable
  <2>4. CASE TerminateBegins(t, u, k, o)
    BY <1>1, <2>4 DEF TerminateBegins, Writes, FieldsAgree, CleanIfDeletable
  <2>5. CASE OtherBegins(t, u, k, o)
    BY <1>1, <2>5 DEF OtherBegins, Writes, FieldsAgree, CleanIfDeletable
  <2>6. CASE Marks(t, u)
    BY <1>1, <2>6 DEF Marks, Writes, StagedAt, StageAgrees, FieldsAgree, CleanIfDeletable
  <2>7. CASE Works(t, u, k)
    BY <1>1, <2>7 DEF Works, StagedAt, StageAgrees, FieldsAgree, CleanIfDeletable
  <2>8. CASE NsEnds(t, u, k)
    <3>1. CASE k = "instantiate"
      BY <1>1, <2>8, <3>1 DEF NsEnds, StagedAt, StageAgrees, FieldsAgree, CleanIfDeletable
    <3>2. CASE k = "terminate"
      BY <1>1, <2>8, <3>2 DEF NsEnds, StagedAt, StageAgrees, FieldsAgree, CleanIfDeletable
    <3>3. CASE k \notin {"instantiate", "terminate"}
      BY <1>1, <2>8, <3>3 DEF NsEnds, StagedAt, StageAgrees, FieldsAgree, CleanIfDeletable
    <3> QED
      BY <3>1, <3>2, <3>3
  <2>9. CASE NsEndsAgain(t, u, k)
    BY <1>1, <2>9 DEF NsEndsAgain, Writes, FieldsAgree, CleanIfDeletable
  <2> QED
    BY <1>2, <2>1, <2>2, <2>3, <2>4, <2>5, <2>6, <2>7, <2>8, <2>9 DEF NsEffect
<1>3. ASSUME UNCHANGED <<nsr, vim>> PROVE FieldsAgree' /\ CleanIfDeletable'
  BY <1>1, <1>3 DEF FieldsAgree, CleanIfDeletable
<1> QED
  BY <1>2, <1>3 DEF TaskEffect, Locks, Clears, OpEnds, t, u, k

\* They keep what the coroutine itself knows.
LEMMA StageKept ==
    ASSUME StatesInv, nsr.exists, nsr'.exists, ~overlap, NEW w \in Worker,
           NEW o \in Op, TaskEffect(w, o)
    PROVE  StageAgrees(task[w][o], op[o].kind)'
<1> DEFINE t == task[w][o] u == task'[w][o] k == op[o].kind
<1>1. /\ StageAgrees(t, k) /\ StagedAt(t, k) /\ FreshAt(t) /\ k \in AllKinds
      /\ FieldsAgree /\ CleanIfDeletable /\ nsr.admin \in AdminStates
      /\ vim \in BOOLEAN /\ op'[o].kind = k
  BY KindOf DEF StatesInv, StatesAgree, StagesInv, Fresh, Staged, LcmInv, TypeOK, NsrRec,
                TaskEffect, Steps
<1> DEFINE Goal ==
      /\ k = "instantiate" =>
           /\ u.pc = "mark" => nsr'.state = "BUILDING"
           /\ u.begun /\ u.pc \in {"run", "worked", "finNs"} =>
                 nsr'.admin = "INSTANTIATED"
      /\ k = "terminate" =>
           /\ u.pc \in {"run", "worked"} => nsr'.admin = "INSTANTIATED"
           /\ u.pc = "finNs" /\ u.exc => nsr'.admin = "INSTANTIATED"
           /\ u.pc \in {"worked", "finNs"} /\ ~u.exc => ~vim'
      /\ k \in {"action", "update"} /\ u.pc \in {"run", "worked", "finNs"} =>
           u.old = nsr'.state
<1>2. Goal => StageAgrees(task[w][o], op[o].kind)'
  BY <1>1 DEF StageAgrees
<1> HIDE DEF t, u, k
<1>3. ASSUME NsEffect(t, u, k, o) PROVE Goal
  <2>1. CASE Moves(t, u, k)
    BY <1>1, <2>1 DEF Moves, EarlyEnd, Same, StagedAt, StageAgrees
  <2>2. CASE BeginFails(t, u, k, o)
    BY <1>1, <2>2 DEF BeginFails, EarlyEnd, FreshAt, EarlyPcs
  <2>3. CASE InstantiateBegins(t, u, k, o)
    BY <1>1, <2>3 DEF InstantiateBegins, Writes
  <2>4. CASE TerminateBegins(t, u, k, o)
    BY <1>1, <2>4
       DEF TerminateBegins, Writes, CleanIfDeletable, FreshAt, EarlyPcs, AdminStates
  <2>5. CASE OtherBegins(t, u, k, o)
    BY <1>1, <2>5 DEF OtherBegins, Writes
  <2>6. CASE Marks(t, u)
    BY <1>1, <2>6 DEF Marks, Writes, StagedAt
  <2>7. CASE Works(t, u, k)
    BY <1>1, <2>7 DEF Works, Same, StagedAt, StageAgrees, FreshAt
  <2>8. CASE NsEnds(t, u, k)
    BY <1>1, <2>8 DEF NsEnds
  <2>9. CASE NsEndsAgain(t, u, k)
    BY <1>1, <2>9 DEF NsEndsAgain
  <2> QED
    BY <1>3, <2>1, <2>2, <2>3, <2>4, <2>5, <2>6, <2>7, <2>8, <2>9 DEF NsEffect
<1>4. ASSUME Locks(t, u, w, o) PROVE Goal
  BY <1>4 DEF Locks
<1>5. ASSUME Clears(t, u, o) PROVE Goal
  BY <1>5 DEF Clears
<1>6. ASSUME OpEnds(t, u, k, o) PROVE Goal
  BY <1>6 DEF OpEnds
<1> QED
  BY <1>2, <1>3, <1>4, <1>5, <1>6 DEF TaskEffect, t, u, k

\* Who changes a state of the nsr or the VIM is at work.
LEMMA ChangeIsActive ==
    ASSUME StagesInv, NEW w \in Worker, NEW o \in Op, TaskEffect(w, o), nsr.exists
    PROVE  \/ ActiveAt(w, o)
           \/ vim' = vim /\ nsr'.state = nsr.state /\ nsr'.admin = nsr.admin
<1> DEFINE t == task[w][o] u == task'[w][o] k == op[o].kind
<1>1. StagedAt(t, k) /\ k \in AllKinds
  BY KindOf DEF StagesInv, Staged, LcmInv
<1>2. t.pc \in {"begin", "mark", "run", "worked"} => ActiveAt(w, o)
  BY DEF ActiveAt
<1>3. t.pc \in FinalPcs /\ t.begun => ActiveAt(w, o)
  BY DEF ActiveAt
<1> HIDE DEF t, u, k
<1>4. ASSUME NsEffect(t, u, k, o), ~ActiveAt(w, o)
      PROVE  vim' = vim /\ nsr'.state = nsr.state /\ nsr'.admin = nsr.admin
  <2>1. Moves(t, u, k) \/ NsEnds(t, u, k) \/ NsEndsAgain(t, u, k)
    BY <1>2, <1>4
       DEF NsEffect, BeginFails, InstantiateBegins, TerminateBegins, OtherBegins,
           Marks, Works
  <2>2. CASE Moves(t, u, k)
    BY <2>2 DEF Moves
  <2>3. CASE NsEnds(t, u, k)
    <3>1. ~t.begun /\ k \in {"scale", "migrate"}
      BY <1>1, <1>3, <1>4, <2>3 DEF NsEnds, StagedAt, FinalPcs
    <3> QED
      BY <2>3, <3>1 DEF NsEnds
  <2>4. CASE NsEndsAgain(t, u, k)
    BY <2>4 DEF NsEndsAgain, Writes
  <2> QED
    BY <2>1, <2>2, <2>3, <2>4
<1> QED
  BY <1>4 DEF TaskEffect, Locks, Clears, OpEnds, t, u, k

\* The record stays true.
LEMMA NextStates == StatesInv /\ [Next]_vars => StatesInv'
<1> SUFFICES ASSUME StatesInv, [Next]_vars PROVE StatesInv'
  OBVIOUS
<1>0. StagesInv /\ StagesInv' /\ LcmInv /\ LcmInv' /\ StatesAgree
  BY NextStages DEF StatesInv, StagesInv
<1>1. Effect
  BY <1>0, StepEffects
<1> SUFFICES ASSUME nsr'.exists, ~overlap'
             PROVE  /\ FieldsAgree' /\ CleanIfDeletable'
                    /\ \A v \in Worker, p \in Op :
                          StageAgrees(task[v][p], op[p].kind)'
  BY <1>0 DEF StatesInv, StatesAgree
<1>2. CASE CalmEffect
  <2>1. nsr.exists /\ ~overlap /\ UNCHANGED <<nsr, vim, task>>
    BY <1>2 DEF CalmEffect
  <2>2. FieldsAgree' /\ CleanIfDeletable'
    BY <1>0, <2>1 DEF StatesAgree, FieldsAgree, CleanIfDeletable
  <2>3. ASSUME NEW v \in Worker, NEW p \in Op
        PROVE  StageAgrees(task[v][p], op[p].kind)'
    <3>1. CASE task[v][p].pc \in LivePcs
      <4>1. op'[p].kind = op[p].kind
        BY <1>0, <1>2, <3>1, LiveIsAsked DEF CalmEffect
      <4> QED
        BY <1>0, <2>1, <4>1 DEF StatesAgree, StageAgrees
    <3>2. CASE task[v][p].pc \notin LivePcs
      BY <2>1, <3>2 DEF StageAgrees, LivePcs, Pcs
    <3> QED
      BY <3>1, <3>2
  <2> QED
    BY <2>2, <2>3
<1>3. CASE RemoveEffect
  BY <1>3 DEF RemoveEffect
<1>4. ASSUME NEW w \in Worker, CrashEffect(w)
      PROVE  /\ FieldsAgree' /\ CleanIfDeletable'
             /\ \A v \in Worker, p \in Op : StageAgrees(task[v][p], op[p].kind)'
  <2>1. nsr.exists /\ ~overlap /\ UNCHANGED <<nsr, vim, op>>
    BY <1>4 DEF CrashEffect
  <2>2. FieldsAgree' /\ CleanIfDeletable'
    BY <1>0, <2>1 DEF StatesAgree, FieldsAgree, CleanIfDeletable
  <2>3. ASSUME NEW v \in Worker, NEW p \in Op
        PROVE  StageAgrees(task[v][p], op[p].kind)'
    <3>1. CASE v = w
      <4>1. task'[v][p].pc = "none"
        BY <1>4, <3>1 DEF CrashEffect, NoTask
      <4> QED
        BY <4>1 DEF StageAgrees
    <3>2. CASE v # w
      <4>1. task'[v][p] = task[v][p] /\ StageAgrees(task[v][p], op[p].kind)
        BY <1>0, <1>4, <2>1, <3>2 DEF CrashEffect, StatesAgree
      <4> QED
        BY <2>1, <4>1 DEF StageAgrees
    <3> QED
      BY <3>1, <3>2
  <2> QED
    BY <2>2, <2>3
<1>5. ASSUME NEW w \in Worker, NEW o \in Op, TaskEffect(w, o)
      PROVE  /\ FieldsAgree' /\ CleanIfDeletable'
             /\ \A v \in Worker, p \in Op : StageAgrees(task[v][p], op[p].kind)'
  <2>1. ~overlap
    BY <1>5 DEF TaskEffect, SameHistory, Clears
  <2>2. nsr.exists
    BY <1>5 DEF TaskEffect, NsEffect, Moves, BeginFails, InstantiateBegins,
                TerminateBegins, OtherBegins, Marks, Works, NsEnds, NsEndsAgain,
                Locks, Clears, OpEnds, Writes
  <2>3. FieldsAgree' /\ CleanIfDeletable'
    BY <1>5, <2>1, <2>2, FieldsKept
  <2>4. ASSUME NEW v \in Worker, NEW p \in Op
        PROVE  StageAgrees(task[v][p], op[p].kind)'
    <3>1. CASE v = w /\ p = o
      BY <1>5, <2>1, <2>2, <3>1, StageKept
    <3>2. CASE v # w \/ p # o
      <4>1. task'[v][p] = task[v][p] /\ op'[p].kind = op[p].kind
        BY <1>5, <3>2 DEF TaskEffect, Steps
      <4>2. StageAgrees(task[v][p], op[p].kind)
        BY <1>0, <2>1, <2>2 DEF StatesAgree
      <4>3. CASE ActiveAt(w, o)
        <5>1. ~ActiveAt(v, p)
          BY <1>0, <2>1, <3>2, <4>3, OthersAreIdle
        <5>2. ~ActiveAt(v, p)'
          BY <4>1, <5>1 DEF ActiveAt
        <5>3. StagedAt(task'[v][p], op'[p].kind)
          BY <1>0 DEF StagesInv, Staged
        <5> QED
          BY <5>2, <5>3 DEF StagedAt, StageAgrees, ActiveAt, FinalPcs
      <4>4. CASE vim' = vim /\ nsr'.state = nsr.state /\ nsr'.admin = nsr.admin
        BY <4>1, <4>2, <4>4 DEF StageAgrees
      <4> QED
        BY <1>0, <1>5, <2>2, <4>3, <4>4, ChangeIsActive
    <3> QED
      BY <3>1, <3>2
  <2> QED
    BY <2>3, <2>4
<1> QED
  BY <1>1, <1>2, <1>3, <1>4, <1>5 DEF Effect

\* Initially the record is that of a new NS, or of one that is running.
LEMMA InitStates == Init => StatesInv
<1> SUFFICES ASSUME Init PROVE StatesInv
  OBVIOUS
<1>1. StagesInv
  BY InitStages
<1>2. NoTask.pc = "none"
  BY DEF NoTask
<1>3. \A w \in Worker, o \in Op : StageAgrees(task[w][o], op[o].kind)
  BY <1>2 DEF Init, StageAgrees
<1>4. /\ NewNsr.state = "NOT_INSTANTIATED" /\ NewNsr.admin = "NOT_INSTANTIATED"
      /\ ReadyNsr.state = "READY" /\ ReadyNsr.admin = "INSTANTIATED"
  BY DEF NewNsr, ReadyNsr
<1>5. nsr \in {NewNsr, ReadyNsr} /\ (nsr # ReadyNsr => ~vim)
  BY DEF Init
<1> QED
  BY <1>1, <1>3, <1>4, <1>5 DEF StatesInv, StatesAgree, FieldsAgree, CleanIfDeletable

\* As long as operations run one at a time, the two states of an NS agree when
\* none is at work: NBI decides on _admin.nsState what clients see as nsState.
THEOREM StatesOfNs == Spec => []NsStatesAgree
<1>1. StatesInv => NsStatesAgree
  BY DEF StatesInv, StatesAgree, FieldsAgree, NsStatesAgree
<1> QED
  BY <1>1, InitStates, NextStates, PTL DEF Spec

\* As long as operations run one at a time, an NS that NBI would delete without
\* force holds nothing at the VIM.
THEOREM DeletableNs == Spec => []DeletableIsClean
<1>1. StatesInv => DeletableIsClean
  BY DEF StatesInv, StatesAgree, CleanIfDeletable, DeletableIsClean
<1> QED
  BY <1>1, InitStates, NextStates, PTL DEF Spec

-----------------------------------------------------------------------------
(* The removal of the NS.                                                    *)

\* The check that allowed the removal still holds when nothing raced with it, and
\* nothing is instantiated afterwards.
Removal ==
    /\ nsr.exists <=> del \notin {"removed", "done"}
    /\ (del = "checked" /\ ~raced /\ ~overlap) => NobodyActive /\ ~vim
    /\ (~nsr.exists /\ ~raced /\ ~overlap) =>
         /\ ~vim
         /\ \A w \in Worker, o \in Op :
               task[w][o].pc = "run" => op[o].kind # "instantiate"

\* No step of a coroutine removes the nsr or brings it back.
LEMMA ExistsKept ==
    ASSUME NEW w \in Worker, NEW o \in Op, TaskEffect(w, o)
    PROVE  nsr'.exists = nsr.exists
BY DEF TaskEffect, NsEffect, Moves, BeginFails, InstantiateBegins, TerminateBegins,
       OtherBegins, Marks, Works, NsEnds, NsEndsAgain, Locks, Clears, OpEnds, Writes

\* Once the nsr is gone no instantiation begins to work.
LEMMA GoneEffects ==
    ASSUME StagesInv, ~nsr.exists, NEW w \in Worker, NEW o \in Op, TaskEffect(w, o),
           task[w][o].pc = "run" => op[o].kind # "instantiate"
    PROVE  /\ task'[w][o].pc = "run" => op'[o].kind # "instantiate"
           /\ ~vim => ~vim'
<1> DEFINE t == task[w][o] u == task'[w][o] k == op[o].kind
<1>1. op'[o].kind = k /\ (t.pc = "run" => k # "instantiate") /\ k \in AllKinds
      /\ vim \in BOOLEAN
  BY KindOf DEF TaskEffect, Steps, StagesInv, LcmInv, TypeOK
<1> HIDE DEF t, u, k
<1>2. ASSUME NsEffect(t, u, k, o)
      PROVE  (u.pc = "run" => k # "instantiate") /\ (~vim => ~vim')
  BY <1>1, <1>2
     DEF NsEffect, Moves, EarlyEnd, Same, BeginFails, InstantiateBegins,
         TerminateBegins, OtherBegins, Marks, Works, NsEnds, NsEndsAgain
<1> QED
  BY <1>1, <1>2 DEF TaskEffect, Locks, Clears, OpEnds, t, u, k

\* A removal keeps what is known of it.
LEMMA NextRemoval == StatesInv /\ Removal /\ [Next]_vars => Removal'
<1> SUFFICES ASSUME StatesInv, Removal, [Next]_vars PROVE Removal'
  OBVIOUS
<1>0. StagesInv /\ LcmInv /\ StatesAgree /\ vim \in BOOLEAN
  BY DEF StatesInv, StagesInv, LcmInv, TypeOK
<1>1. Effect
  BY <1>0, StepEffects
<1>2. CASE CalmEffect
  <2>1. UNCHANGED <<nsr, vim, task, overlap>>
    BY <1>2 DEF CalmEffect
  <2>2. NobodyActive' <=> NobodyActive
    BY <2>1 DEF NobodyActive, Active, ActiveAt
  <2>3. \A w \in Worker, o \in Op :
           task[w][o].pc = "run" => op'[o].kind = op[o].kind
    BY <1>0, <1>2, LiveIsAsked DEF CalmEffect, LivePcs, Pcs
  <2>4. CASE UNCHANGED <<del, raced>>
    BY <2>1, <2>2, <2>3, <2>4 DEF Removal
  <2>5. CASE /\ del = "idle" /\ del' = "checked" /\ nsr.exists
             /\ ~raced' => NobodyActive /\ nsr.admin = "NOT_INSTANTIATED"
    <3>1. ~raced' /\ ~overlap' => NobodyActive' /\ ~vim'
      BY <1>0, <2>1, <2>2, <2>5 DEF StatesAgree, CleanIfDeletable
    <3> QED
      BY <2>1, <2>5, <3>1 DEF Removal
  <2>6. CASE del = "removed" /\ del' = "done" /\ UNCHANGED raced
    BY <2>1, <2>3, <2>6 DEF Removal
  <2> QED
    BY <1>2, <2>4, <2>5, <2>6 DEF CalmEffect
<1>3. CASE RemoveEffect
  <2>1. NobodyActive => \A w \in Worker, o \in Op : task[w][o].pc # "run"
    BY DEF NobodyActive, Active, ActiveAt
  <2> QED
    BY <1>3, <2>1 DEF RemoveEffect, Removal
<1>4. ASSUME NEW w \in Worker, CrashEffect(w) PROVE Removal'
  <2>1. NoTask.pc = "none"
    BY DEF NoTask
  <2>2. NobodyActive => NobodyActive'
    BY <1>4, <2>1 DEF CrashEffect, NobodyActive, Active, ActiveAt, FinalPcs
  <2>3. \A v \in Worker, p \in Op : task'[v][p].pc = "run" => task[v][p].pc = "run"
    BY <1>4, <2>1 DEF CrashEffect
  <2> QED
    BY <1>4, <2>2, <2>3 DEF CrashEffect, Removal
<1>5. ASSUME NEW w \in Worker, NEW o \in Op, TaskEffect(w, o) PROVE Removal'
  <2>1. nsr'.exists = nsr.exists /\ del' = del /\ Steps(w, o)
    BY <1>5, ExistsKept DEF TaskEffect, Steps
  <2>2. (~raced' => ~raced) /\ (~overlap' => ~overlap)
    BY <1>5 DEF TaskEffect, SameHistory, Clears
  <2>3. ASSUME del = "checked", ~raced', ~overlap' PROVE NobodyActive' /\ ~vim'
    <3>1. NobodyActive /\ ~vim /\ nsr.exists
      BY <2>2, <2>3 DEF Removal
    <3>2. ~Clears(task[w][o], task'[w][o], o)
      BY <2>3 DEF Clears
    <3>3. ~ActiveAt(w, o)'
      BY <1>0, <1>5, <3>1, <3>2, ActiveBefore DEF StagesInv, NobodyActive, Active
    <3>4. \A v \in Worker, p \in Op : v # w \/ p # o => ~ActiveAt(v, p)'
      BY <2>1, <3>1 DEF Steps, NobodyActive, Active, ActiveAt
    <3>5. NobodyActive'
      BY <3>3, <3>4 DEF NobodyActive, Active
    <3>6. vim' = vim
      BY <1>0, <1>5, <3>1, ChangeIsActive DEF NobodyActive, Active
    <3> QED
      BY <3>1, <3>5, <3>6
  <2>4. ASSUME ~nsr'.exists, ~raced', ~overlap'
        PROVE  /\ ~vim'
               /\ \A v \in Worker, p \in Op :
                     task'[v][p].pc = "run" => op'[p].kind # "instantiate"
    <3>1. /\ ~vim
          /\ \A v \in Worker, p \in Op :
                task[v][p].pc = "run" => op[p].kind # "instantiate"
      BY <2>1, <2>2, <2>4 DEF Removal
    <3>2. /\ task'[w][o].pc = "run" => op'[o].kind # "instantiate"
          /\ ~vim'
      BY <1>0, <1>5, <2>1, <2>4, <3>1, GoneEffects
    <3> QED
      BY <2>1, <3>1, <3>2 DEF Steps
  <2> QED
    BY <2>1, <2>3, <2>4 DEF Removal
<1> QED
  BY <1>1, <1>2, <1>3, <1>4, <1>5 DEF Effect

\* Nothing is removed initially.
LEMMA InitRemoval == Init => Removal
<1>1. NewNsr.exists /\ ReadyNsr.exists
  BY DEF NewNsr, ReadyNsr
<1>2. Init => nsr \in {NewNsr, ReadyNsr} /\ del = "idle"
  BY DEF Init
<1> QED
  BY <1>1, <1>2 DEF Removal

\* As long as operations run one at a time, a removal that raced with none leaves
\* nothing behind at the VIM.
THEOREM RemovalsAreClean == Spec => []NoOrphan
<1>1. Removal => NoOrphan
  BY DEF Removal, NoOrphan
<1> QED
  BY <1>1, InitStates, NextStates, InitRemoval, NextRemoval, PTL DEF Spec

-----------------------------------------------------------------------------
(* currentOperationID names the operation at work.                           *)

\* Who writes another name than its own is at work, or a scale or migrate that
\* never began.
LEMMA NameChanges ==
    ASSUME StagesInv, nsr.exists, NEW w \in Worker, NEW o \in Op, TaskEffect(w, o)
    PROVE  \/ nsr'.cur = nsr.cur
           \/ ActiveAt(w, o)
           \/ op[o].kind \in {"scale", "migrate"} /\ task[w][o].pc = "finNs"
<1> DEFINE t == task[w][o] u == task'[w][o] k == op[o].kind
<1>1. StagedAt(t, k)
  BY DEF StagesInv, Staged
<1>2. /\ t.pc \in {"begin", "mark", "run", "worked"} => ActiveAt(w, o)
      /\ t.pc \in FinalPcs /\ t.begun => ActiveAt(w, o)
  BY DEF ActiveAt
<1> HIDE DEF t, u, k
<1>3. ASSUME NsEffect(t, u, k, o), ~ActiveAt(w, o)
      PROVE  nsr'.cur = nsr.cur \/ (k \in {"scale", "migrate"} /\ t.pc = "finNs")
  <2>1. Moves(t, u, k) \/ NsEnds(t, u, k) \/ NsEndsAgain(t, u, k)
    BY <1>2, <1>3
       DEF NsEffect, BeginFails, InstantiateBegins, TerminateBegins, OtherBegins,
           Marks, Works
  <2> QED
    BY <1>1, <1>2, <1>3, <2>1 DEF Moves, NsEnds, NsEndsAgain, StagedAt, FinalPcs
<1> QED
  BY <1>3 DEF TaskEffect, Locks, Clears, OpEnds, t, u, k

\* An operation that works has written its name, or keeps working.
LEMMA NameWritten ==
    ASSUME nsr.exists, NEW w \in Worker, NEW o \in Op, TaskEffect(w, o),
           task'[w][o].pc \in {"mark", "run", "worked"}
    PROVE  \/ nsr'.cur = o
           \/ nsr'.cur = nsr.cur /\ task[w][o].pc \in {"mark", "run", "worked"}
<1> DEFINE t == task[w][o] u == task'[w][o] k == op[o].kind
<1>1. u.pc \in {"mark", "run", "worked"}
  OBVIOUS
<1> HIDE DEF t, u, k
<1>2. ASSUME NsEffect(t, u, k, o)
      PROVE  \/ nsr'.cur = o
             \/ nsr'.cur = nsr.cur /\ t.pc \in {"mark", "run", "worked"}
  BY <1>1, <1>2
     DEF NsEffect, Moves, EarlyEnd, Same, BeginFails, InstantiateBegins,
         TerminateBegins, OtherBegins, Marks, Works, NsEnds, NsEndsAgain, Writes
<1>3. ~Locks(t, u, w, o) /\ ~Clears(t, u, o) /\ ~OpEnds(t, u, k, o)
  BY <1>1 DEF Locks, Clears, OpEnds
<1> QED
  BY <1>2, <1>3 DEF TaskEffect, t, u, k

\* The name stays as long as the operation works.
LEMMA NextShown == StagesInv /\ RunningIsShown /\ [Next]_vars => RunningIsShown'
<1> SUFFICES ASSUME StagesInv, RunningIsShown, [Next]_vars,
                    NEW v \in Worker, NEW p \in Op,
                    (task[v][p].pc \in {"mark", "run", "worked"})',
                    nsr'.exists, ~overlap'
             PROVE  \/ nsr'.cur = p
                    \/ \E q \in Op \ {p} : op'[q].kind \in {"scale", "migrate"}
  BY DEF RunningIsShown
<1>0. LcmInv /\ Blank
  BY DEF StagesInv
<1>1. Effect
  BY <1>0, StepEffects
<1>2. CASE CalmEffect
  <2>1. UNCHANGED <<nsr, task, overlap>>
    BY <1>2 DEF CalmEffect
  <2>2. \A q \in Op : op[q].kind \in {"scale", "migrate"} => op'[q].kind = op[q].kind
    BY <1>0, <1>2 DEF CalmEffect, Blank
  <2> QED
    BY <2>1, <2>2 DEF RunningIsShown
<1>3. CASE RemoveEffect
  BY <1>3 DEF RemoveEffect
<1>4. ASSUME NEW w \in Worker, CrashEffect(w)
      PROVE  \/ nsr'.cur = p
             \/ \E q \in Op \ {p} : op'[q].kind \in {"scale", "migrate"}
  <2>1. task'[v][p] = task[v][p]
    BY <1>4 DEF CrashEffect, NoTask
  <2> QED
    BY <1>4, <2>1 DEF CrashEffect, RunningIsShown
<1>5. ASSUME NEW w \in Worker, NEW o \in Op, TaskEffect(w, o)
      PROVE  \/ nsr'.cur = p
             \/ \E q \in Op \ {p} : op'[q].kind \in {"scale", "migrate"}
  <2>0. nsr'.exists = nsr.exists
    BY <1>5, ExistsKept
  <2>1. Steps(w, o) /\ nsr.exists /\ ~overlap
    BY <1>5, <2>0 DEF TaskEffect, SameHistory, Clears
  <2>2. \A q \in Op : op'[q].kind = op[q].kind
    BY <2>1 DEF Steps
  <2>3. CASE v = w /\ p = o
    BY <1>5, <2>1, <2>2, <2>3, NameWritten DEF RunningIsShown
  <2>4. CASE v # w \/ p # o
    <3>1. task'[v][p] = task[v][p] /\ ActiveAt(v, p)
      BY <2>1, <2>4 DEF Steps, ActiveAt
    <3>2. ~ActiveAt(w, o)
      BY <2>1, <2>4, <3>1, OthersAreIdle
    <3>3. CASE nsr'.cur = nsr.cur
      BY <2>1, <2>2, <3>1, <3>3 DEF RunningIsShown
    <3>4. CASE op[o].kind \in {"scale", "migrate"} /\ task[w][o].pc = "finNs"
      <4>1. op[o].worker = w /\ op[p].worker = v
        BY <1>0, <3>1, <3>4, LiveIsAsked DEF LivePcs, Pcs
      <4>2. o # p
        BY <2>4, <4>1
      <4> QED
        BY <2>2, <3>4, <4>2
    <3> QED
      BY <1>5, <2>1, <3>2, <3>3, <3>4, NameChanges
  <2> QED
    BY <2>3, <2>4
<1> QED
  BY <1>1, <1>2, <1>3, <1>4, <1>5 DEF Effect

\* As long as operations run one at a time and no scale or migrate is around, the
\* operation at work is the one the record names.
THEOREM WorkIsShown == Spec => []RunningIsShown
<1>1. Init => RunningIsShown
  BY DEF Init, RunningIsShown, NoTask
<1> QED
  BY <1>1, InitStages, NextStages, NextShown, PTL DEF Spec

-----------------------------------------------------------------------------
(* Whom the record names.                                                    *)

Ends == {"COMPLETED", "FAILED"}

\* An operation has no outcome before its coroutine wrote it.
Unended ==
    \A o \in Op :
        /\ op[o].worker = NoWorker => op[o].state \notin Ends
        /\ \A w \in Worker :
              task[w][o].pc \in LivePcs \ {"finNs2", "notify"} =>
                  op[o].state \notin Ends

\* The record names no operation that has not begun, and none whose outcome is
\* about to be written, save for heal.
NotNamed ==
    nsr.exists =>
        \A o \in Op :
            /\ op[o].worker = NoWorker => nsr.cur # o
            /\ \A w \in Worker :
                 /\ task[w][o].pc \in {"locked", "waiting", "begin"} => nsr.cur # o
                 /\ task[w][o].pc \in {"drain", "finOp"} /\ op[o].kind # "heal" =>
                       nsr.cur # o \/ ~Stored(o)

\* The only operation with an outcome that the record names is a heal about to
\* clear the name, or prevented from it by a crash.
NamedIsOpen ==
    (nsr.exists /\ nsr.cur # NoOp /\ op[nsr.cur].state \in Ends) =>
        /\ op[nsr.cur].kind = "heal"
        /\ crashes > 0 \/ \E w \in Worker : task[w][nsr.cur].pc = "finNs2"

NamedInv == StagesInv /\ Unended /\ NotNamed /\ NamedIsOpen

\* What a step does to the name and the outcome.
LEMMA NameEffects ==
    ASSUME NamedInv, nsr.exists, NEW w \in Worker, NEW o \in Op, TaskEffect(w, o)
    PROVE  /\ \/ nsr'.cur \in {nsr.cur, NoOp}
              \/ nsr'.cur = o /\ task[w][o].pc = "begin"
           /\ task[w][o].pc = "finNs2" /\ op[o].kind = "heal" => nsr'.cur = NoOp
<1> DEFINE t == task[w][o] u == task'[w][o] k == op[o].kind
<1> HIDE DEF t, u, k
<1>1. ASSUME NsEffect(t, u, k, o)
      PROVE  /\ nsr'.cur \in {nsr.cur, NoOp} \/ (nsr'.cur = o /\ t.pc = "begin")
             /\ t.pc = "finNs2" /\ k = "heal" => nsr'.cur = NoOp
  BY <1>1
     DEF NsEffect, Moves, EarlyEnd, BeginFails, InstantiateBegins,
         TerminateBegins, OtherBegins, Marks, Works, NsEnds, NsEndsAgain, Writes
<1>2. ASSUME Locks(t, u, w, o) \/ Clears(t, u, o) \/ OpEnds(t, u, k, o)
      PROVE  nsr' = nsr /\ t.pc # "finNs2"
  BY <1>2 DEF Locks, Clears, OpEnds
<1> QED
  BY <1>1, <1>2 DEF TaskEffect, t, u, k

\* An outcome is written at one stage only.
LEMMA OutcomeEffects ==
    ASSUME NamedInv, NEW w \in Worker, NEW o \in Op, TaskEffect(w, o)
    PROVE  \/ SameDoc(o)
           \/ /\ op'[o].state = op[o].state /\ op[o].worker = NoWorker
              /\ op'[o].worker = w /\ task'[w][o].pc = "locked"
           \/ /\ task[w][o].pc = "finOp" /\ op'[o].worker = op[o].worker
              /\ op'[o].state = op[o].state \/ Stored(o)
              /\ op[o].kind = "heal" => task'[w][o].pc = "finNs2"
              /\ task'[w][o].pc \in {"finNs2", "notify"}
<1> DEFINE t == task[w][o] u == task'[w][o] k == op[o].kind
<1>1. StagedAt(t, k)
  BY DEF NamedInv, StagesInv, Staged
<1> HIDE DEF t, u, k
<1>2. ASSUME OpEnds(t, u, k, o)
      PROVE  /\ t.pc = "finOp" /\ op'[o].worker = op[o].worker
             /\ op'[o].state = op[o].state \/ Stored(o)
             /\ k = "heal" => u.pc = "finNs2"
             /\ u.pc \in {"finNs2", "notify"}
  BY <1>1, <1>2 DEF OpEnds, StagedAt
<1>3. ASSUME Locks(t, u, w, o)
      PROVE  /\ op'[o].state = op[o].state /\ op[o].worker = NoWorker
             /\ op'[o].worker = w /\ u.pc = "locked"
  BY <1>3 DEF Locks
<1> QED
  BY <1>2, <1>3 DEF TaskEffect, t, u, k

\* Where a coroutine comes from that has not written its outcome.
LEMMA StageBefore ==
    ASSUME NamedInv, NEW w \in Worker, NEW o \in Op, TaskEffect(w, o),
           task'[w][o].pc \in LivePcs \ {"finNs2", "notify"}
    PROVE  \/ task[w][o].pc \in LivePcs \ {"finNs2", "notify"}
           \/ op[o].worker = NoWorker /\ task'[w][o].pc = "locked"
<1> DEFINE t == task[w][o] u == task'[w][o] k == op[o].kind
<1>1. u.pc \in LivePcs \ {"finNs2", "notify"}
  OBVIOUS
<1> HIDE DEF t, u, k
<1>2. ASSUME NsEffect(t, u, k, o) PROVE t.pc \in LivePcs \ {"finNs2", "notify"}
  <2>1. CASE Moves(t, u, k)
    BY <1>1, <2>1 DEF Moves, LivePcs, Pcs
  <2>2. CASE BeginFails(t, u, k, o) \/ InstantiateBegins(t, u, k, o)
             \/ TerminateBegins(t, u, k, o) \/ OtherBegins(t, u, k, o)
             \/ Marks(t, u) \/ Works(t, u, k) \/ NsEnds(t, u, k)
    BY <2>2 DEF BeginFails, InstantiateBegins, TerminateBegins, OtherBegins, Marks,
                Works, NsEnds, LivePcs, Pcs
  <2>3. CASE NsEndsAgain(t, u, k)
    BY <1>1, <2>3 DEF NsEndsAgain, LivePcs, Pcs
  <2> QED
    BY <1>2, <2>1, <2>2, <2>3 DEF NsEffect
<1>3. Locks(t, u, w, o) => op[o].worker = NoWorker /\ u.pc = "locked"
  BY DEF Locks
<1>4. Clears(t, u, o) => t.pc \in LivePcs \ {"finNs2", "notify"}
  BY DEF Clears, LivePcs, Pcs
<1>5. ~OpEnds(t, u, k, o)
  BY <1>1 DEF OpEnds
<1> QED
  BY <1>2, <1>3, <1>4, <1>5 DEF TaskEffect, t, u, k

\* The stages at which the record does not name the operation, for the coroutine
\* that moves.
LEMMA NotNamedStep ==
    ASSUME NamedInv, nsr.exists, NEW w \in Worker, NEW o \in Op, TaskEffect(w, o)
    PROVE  /\ task'[w][o].pc \in {"locked", "waiting", "begin"} => nsr'.cur # o
           /\ task'[w][o].pc \in {"drain", "finOp"} /\ op[o].kind # "heal" =>
                 nsr'.cur # o \/ ~Stored(o)'
<1> DEFINE t == task[w][o] u == task'[w][o] k == op[o].kind
<1>1. /\ t.pc \in {"locked", "waiting", "begin"} => nsr.cur # o
      /\ t.pc \in {"drain", "finOp"} /\ k # "heal" => nsr.cur # o \/ ~Stored(o)
      /\ op[o].worker = NoWorker => nsr.cur # o
      /\ NoOp # o
  BY NoneAssumption DEF NamedInv, NotNamed
<1>2. SameDoc(o) => (Stored(o)' <=> Stored(o))
  BY DEF SameDoc, Stored
<1> DEFINE Goal ==
      /\ u.pc \in {"locked", "waiting", "begin"} => nsr'.cur # o
      /\ u.pc \in {"drain", "finOp"} /\ k # "heal" => nsr'.cur # o \/ ~Stored(o)'
<1> HIDE DEF t, u, k
<1>3. ASSUME NsEffect(t, u, k, o), SameDoc(o) PROVE Goal
  <2>1. CASE Moves(t, u, k)
    BY <1>1, <1>2, <1>3, <2>1 DEF Moves, EarlyEnd, Same
  <2>2. CASE BeginFails(t, u, k, o)
    BY <1>1, <1>2, <1>3, <2>2 DEF BeginFails, EarlyEnd
  <2>3. CASE InstantiateBegins(t, u, k, o) \/ TerminateBegins(t, u, k, o)
             \/ OtherBegins(t, u, k, o) \/ Marks(t, u) \/ Works(t, u, k)
    BY <2>3 DEF InstantiateBegins, TerminateBegins, OtherBegins, Marks, Works
  <2>4. CASE NsEnds(t, u, k)
    BY <1>1, <2>4 DEF NsEnds
  <2>5. CASE NsEndsAgain(t, u, k)
    BY <2>5 DEF NsEndsAgain
  <2> QED
    BY <1>3, <2>1, <2>2, <2>3, <2>4, <2>5 DEF NsEffect
<1>4. ASSUME Locks(t, u, w, o) PROVE Goal
  BY <1>1, <1>4 DEF Locks
<1>5. ASSUME Clears(t, u, o) PROVE Goal
  BY <1>1, <1>5 DEF Clears
<1>6. ASSUME OpEnds(t, u, k, o) PROVE Goal
  BY <1>6 DEF OpEnds
<1> QED
  BY <1>3, <1>4, <1>5, <1>6 DEF TaskEffect, t, u, k

\* What a step of one coroutine leaves of the others' stages: only one coroutine
\* of an operation is alive.
LEMMA TaskNamed ==
    ASSUME NamedInv, StagesInv', NEW w \in Worker, NEW o \in Op, TaskEffect(w, o)
    PROVE  Unended' /\ NotNamed' /\ NamedIsOpen'
<1>0. LcmInv /\ LcmInv' /\ Unended /\ NotNamed /\ NamedIsOpen /\ Steps(w, o)
  BY DEF NamedInv, StagesInv, TaskEffect
<1>1. nsr'.exists = nsr.exists
  BY ExistsKept
<1>2. \A v \in Worker, p \in Op : v # w \/ p # o => task'[v][p] = task[v][p]
  BY <1>0 DEF Steps
<1>3. \A p \in Op \ {o} : /\ op'[p].state = op[p].state
                          /\ op'[p].worker = op[p].worker
  BY <1>0 DEF Steps
<1>4. \A p \in Op : op'[p].kind = op[p].kind
  BY <1>0 DEF Steps
<1>5. \/ SameDoc(o)
      \/ /\ op'[o].state = op[o].state /\ op[o].worker = NoWorker
         /\ op'[o].worker = w /\ task'[w][o].pc = "locked"
      \/ /\ task[w][o].pc = "finOp" /\ op'[o].worker = op[o].worker
         /\ op'[o].state = op[o].state \/ Stored(o)
         /\ op[o].kind = "heal" => task'[w][o].pc = "finNs2"
         /\ task'[w][o].pc \in {"finNs2", "notify"}
  BY OutcomeEffects
<1>6. task[w][o].pc \in {"finOp", "begin"} => op[o].worker = w
  BY <1>0, LiveIsAsked DEF LivePcs, Pcs
<1>7. \A v \in Worker : task'[v][o].pc \in LivePcs => op'[o].worker = v
  BY <1>0 DEF LcmInv, OneRunner
<1>8. w # NoWorker
  BY NoneAssumption
<1>9. Unended'
  <2> SUFFICES ASSUME NEW p \in Op
               PROVE  /\ op'[p].worker = NoWorker => op'[p].state \notin Ends
                      /\ \A v \in Worker :
                            task'[v][p].pc \in LivePcs \ {"finNs2", "notify"} =>
                                op'[p].state \notin Ends
    BY DEF Unended
  <2>1. CASE p # o
    BY <1>0, <1>2, <1>3, <2>1 DEF Unended
  <2>2. CASE p = o
    <3>1. op'[o].worker = NoWorker => op'[o].state \notin Ends
      BY <1>0, <1>5, <1>6, <1>8 DEF Unended, SameDoc
    <3>2. ASSUME NEW v \in Worker, task'[v][o].pc \in LivePcs \ {"finNs2", "notify"}
          PROVE  op'[o].state \notin Ends
      <4>1. CASE v = w
        <5>1. \/ task[w][o].pc \in LivePcs \ {"finNs2", "notify"}
              \/ op[o].worker = NoWorker /\ task'[w][o].pc = "locked"
          BY <3>2, <4>1, StageBefore
        <5>2. op[o].state \notin Ends
          BY <1>0, <5>1 DEF Unended
        <5>3. op'[o].state = op[o].state
          BY <1>5, <3>2, <4>1 DEF SameDoc
        <5> QED
          BY <5>2, <5>3
      <4>2. CASE v # w
        <5>1. task'[v][o] = task[v][o] /\ op'[o].worker = v
          BY <1>2, <1>7, <3>2, <4>2
        <5>2. op'[o].state = op[o].state
          BY <1>5, <1>6, <4>2, <5>1 DEF SameDoc
        <5> QED
          BY <1>0, <3>2, <5>1, <5>2 DEF Unended
      <4> QED
        BY <4>1, <4>2
    <3> QED
      BY <2>2, <3>1, <3>2
  <2> QED
    BY <2>1, <2>2
<1>10. ASSUME nsr'.exists
       PROVE  /\ \/ nsr'.cur \in {nsr.cur, NoOp}
                 \/ nsr'.cur = o /\ task[w][o].pc = "begin"
              /\ task[w][o].pc = "finNs2" /\ op[o].kind = "heal" => nsr'.cur = NoOp
  BY <1>1, <1>10, NameEffects
<1>11. NotNamed'
  <2> SUFFICES ASSUME nsr'.exists, NEW p \in Op
               PROVE  /\ op'[p].worker = NoWorker => nsr'.cur # p
                      /\ \A v \in Worker :
                           /\ task'[v][p].pc \in {"locked", "waiting", "begin"} =>
                                 nsr'.cur # p
                           /\ task'[v][p].pc \in {"drain", "finOp"}
                                /\ op'[p].kind # "heal" =>
                                 nsr'.cur # p \/ ~Stored(p)'
    BY DEF NotNamed
  <2>0. nsr.exists /\ NoOp # p
    BY <1>1, NoneAssumption
  <2>1. CASE p # o
    <3>1. nsr.cur # p => nsr'.cur # p
      BY <1>10, <2>0, <2>1
    <3>2. Stored(p)' <=> Stored(p)
      BY <1>3, <2>1 DEF Stored
    <3> QED
      BY <1>0, <1>2, <1>3, <1>4, <2>0, <2>1, <3>1, <3>2 DEF NotNamed
  <2>2. CASE p = o
    <3>1. op'[o].worker = NoWorker => nsr'.cur # o
      BY <1>0, <1>5, <1>6, <1>8, <1>10, <2>0, <2>2 DEF NotNamed, SameDoc
    <3>2. ASSUME NEW v \in Worker, v # w,
                 task'[v][o].pc \in {"locked", "waiting", "begin", "drain", "finOp"}
          PROVE  /\ task'[v][o] = task[v][o] /\ nsr'.cur \in {nsr.cur, NoOp}
                 /\ op'[o].state = op[o].state
      <4>1. task'[v][o] = task[v][o] /\ op'[o].worker = v
        BY <1>2, <1>7, <3>2 DEF LivePcs, Pcs
      <4>2. task[v][o].pc \in LivePcs
        BY <3>2, <4>1 DEF LivePcs, Pcs
      <4>3. op[o].worker = v
        BY <1>0, <4>2, LiveIsAsked
      <4> QED
        BY <1>5, <1>6, <1>8, <1>10, <3>2, <4>1, <4>3 DEF SameDoc
    <3>3. ASSUME NEW v \in Worker
          PROVE  /\ task'[v][o].pc \in {"locked", "waiting", "begin"} => nsr'.cur # o
                 /\ task'[v][o].pc \in {"drain", "finOp"} /\ op'[o].kind # "heal" =>
                       nsr'.cur # o \/ ~Stored(o)'
      <4>1. CASE v = w
        BY <1>4, <2>0, <4>1, NotNamedStep
      <4>2. CASE v # w
        <5>1. /\ task[v][o].pc \in {"locked", "waiting", "begin"} => nsr.cur # o
              /\ task[v][o].pc \in {"drain", "finOp"} /\ op[o].kind # "heal" =>
                    nsr.cur # o \/ ~Stored(o)
          BY <1>0, <2>0 DEF NotNamed
        <5> QED
          BY <1>4, <2>0, <2>2, <3>2, <4>2, <5>1 DEF Stored
      <4> QED
        BY <4>1, <4>2
    <3> QED
      BY <2>2, <3>1, <3>3
  <2> QED
    BY <2>1, <2>2
<1>12. NamedIsOpen'
  <2> SUFFICES ASSUME nsr'.exists, nsr'.cur # NoOp, op'[nsr'.cur].state \in Ends
               PROVE  /\ op'[nsr'.cur].kind = "heal"
                      /\ crashes' > 0
                           \/ \E v \in Worker : task'[v][nsr'.cur].pc = "finNs2"
    BY DEF NamedIsOpen
  <2>0. nsr.exists /\ crashes' = crashes /\ nsr'.cur \in Op
    BY <1>0, <1>1 DEF Steps, LcmInv, TypeOK, NsrRec
  <2>1. CASE nsr'.cur = o /\ task[w][o].pc = "begin"
    <3>1. op[o].state \notin Ends
      BY <1>0, <2>1 DEF Unended, LivePcs, Pcs
    <3>2. op'[o].state = op[o].state
      BY <1>5, <2>1 DEF SameDoc
    <3> QED
      BY <2>1, <3>1, <3>2
  <2>2. CASE nsr'.cur = nsr.cur /\ nsr.cur # o
    BY <1>0, <1>2, <1>3, <1>4, <2>0, <2>2 DEF NamedIsOpen
  <2>3. CASE nsr'.cur = nsr.cur /\ nsr.cur = o
    <3>1. CASE op'[o].state = op[o].state
      <4>1. /\ op[o].kind = "heal"
            /\ crashes > 0 \/ \E v \in Worker : task[v][o].pc = "finNs2"
        BY <1>0, <2>0, <2>3, <3>1 DEF NamedIsOpen
      <4>2. task[w][o].pc # "finNs2"
        BY <1>10, <2>3, <4>1
      <4>3. \A v \in Worker : task[v][o].pc = "finNs2" => task'[v][o] = task[v][o]
        BY <1>2, <4>2
      <4> QED
        BY <1>4, <2>0, <2>3, <4>1, <4>3
    <3>2. CASE op'[o].state # op[o].state
      <4>1. /\ task[w][o].pc = "finOp" /\ Stored(o)
            /\ op[o].kind = "heal" => task'[w][o].pc = "finNs2"
        BY <1>5, <3>2 DEF SameDoc
      <4>2. op[o].kind = "heal"
        BY <1>0, <2>0, <2>3, <4>1 DEF NotNamed
      <4> QED
        BY <1>4, <2>3, <4>1, <4>2
    <3> QED
      BY <3>1, <3>2
  <2> QED
    BY <1>10, <2>1, <2>2, <2>3
<1> QED
  BY <1>9, <1>11, <1>12

\* The name stays that of an open operation.
LEMMA NextNamed == NamedInv /\ [Next]_vars => NamedInv'
<1> SUFFICES ASSUME NamedInv, [Next]_vars PROVE NamedInv'
  OBVIOUS
<1>0. /\ LcmInv /\ Unended /\ NotNamed /\ NamedIsOpen /\ StagesInv /\ StagesInv'
      /\ UnstoredIsFree /\ TypeOK
  BY NextStages DEF NamedInv, StagesInv, LcmInv
<1>1. Effect
  BY <1>0, StepEffects
<1>2. CASE CalmEffect
  <2>1. UNCHANGED <<nsr, task, crashes>>
    BY <1>2 DEF CalmEffect
  <2>2. \A p \in Op :
           /\ op'[p].worker = op[p].worker
           /\ op'[p].state \in Ends => op'[p].state = op[p].state
           /\ op[p].state # "ABSENT" => op'[p].kind = op[p].kind
           /\ Stored(p)' => Stored(p) \/ op[p].state = "ABSENT"
    BY <1>0, <1>2 DEF CalmEffect, Ends, UnstoredIsFree
  <2>3. Unended'
    BY <1>0, <2>1, <2>2 DEF Unended
  <2>4. NotNamed'
    <3> SUFFICES ASSUME nsr'.exists, NEW p \in Op
                 PROVE  /\ op'[p].worker = NoWorker => nsr'.cur # p
                        /\ \A v \in Worker :
                             /\ task'[v][p].pc \in {"locked", "waiting", "begin"} =>
                                   nsr'.cur # p
                             /\ task'[v][p].pc \in {"drain", "finOp"}
                                  /\ op'[p].kind # "heal" =>
                                   nsr'.cur # p \/ ~Stored(p)'
      BY DEF NotNamed
    <3>1. \A v \in Worker : task[v][p].pc \in {"drain", "finOp"} =>
             op[p].state # "ABSENT"
      BY <1>0, LiveIsAsked DEF LivePcs, Pcs
    <3> QED
      BY <1>0, <2>1, <2>2, <3>1 DEF NotNamed
  <2>5. NamedIsOpen'
    <3>1. nsr.cur # NoOp => nsr.cur \in Op
      BY <1>0 DEF TypeOK, NsrRec
    <3> QED
      BY <1>0, <2>1, <2>2, <3>1 DEF NamedIsOpen, Ends
  <2> QED
    BY <1>0, <2>3, <2>4, <2>5 DEF NamedInv
<1>3. CASE RemoveEffect
  BY <1>0, <1>3 DEF RemoveEffect, NamedInv, Unended, NotNamed, NamedIsOpen
<1>4. ASSUME NEW w \in Worker, CrashEffect(w) PROVE NamedInv'
  <2>1. NoTask.pc = "none"
    BY DEF NoTask
  <2>2. \A v \in Worker, p \in Op :
           task'[v][p].pc # "none" => task'[v][p] = task[v][p]
    BY <1>4, <2>1 DEF CrashEffect
  <2>3. Unended'
    BY <1>0, <1>4, <2>2 DEF CrashEffect, Unended, LivePcs, Pcs
  <2>4. NotNamed'
    BY <1>0, <1>4, <2>2 DEF CrashEffect, NotNamed, Stored
  <2>5. crashes' > 0
    BY <1>0, <1>4 DEF CrashEffect, TypeOK
  <2>6. NamedIsOpen'
    BY <1>0, <1>4, <2>5 DEF CrashEffect, NamedIsOpen
  <2> QED
    BY <1>0, <2>3, <2>4, <2>6 DEF NamedInv
<1>5. ASSUME NEW w \in Worker, NEW o \in Op, TaskEffect(w, o) PROVE NamedInv'
  BY <1>0, <1>5, TaskNamed DEF NamedInv
<1> QED
  BY <1>1, <1>2, <1>3, <1>4, <1>5 DEF Effect

\* Initially the record names nobody.
LEMMA InitNamed == Init => NamedInv
<1> SUFFICES ASSUME Init PROVE NamedInv
  OBVIOUS
<1>1. NewNsr.cur = NoOp /\ ReadyNsr.cur = NoOp
  BY DEF NewNsr, ReadyNsr
<1>2. nsr.cur = NoOp
  BY <1>1 DEF Init
<1>3. \A o \in Op : o # NoOp /\ op[o].state = "ABSENT"
  BY NoneAssumption DEF Init
<1> QED
  BY <1>2, <1>3, InitStages DEF NamedInv, Unended, NotNamed, NamedIsOpen, Ends

\* Whoever sees a busy NS finds an operation that is really open: the record
\* names none that ended, save for a heal that a crash kept from clearing its
\* name.
THEOREM BusyIsOpen == Spec => []BusyHasOwner
<1>1. NamedInv => BusyHasOwner
  <2> SUFFICES ASSUME NamedInv, nsr.exists, nsr.cur # NoOp,
                      op[nsr.cur].state \in Ends, ~(crashes > 0)
               PROVE  Active(nsr.cur)
    BY DEF BusyHasOwner, NamedInv, NamedIsOpen, Ends
  <2>1. nsr.cur \in Op
    BY DEF NamedInv, StagesInv, LcmInv, TypeOK, NsrRec
  <2>2. PICK w \in Worker : task[w][nsr.cur].pc = "finNs2" /\ op[nsr.cur].kind = "heal"
    BY DEF NamedInv, NamedIsOpen
  <2>3. task[w][nsr.cur].begun
    BY <2>1, <2>2 DEF NamedInv, StagesInv, Staged, StagedAt
  <2> QED
    BY <2>2, <2>3 DEF Active, ActiveAt, FinalPcs
<1> QED
  BY <1>1, InitNamed, NextNamed, PTL DEF Spec
=============================================================================
