------------------------- MODULE AccountOps_proofs -------------------------
(***************************************************************************)
(* Theorems about AccountOps, for every set of requests and workers, every *)
(* number of RO's objects and every bound.                                 *)
(***************************************************************************)
EXTENDS AccountOps, SequenceTheorems, TLAPS

-----------------------------------------------------------------------------
(* Lemmas about the operators of the model                                  *)

TaskRec == [pc : TaskPcs, ok : BOOLEAN, seen : RoId \cup {NoRo}]

\* The coroutine of r at w moves to pc, the others stay.
Became(w, r, pc, ok, seen) ==
    /\ task' \in [Worker -> [Request -> TaskRec]]
    /\ task'[w][r].pc = pc
    /\ task'[w][r].ok = ok
    /\ task'[w][r].seen = seen
    /\ \A v \in Worker, q \in Request :
          v # w \/ q # r => task'[v][q] = task[v][q]

LEMMA TaskType == TypeOK => task \in [Worker -> [Request -> TaskRec]]
BY DEF TypeOK, TaskRec

\* One coroutine is written at a time.
LEMMA TaskSet ==
    ASSUME TypeOK, NEW w \in Worker, NEW r \in Request, NEW t \in TaskRec,
           task' = [task EXCEPT ![w][r] = t]
    PROVE  Became(w, r, t.pc, t.ok, t.seen)
<1>1. task \in [Worker -> [Request -> TaskRec]]
  BY TaskType
<1>2. [task[w] EXCEPT ![r] = t] \in [Request -> TaskRec]
  BY <1>1
<1>3. task' = [task EXCEPT ![w] = [task[w] EXCEPT ![r] = t]]
  BY <1>1
<1>4. task' \in [Worker -> [Request -> TaskRec]]
  BY <1>1, <1>2, <1>3
<1>5. task'[w][r] = t
  BY <1>1, <1>3
<1>6. \A v \in Worker, q \in Request :
         v # w \/ q # r => task'[v][q] = task[v][q]
  BY <1>1, <1>3
<1> QED
  BY <1>4, <1>5, <1>6 DEF Became

\* What the ways to move a coroutine on do to it.
LEMMA TaskMoves ==
    ASSUME TypeOK, NEW w \in Worker, NEW r \in Request, NEW pc \in TaskPcs,
           NEW id \in RoId \cup {NoRo}
    PROVE  /\ Goto(w, r, pc) =>
                Became(w, r, pc, task[w][r].ok, task[w][r].seen)
           /\ Fails(w, r, pc) => Became(w, r, pc, FALSE, task[w][r].seen)
           /\ task' = [task EXCEPT ![w][r] = [NoTask EXCEPT !.pc = pc]] =>
                Became(w, r, pc, TRUE, NoRo)
           /\ task' = [task EXCEPT ![w][r].seen = id, ![w][r].pc = pc] =>
                Became(w, r, pc, task[w][r].ok, id)
<1>0. task \in [Worker -> [Request -> TaskRec]]
  BY TaskType
<1>1. task[w][r] \in TaskRec
  BY <1>0
<1>3. ASSUME Goto(w, r, pc)
      PROVE  Became(w, r, pc, task[w][r].ok, task[w][r].seen)
  <2> DEFINE u == [task[w][r] EXCEPT !.pc = pc]
  <2>1. u \in TaskRec /\ <<u.pc, u.ok, u.seen>> = <<pc, task[w][r].ok, task[w][r].seen>>
    BY <1>1 DEF TaskRec, NoTask
  <2>2. task' = [task EXCEPT ![w][r] = u]
    BY <1>0, <1>3 DEF Goto
  <2> HIDE DEF u
  <2>3. Became(w, r, u.pc, u.ok, u.seen)
    BY <2>1, <2>2, TaskSet
  <2> QED
    BY <2>1, <2>3
<1>4. ASSUME Fails(w, r, pc)
      PROVE  Became(w, r, pc, FALSE, task[w][r].seen)
  <2> DEFINE u == [task[w][r] EXCEPT !.pc = pc, !.ok = FALSE]
  <2>1. u \in TaskRec /\ <<u.pc, u.ok, u.seen>> = <<pc, FALSE, task[w][r].seen>>
    BY <1>1 DEF TaskRec, NoTask
  <2>2. task' = [task EXCEPT ![w][r] = u]
    <3> DEFINE t == [task EXCEPT ![w][r].pc = pc]
    <3>1. task' = [t EXCEPT ![w][r].ok = FALSE]
      BY <1>0, <1>4 DEF Fails
    <3>2. t = [task EXCEPT ![w][r] = [task[w][r] EXCEPT !.pc = pc]]
      BY <1>0
    <3>3. t[w][r] = [task[w][r] EXCEPT !.pc = pc]
      BY <1>0, <3>2
    <3>4. task' = [t EXCEPT ![w][r] = [t[w][r] EXCEPT !.ok = FALSE]]
      BY <1>0, <3>1
    <3> QED
      BY <1>0, <3>2, <3>3, <3>4
  <2> HIDE DEF u
  <2>3. Became(w, r, u.pc, u.ok, u.seen)
    BY <2>1, <2>2, TaskSet
  <2> QED
    BY <2>1, <2>3
<1>5. ASSUME task' = [task EXCEPT ![w][r] = [NoTask EXCEPT !.pc = pc]]
      PROVE  Became(w, r, pc, TRUE, NoRo)
  <2> DEFINE u == [NoTask EXCEPT !.pc = pc]
  <2>1. u \in TaskRec /\ <<u.pc, u.ok, u.seen>> = <<pc, TRUE, NoRo>>
    BY <1>1 DEF TaskRec, NoTask
  <2>2. task' = [task EXCEPT ![w][r] = u]
    BY <1>1, <1>5
  <2> HIDE DEF u
  <2>3. Became(w, r, u.pc, u.ok, u.seen)
    BY <2>1, <2>2, TaskSet
  <2> QED
    BY <2>1, <2>3
<1>6. ASSUME task' = [task EXCEPT ![w][r].seen = id, ![w][r].pc = pc]
      PROVE  Became(w, r, pc, task[w][r].ok, id)
  <2> DEFINE u == [task[w][r] EXCEPT !.seen = id, !.pc = pc]
  <2>1. u \in TaskRec /\ <<u.pc, u.ok, u.seen>> = <<pc, task[w][r].ok, id>>
    BY <1>1 DEF TaskRec, NoTask
  <2>2. task' = [task EXCEPT ![w][r] = u]
    <3> DEFINE t == [task EXCEPT ![w][r].seen = id]
    <3>1. task' = [t EXCEPT ![w][r].pc = pc]
      BY <1>0, <1>6
    <3>2. t = [task EXCEPT ![w][r] = [task[w][r] EXCEPT !.seen = id]]
      BY <1>0
    <3>3. t[w][r] = [task[w][r] EXCEPT !.seen = id]
      BY <1>0, <3>2
    <3>4. task' = [t EXCEPT ![w][r] = [t[w][r] EXCEPT !.pc = pc]]
      BY <1>0, <3>1
    <3> QED
      BY <1>0, <3>2, <3>3, <3>4
  <2> HIDE DEF u
  <2>3. Became(w, r, u.pc, u.ok, u.seen)
    BY <2>1, <2>2, TaskSet
  <2> QED
    BY <2>1, <2>3
<1> QED
  BY <1>3, <1>4, <1>5, <1>6

\* The list of operations of the record.
LEMMA OpsFacts ==
    ASSUME TypeOK
    PROVE  /\ acct.ops \in Seq(OperationRec) /\ copy.ops \in Seq(OperationRec)
           /\ Len(acct.ops) \in Nat /\ Len(copy.ops) \in Nat
           /\ DOMAIN acct.ops = 1..Len(acct.ops)
           /\ DOMAIN copy.ops = 1..Len(copy.ops)
           /\ \A i \in DOMAIN acct.ops : acct.ops[i] \in OperationRec
           /\ \A i \in DOMAIN copy.ops : copy.ops[i] \in OperationRec
<1>1. acct.ops \in Seq(OperationRec) /\ copy.ops \in Seq(OperationRec)
  BY DEF TypeOK, AccountRec
<1> QED
  BY <1>1, LenProperties, ElementOfSeq

\* Another operation comes after those of the list.
LEMMA OpsAppend ==
    ASSUME NEW s \in Seq(OperationRec)
    PROVE  LET t == Append(s, NewOperation)
           IN  /\ t \in Seq(OperationRec)
               /\ Len(t) = Len(s) + 1 /\ DOMAIN t = 1..Len(s) + 1
               /\ \A i \in DOMAIN s : i \in DOMAIN t /\ t[i] = s[i]
               /\ t[Len(s) + 1] = NewOperation
<1>1. NewOperation \in OperationRec
  BY DEF NewOperation, OperationRec
<1>2. Len(s) \in Nat /\ DOMAIN s = 1..Len(s)
  BY LenProperties
<1> QED
  BY <1>1, <1>2, AppendProperties, LenProperties

\* One operation of the list is written.
LEMMA OpsWrite ==
    ASSUME NEW s \in Seq(OperationRec), NEW i \in DOMAIN s, NEW e \in OperationRec
    PROVE  LET t == [s EXCEPT ![i] = e]
           IN  /\ t \in Seq(OperationRec)
               /\ Len(t) = Len(s) /\ DOMAIN t = DOMAIN s
               /\ \A j \in DOMAIN s : t[j] = IF j = i THEN e ELSE s[j]
<1>1. Len(s) \in Nat /\ DOMAIN s = 1..Len(s)
  BY LenProperties
<1> QED
  BY <1>1, ExceptSeq, LenProperties

\* One operation of the list gets a worker.
LEMMA OpsWorker ==
    ASSUME NEW s \in Seq(OperationRec), NEW i \in DOMAIN s, NEW w \in Worker
    PROVE  LET t == [s EXCEPT ![i].worker = w]
           IN  /\ t \in Seq(OperationRec)
               /\ Len(t) = Len(s) /\ DOMAIN t = DOMAIN s
               /\ \A j \in DOMAIN s : t[j].state = s[j].state
               /\ t[i].worker = w
               /\ \A j \in DOMAIN s : j # i => t[j] = s[j]
<1>1. Len(s) \in Nat /\ DOMAIN s = 1..Len(s) /\ s \in [1..Len(s) -> OperationRec]
  BY LenProperties
<1>2. s[i] \in OperationRec
  BY <1>1
<1> DEFINE e == [s[i] EXCEPT !.worker = w]
<1>3. e \in OperationRec /\ e.state = s[i].state /\ e.worker = w
  BY <1>2 DEF OperationRec
<1>4. [s EXCEPT ![i].worker = w] = [s EXCEPT ![i] = e]
  BY <1>1
<1> HIDE DEF e
<1>5. LET t == [s EXCEPT ![i] = e]
      IN  /\ t \in Seq(OperationRec)
          /\ Len(t) = Len(s) /\ DOMAIN t = DOMAIN s
          /\ \A j \in DOMAIN s : t[j] = IF j = i THEN e ELSE s[j]
  BY <1>3, OpsWrite
<1> QED
  BY <1>3, <1>4, <1>5

LEMMA NoAccountFields ==
    NoAccount \in AccountRec /\ NoAccount.exists = FALSE /\ NoAccount.ro = NoRo
<1>1. <<>> \in Seq(OperationRec)
  BY EmptySeq
<1> QED
  BY <1>1 DEF NoAccount, AccountRec

\* A write of some fields of the record.
Wrote(exists, ops, ro, status, content) ==
    /\ acct' \in AccountRec
    /\ acct'.exists = exists /\ acct'.ops = ops /\ acct'.ro = ro
    /\ acct'.status = status /\ acct'.content = content

LEMMA RoWritten ==
    ASSUME TypeOK, NEW ro \in RoId \cup {NoRo},
           NEW status \in {"PROCESSING", "ENABLED", "ERROR"},
           acct' = [acct EXCEPT !.status = status, !.ro = ro]
    PROVE  Wrote(acct.exists, acct.ops, ro, status, acct.content)
<1>1. acct \in AccountRec
  BY DEF TypeOK
<1> QED
  BY <1>1 DEF Wrote, AccountRec

LEMMA OpsWritten ==
    ASSUME TypeOK, NEW ops \in Seq(OperationRec), acct' = [acct EXCEPT !.ops = ops]
    PROVE  Wrote(acct.exists, ops, acct.ro, acct.status, acct.content)
<1>1. acct \in AccountRec
  BY DEF TypeOK
<1> QED
  BY <1>1 DEF Wrote, AccountRec

LEMMA StartEffect ==
    ASSUME TypeOK, NEW w \in Worker, NEW r \in Request, Start(w, r), acct.exists
    PROVE  /\ Became(w, r, "call", task[w][r].ok, task[w][r].seen)
           /\ Wrote(TRUE, acct.ops, NoRo, acct.status, acct.content)
<1>1. acct \in AccountRec
  BY DEF TypeOK
<1>2. acct' = [acct EXCEPT !.ro = NoRo]
  BY DEF Start
<1>3. Wrote(TRUE, acct.ops, NoRo, acct.status, acct.content)
  BY <1>1, <1>2 DEF Wrote, AccountRec
<1> QED
  BY <1>3, TaskMoves DEF Start, TaskPcs

LEMMA RecordEffect ==
    ASSUME TypeOK, NEW w \in Worker, NEW r \in Request, Record(w, r), acct.exists
    PROVE  /\ Became(w, r, "attach", task[w][r].ok, task[w][r].seen)
           /\ Wrote(TRUE, acct.ops, task[w][r].seen, acct.status, acct.content)
<1>1. acct \in AccountRec /\ task[w][r].seen \in RoId \cup {NoRo}
  BY DEF TypeOK
<1>2. acct' = [acct EXCEPT !.ro = task[w][r].seen]
  BY DEF Record
<1>3. Wrote(TRUE, acct.ops, task[w][r].seen, acct.status, acct.content)
  BY <1>1, <1>2 DEF Wrote, AccountRec
<1> QED
  BY <1>3, TaskMoves DEF Record, TaskPcs

\* The status that update_db_2 writes, and the id that an SDN's create leaves.
LEMMA FinishEffect ==
    ASSUME TypeOK, NEW w \in Worker, NEW r \in Request, Finish(w, r), acct.exists
    PROVE  /\ Became(w, r, "unlock", task[w][r].ok, task[w][r].seen)
                \/ Became(w, r, "over", TRUE, NoRo)
           /\ r \notin Delete =>
                Became(w, r, "unlock", task[w][r].ok, task[w][r].seen)
           /\ Wrote(TRUE, acct.ops,
                    IF kind = "sdn" /\ r = Create /\ task[w][r].ok
                      THEN task[w][r].seen ELSE acct.ro,
                    FinalStatus(w, r), acct.content)
<1> DEFINE ro == IF kind = "sdn" /\ r = Create /\ task[w][r].ok
                   THEN task[w][r].seen ELSE acct.ro
<1>1. /\ acct \in AccountRec /\ task[w][r].seen \in RoId \cup {NoRo}
      /\ acct.ro \in RoId \cup {NoRo}
  BY DEF TypeOK, AccountRec
<1>2. acct' = [acct EXCEPT !.status = FinalStatus(w, r), !.ro = ro]
  BY DEF Finish
<1>3. FinalStatus(w, r) \in {"PROCESSING", "ENABLED", "ERROR"} /\ ro \in RoId \cup {NoRo}
  BY <1>1 DEF FinalStatus, AccountRec
<1> HIDE DEF ro
<1>4. Wrote(acct.exists, acct.ops, ro, FinalStatus(w, r), acct.content)
  BY <1>2, <1>3, RoWritten
<1> QED
  BY <1>4, TaskMoves DEF Finish, TaskPcs, Over, ro

\* lock_HA leaves the worker's name in the entry, if anything.
LEMMA LockEffect ==
    ASSUME TypeOK, NEW w \in Worker, NEW r \in Request, Lock(w, r)
    PROVE  /\ GoesOn(r) => Became(w, r, IF r = Create THEN "start" ELSE "read",
                                  task[w][r].ok, task[w][r].seen)
           /\ ~GoesOn(r) => Became(w, r, "over", TRUE, NoRo)
           /\ acct' = acct \/
                /\ LockFree(r)
                /\ Wrote(TRUE, acct'.ops, acct.ro, acct.status, acct.content)
           /\ LockFree(r) => acct'.ops[index[r]].worker = w
           /\ Len(acct'.ops) = Len(acct.ops) /\ DOMAIN acct'.ops = DOMAIN acct.ops
           /\ \A j \in DOMAIN acct.ops :
                /\ acct'.ops[j].state = acct.ops[j].state
                /\ j # index[r] => acct'.ops[j] = acct.ops[j]
<1>1. /\ GoesOn(r) => Became(w, r, IF r = Create THEN "start" ELSE "read",
                             task[w][r].ok, task[w][r].seen)
      /\ ~GoesOn(r) => Became(w, r, "over", TRUE, NoRo)
  BY TaskMoves DEF Lock, TaskPcs, Over
<1>2. CASE ~LockFree(r)
  BY <1>1, <1>2 DEF Lock
<1>3. CASE LockFree(r)
  <2> DEFINE ops == [acct.ops EXCEPT ![index[r]].worker = w]
  <2>1. acct.ops \in Seq(OperationRec) /\ index[r] \in DOMAIN acct.ops /\ acct.exists = TRUE
    BY <1>3 DEF LockFree, TypeOK, AccountRec
  <2>2. /\ ops \in Seq(OperationRec)
        /\ Len(ops) = Len(acct.ops) /\ DOMAIN ops = DOMAIN acct.ops
        /\ \A j \in DOMAIN acct.ops : ops[j].state = acct.ops[j].state
        /\ ops[index[r]].worker = w
        /\ \A j \in DOMAIN acct.ops : j # index[r] => ops[j] = acct.ops[j]
    BY <2>1, OpsWorker
  <2>3. acct' = [acct EXCEPT !.ops = ops]
    BY <1>3 DEF Lock
  <2> HIDE DEF ops
  <2>4. Wrote(TRUE, ops, acct.ro, acct.status, acct.content)
    BY <2>1, <2>2, <2>3, OpsWritten
  <2> QED
    BY <1>1, <1>3, <2>2, <2>4 DEF Wrote
<1> QED
  BY <1>2, <1>3

\* unlock_HA closes the entry, if there is one.
LEMMA UnlockEffect ==
    ASSUME TypeOK, NEW w \in Worker, NEW r \in Request, Unlock(w, r)
    PROVE  /\ r \in Delete =>
                Became(w, r, "finish", task[w][r].ok, task[w][r].seen)
           /\ r \notin Delete => Became(w, r, "over", TRUE, NoRo)
           /\ IF acct.exists /\ index[r] \in DOMAIN acct.ops
                THEN /\ Wrote(TRUE, acct'.ops, acct.ro, acct.status, acct.content)
                     /\ acct'.ops[index[r]].state = Outcome(w, r)
                ELSE acct' = acct
           /\ Len(acct'.ops) = Len(acct.ops) /\ DOMAIN acct'.ops = DOMAIN acct.ops
           /\ \A j \in DOMAIN acct.ops : j # index[r] => acct'.ops[j] = acct.ops[j]
<1>1. /\ r \in Delete => Became(w, r, "finish", task[w][r].ok, task[w][r].seen)
      /\ r \notin Delete => Became(w, r, "over", TRUE, NoRo)
  BY TaskMoves DEF Unlock, TaskPcs, Over
<1>2. CASE ~(acct.exists /\ index[r] \in DOMAIN acct.ops)
  BY <1>1, <1>2 DEF Unlock
<1>3. CASE acct.exists /\ index[r] \in DOMAIN acct.ops
  <2> DEFINE e == [state |-> Outcome(w, r), worker |-> NoWorker]
             ops == [acct.ops EXCEPT ![index[r]] = e]
  <2>1. acct.ops \in Seq(OperationRec) /\ acct.exists = TRUE
    BY <1>3 DEF TypeOK, AccountRec
  <2>2. e \in OperationRec /\ e.state = Outcome(w, r)
    BY DEF Outcome, OperationRec
  <2>3. acct' = [acct EXCEPT !.ops = ops]
    BY <1>3 DEF Unlock
  <2> HIDE DEF e
  <2>4. /\ ops \in Seq(OperationRec)
        /\ Len(ops) = Len(acct.ops) /\ DOMAIN ops = DOMAIN acct.ops
        /\ \A j \in DOMAIN acct.ops : ops[j] = IF j = index[r] THEN e ELSE acct.ops[j]
    BY <1>3, <2>1, <2>2, OpsWrite
  <2> HIDE DEF ops
  <2>5. Wrote(TRUE, ops, acct.ro, acct.status, acct.content)
    BY <2>1, <2>3, <2>4, OpsWritten
  <2> QED
    BY <1>1, <1>3, <2>2, <2>4, <2>5 DEF Wrote
<1> QED
  BY <1>2, <1>3

\* The list grows by an operation nobody works on.
Appended(ops) ==
    /\ acct'.ops \in Seq(OperationRec)
    /\ Len(acct'.ops) = Len(ops) + 1
    /\ DOMAIN acct'.ops = 1..(Len(ops) + 1)
    /\ \A j \in DOMAIN ops : j \in DOMAIN acct'.ops /\ acct'.ops[j] = ops[j]
    /\ acct'.ops[Len(ops) + 1] = NewOperation

LEMMA CreateEffect ==
    ASSUME TypeOK, NbiCreate
    PROVE  /\ Wrote(TRUE, <<NewOperation>>, NoRo, "PROCESSING", {})
           /\ Len(acct'.ops) = 1 /\ DOMAIN acct'.ops = 1..1
           /\ acct'.ops[1] = NewOperation
<1>1. NewOperation \in OperationRec
  BY DEF NewOperation, OperationRec
<1>2. <<NewOperation>> \in Seq(OperationRec)
  BY <1>1
<1>3. acct' = [exists |-> TRUE, ops |-> <<NewOperation>>, ro |-> NoRo,
               status |-> "PROCESSING", content |-> {}]
  BY DEF NbiCreate, NoAccount
<1>4. acct' \in AccountRec
  BY <1>2, <1>3 DEF AccountRec
<1> QED
  BY <1>3, <1>4 DEF Wrote

LEMMA EditEffect ==
    ASSUME TypeOK, NEW r \in Request, NbiEdit(r), acct.exists
    PROVE  /\ Wrote(copy.exists, acct'.ops, copy.ro, copy.status, copy.content \cup {r})
           /\ Appended(copy.ops)
<1> DEFINE ops == Append(copy.ops, NewOperation)
           content == copy.content \cup {r}
<1>1. copy \in AccountRec /\ copy.ops \in Seq(OperationRec) /\ content \in SUBSET Edit
  BY DEF TypeOK, AccountRec, NbiEdit
<1>2. /\ ops \in Seq(OperationRec)
      /\ Len(ops) = Len(copy.ops) + 1 /\ DOMAIN ops = 1..Len(copy.ops) + 1
      /\ \A i \in DOMAIN copy.ops : i \in DOMAIN ops /\ ops[i] = copy.ops[i]
      /\ ops[Len(copy.ops) + 1] = NewOperation
  BY <1>1, OpsAppend
<1>3. acct' = [copy EXCEPT !.ops = ops, !.content = content]
  BY DEF NbiEdit
<1> HIDE DEF ops, content
<1>4. Wrote(copy.exists, ops, copy.ro, copy.status, content)
  BY <1>1, <1>2, <1>3 DEF Wrote, AccountRec
<1> QED
  BY <1>2, <1>4 DEF Wrote, Appended, content

LEMMA DeleteEffect ==
    ASSUME TypeOK, NEW r \in Request, NbiDelete(r), acct.exists, r \notin Forced
    PROVE  /\ Wrote(TRUE, acct'.ops, acct.ro, acct.status, acct.content)
           /\ Appended(acct.ops)
<1> DEFINE ops == Append(acct.ops, NewOperation)
<1>1. acct \in AccountRec /\ acct.ops \in Seq(OperationRec) /\ acct.exists = TRUE
  BY DEF TypeOK, AccountRec
<1>2. /\ ops \in Seq(OperationRec)
      /\ Len(ops) = Len(acct.ops) + 1 /\ DOMAIN ops = 1..Len(acct.ops) + 1
      /\ \A i \in DOMAIN acct.ops : i \in DOMAIN ops /\ ops[i] = acct.ops[i]
      /\ ops[Len(acct.ops) + 1] = NewOperation
  BY <1>1, OpsAppend
<1>3. acct' = [acct EXCEPT !.ops = ops]
  BY DEF NbiDelete
<1> HIDE DEF ops
<1>4. Wrote(TRUE, ops, acct.ro, acct.status, acct.content)
  BY <1>1, <1>2, <1>3, OpsWritten
<1> QED
  BY <1>2, <1>4 DEF Wrote, Appended

-----------------------------------------------------------------------------
(* Types                                                                    *)

LEMMA InitTypes == Init => TypeOK
<1> SUFFICES ASSUME Init PROVE TypeOK
  OBVIOUS
<1>1. acct \in AccountRec /\ copy \in AccountRec
  BY NoAccountFields DEF Init
<1>2. NoTask \in TaskRec
  BY DEF NoTask, TaskRec, TaskPcs
<1>3. task \in [Worker -> [Request -> TaskRec]]
  BY <1>2 DEF Init
<1> QED
  BY <1>1, <1>3 DEF Init, TypeOK, TaskRec

LEMMA NbiTypes ==
    ASSUME TypeOK, NEW r \in Request,
           NbiCreate \/ NbiRead(r) \/ NbiEdit(r) \/ NbiDelete(r) \/ NbiSend(r)
             \/ (\E published \in BOOLEAN : NbiSendFails(r, published))
             \/ NbiRollback(r) \/ Redeliver(r)
    PROVE  TypeOK'
<1>0. Create \in Request
  BY DEF Request
<1>1. CASE NbiCreate
  <2>1. acct' \in AccountRec
    BY <1>1, CreateEffect DEF Wrote
  <2> QED
    BY <1>0, <1>1, <2>1 DEF NbiCreate, TypeOK, busVars, roVars
<1>2. CASE NbiRead(r)
  BY <1>2 DEF NbiRead, TypeOK, busVars, roVars
<1>3. CASE NbiEdit(r)
  <2>1. acct' \in AccountRec
    BY <1>3, EditEffect DEF Wrote, NbiEdit, TypeOK
  <2>2. copy' \in AccountRec
    BY <1>3, NoAccountFields DEF NbiEdit
  <2>3. index' \in [Request -> Nat]
    BY <1>3, OpsFacts DEF NbiEdit, TypeOK
  <2>4. overwrote' \in BOOLEAN
    BY <1>3 DEF NbiEdit, TypeOK
  <2>5. req' \in [Request -> {"new", "read", "written", "sent", "unsent",
                              "rolledback", "failed"}]
    BY <1>3 DEF NbiEdit, TypeOK
  <2>6. UNCHANGED <<kind, busVars, task, roVars, early, crashes>>
    BY <1>3 DEF NbiEdit
  <2>7. /\ kind' \in Kinds /\ inbox' \subseteq Request /\ delivered' \subseteq Request
        /\ task' = task /\ task \in [Worker -> [Request -> TaskRec]]
    BY <2>6, TaskType DEF TypeOK, busVars
  <2>8. /\ live' \subseteq RoId /\ used' \subseteq RoId
        /\ sentTo' \in [RoId -> SUBSET Edit]
        /\ early' \in BOOLEAN /\ crashes' \in Nat /\ redeliveries' \in Nat
    BY <2>6 DEF TypeOK, busVars, roVars
  <2> QED
    BY <2>1, <2>2, <2>3, <2>4, <2>5, <2>7, <2>8 DEF TypeOK, TaskRec
<1>4. CASE NbiDelete(r)
  <2>1. acct' \in AccountRec
    <3>1. ~acct.exists => acct' = acct
      BY <1>4 DEF NbiDelete
    <3>2. acct.exists /\ r \in Forced => acct' = NoAccount
      BY <1>4 DEF NbiDelete
    <3> QED
      BY <1>4, <3>1, <3>2, DeleteEffect, NoAccountFields DEF Wrote, TypeOK
  <2>2. copy' \in AccountRec
    BY <1>4, NoAccountFields DEF NbiDelete
  <2>3. index' \in [Request -> Nat]
    BY <1>4, OpsFacts DEF NbiDelete, TypeOK
  <2> QED
    BY <1>4, <2>1, <2>2, <2>3 DEF NbiDelete, TypeOK, busVars, roVars
<1>5. CASE NbiSend(r)
  BY <1>5 DEF NbiSend, TypeOK, roVars
<1>6. ASSUME NEW published \in BOOLEAN, NbiSendFails(r, published) PROVE TypeOK'
  BY <1>6 DEF NbiSendFails, TypeOK, roVars
<1>7. CASE NbiRollback(r)
  <2>1. acct' \in AccountRec
    BY <1>7, NoAccountFields DEF NbiRollback, TypeOK
  <2> QED
    BY <1>7, <2>1 DEF NbiRollback, TypeOK, busVars, roVars
<1>8. CASE Redeliver(r)
  BY <1>8 DEF Redeliver, TypeOK, nbiVars, roVars
<1> QED
  BY <1>1, <1>2, <1>3, <1>4, <1>5, <1>6, <1>7, <1>8

LEMMA BecameType ==
    ASSUME TypeOK, NEW w \in Worker, NEW r \in Request, NEW pc, NEW ok, NEW seen,
           Became(w, r, pc, ok, seen)
    PROVE  task' \in [Worker -> [Request -> TaskRec]]
BY DEF Became

LEMMA DeliverEffect ==
    ASSUME TypeOK, NEW w \in Worker, NEW r \in Request, Deliver(w, r)
    PROVE  \/ task' = task
           \/ Became(w, r, "scheduled", TRUE, NoRo) /\ (kind = "vim" => acct.exists)
BY TaskMoves DEF Deliver, TaskPcs

LEMMA ReadEffect ==
    ASSUME TypeOK, NEW w \in Worker, NEW r \in Request, Read(w, r)
    PROVE  IF acct.exists
             THEN Became(w, r, IF acct.ro # NoRo THEN "call"
                               ELSE IF r \in Edit THEN "unlock" ELSE "remove",
                         task[w][r].ok, acct.ro)
             ELSE Became(w, r, "over", TRUE, NoRo)
<1>1. acct.ro \in RoId \cup {NoRo}
  BY DEF TypeOK, AccountRec
<1> QED
  BY <1>1, TaskMoves DEF Read, Over, TaskPcs

LEMMA CallCreateEffect ==
    ASSUME TypeOK, NEW w \in Worker, NEW r \in Request, NEW id \in RoId,
           CallCreate(w, r, id)
    PROVE  Became(w, r, IF kind = "sdn" THEN "finish" ELSE "record",
                  task[w][r].ok, id)
BY TaskMoves DEF CallCreate, TaskPcs

\* The steps that only move the coroutine on.
LEMMA MoveEffects ==
    ASSUME TypeOK, NEW w \in Worker, NEW r \in Request
    PROVE  /\ Attach(w, r) \/ CallEdit(w, r) =>
                Became(w, r, "finish", task[w][r].ok, task[w][r].seen)
           /\ CallDelete(w, r) =>
                Became(w, r, "remove", task[w][r].ok, task[w][r].seen)
           /\ CallFails(w, r) =>
                Became(w, r, IF r \in Delete THEN "unlock" ELSE "finish",
                       FALSE, task[w][r].seen)
           /\ Remove(w, r) => Became(w, r, "over", TRUE, NoRo)
           /\ Start(w, r) /\ ~acct.exists => Became(w, r, "over", TRUE, NoRo)
           /\ Record(w, r) /\ ~acct.exists => Became(w, r, "over", TRUE, NoRo)
           /\ Finish(w, r) /\ ~acct.exists => Became(w, r, "over", TRUE, NoRo)
BY TaskMoves DEF Attach, CallEdit, CallDelete, CallFails, Remove, Start, Record,
                 Finish, Over, TaskPcs

\* What a step of a coroutine may write.
LEMMA TaskStepWrites ==
    ASSUME TypeOK, NEW w \in Worker, NEW r \in Request, TaskStep(w, r)
    PROVE  /\ task' \in [Worker -> [Request -> TaskRec]]
           /\ acct' \in AccountRec
           /\ live' \subseteq RoId /\ used' \subseteq RoId
           /\ sentTo' \in [RoId -> SUBSET Edit]
           /\ early' \in BOOLEAN
           /\ UNCHANGED <<kind, nbiVars, busVars, overwrote, crashes>>
<1>0. /\ acct \in AccountRec /\ live \subseteq RoId /\ used \subseteq RoId
      /\ sentTo \in [RoId -> SUBSET Edit] /\ early \in BOOLEAN
  BY DEF TypeOK
<1>1. CASE Lock(w, r)
  <2>1. early' \in BOOLEAN
    BY <1>0, <1>1 DEF Lock
  <2>2. acct' \in AccountRec
    BY <1>0, <1>1, LockEffect DEF Wrote
  <2>3. task' \in [Worker -> [Request -> TaskRec]]
    BY <1>1, LockEffect DEF Became
  <2>4. UNCHANGED <<kind, nbiVars, busVars, roVars, overwrote, crashes>>
    BY <1>1 DEF Lock
  <2> QED
    BY <1>0, <2>1, <2>2, <2>3, <2>4 DEF roVars
<1>2. CASE Start(w, r)
  BY <1>0, <1>2, StartEffect, MoveEffects, BecameType DEF Start, Wrote, roVars
<1>3. CASE Read(w, r)
  BY <1>0, <1>3, ReadEffect, BecameType DEF Read, roVars
<1>4. ASSUME NEW id \in RoId, CallCreate(w, r, id)
      PROVE  /\ task' \in [Worker -> [Request -> TaskRec]] /\ acct' = acct
             /\ live' \subseteq RoId /\ used' \subseteq RoId
             /\ UNCHANGED <<sentTo, early, kind, nbiVars, busVars, overwrote, crashes>>
  <2>1. task' \in [Worker -> [Request -> TaskRec]]
    BY <1>4, CallCreateEffect, BecameType
  <2> QED
    BY <1>0, <1>4, <2>1 DEF CallCreate
<1>5. CASE Record(w, r)
  <2>1. acct' \in AccountRec
    BY <1>0, <1>5, RecordEffect DEF Record, Wrote
  <2>2. task' \in [Worker -> [Request -> TaskRec]]
    BY <1>5, RecordEffect, MoveEffects, BecameType
  <2>3. UNCHANGED <<kind, nbiVars, busVars, roVars, early, overwrote, crashes>>
    BY <1>5 DEF Record
  <2> QED
    BY <1>0, <2>1, <2>2, <2>3 DEF roVars
<1>6. CASE Attach(w, r)
  BY <1>0, <1>6, MoveEffects, BecameType DEF Attach, roVars
<1>7. CASE CallEdit(w, r)
  BY <1>0, <1>7, MoveEffects, BecameType DEF CallEdit
<1>8. CASE CallDelete(w, r)
  BY <1>0, <1>8, MoveEffects, BecameType DEF CallDelete
<1>9. CASE CallFails(w, r)
  BY <1>0, <1>9, MoveEffects, BecameType DEF CallFails, roVars
<1>10. CASE Remove(w, r)
  BY <1>0, <1>10, MoveEffects, BecameType, NoAccountFields DEF Remove, roVars
<1>11. CASE Finish(w, r)
  <2>1. acct' \in AccountRec
    BY <1>0, <1>11, FinishEffect DEF Finish, Wrote
  <2>2. task' \in [Worker -> [Request -> TaskRec]]
    BY <1>11, FinishEffect, MoveEffects, BecameType
  <2>3. UNCHANGED <<roVars, early, kind, nbiVars, busVars, overwrote, crashes>>
    BY <1>11 DEF Finish
  <2> QED
    BY <1>0, <2>1, <2>2, <2>3 DEF roVars
<1>12. CASE Unlock(w, r)
  BY <1>0, <1>12, UnlockEffect, BecameType DEF Unlock, Wrote, roVars
<1> QED
  BY <1>0, <1>1, <1>2, <1>3, <1>4, <1>5, <1>6, <1>7, <1>8, <1>9, <1>10, <1>11, <1>12
     DEF TaskStep

LEMMA LcmTypes ==
    ASSUME TypeOK, NEW w \in Worker, NEW r \in Request,
           Crash(w) \/ Deliver(w, r) \/ TaskStep(w, r)
    PROVE  TypeOK'
<1>0. task \in [Worker -> [Request -> TaskRec]]
  BY TaskType
<1>1. CASE Crash(w)
  <2>1. NoTask \in TaskRec
    BY DEF NoTask, TaskRec, TaskPcs
  <2>2. task' \in [Worker -> [Request -> TaskRec]]
    BY <1>0, <1>1, <2>1 DEF Crash
  <2> QED
    BY <1>1, <2>2 DEF Crash, TypeOK, TaskRec, nbiVars, busVars, roVars
<1>2. CASE Deliver(w, r)
  <2>1. task' \in [Worker -> [Request -> TaskRec]]
    BY <1>0, <1>2, DeliverEffect, BecameType
  <2> QED
    BY <1>2, <2>1 DEF Deliver, TypeOK, TaskRec, nbiVars, roVars
<1>3. CASE TaskStep(w, r)
  BY <1>3, TaskStepWrites DEF TypeOK, TaskRec, nbiVars, busVars
<1> QED
  BY <1>1, <1>2, <1>3

LEMMA TypesKept == TypeOK /\ [Next]_vars => TypeOK'
<1> SUFFICES ASSUME TypeOK, [Next]_vars PROVE TypeOK'
  OBVIOUS
<1>0. Create \in Request
  BY DEF Request
<1>1. CASE UNCHANGED vars
  BY <1>1 DEF TypeOK, vars, nbiVars, busVars, roVars
<1>2. CASE Next
  BY <1>0, <1>2, NbiTypes, LcmTypes DEF Next
<1> QED
  BY <1>1, <1>2

\* Every value stays in its type.
THEOREM AccountTypes == Spec => []TypeOK
<1>1. Init => TypeOK
  BY InitTypes
<1>2. TypeOK /\ [Next]_vars => TypeOK'
  BY TypesKept
<1> QED
  BY <1>1, <1>2, PTL DEF Spec

-----------------------------------------------------------------------------
(* Every message names an entry of its own                                  *)

\* NBI has written what r asks for, whatever became of its message.
Requested(r) == req[r] \in {"written", "sent", "unsent", "rolledback"}

\* Nothing happens before the creation, and nothing exists.
BeforeAll == req[Create] = "new" =>
    /\ ~acct.exists
    /\ \A r \in Request : req[r] = "new"

\* NBI handles one request at a time.
OneOpen == \A q, r \in Request :
    /\ req[q] \in {"read", "written", "unsent"}
    /\ req[r] \in {"read", "written", "unsent"}
    => q = r

\* The op_id of a request is that of an entry no other request has.
OwnEntries ==
    /\ \A r \in Request : ~Requested(r) => index[r] = 0
    /\ acct.exists =>
         /\ req[Create] \in {"written", "sent", "unsent"} /\ index[Create] = 1
         /\ \A r \in Request : Requested(r) => index[r] \in DOMAIN acct.ops
         /\ \A q, r \in Request :
              Requested(q) /\ Requested(r) /\ index[q] = index[r] => q = r

\* What NBI read is as long as the record is.
CopyFits == \A r \in Request :
    req[r] = "read" /\ acct.exists =>
       copy.exists /\ Len(copy.ops) = Len(acct.ops)

\* Only the message of a request that has its entry is at the bus, and only a
\* message that was handed out has a coroutine.
Posted ==
    /\ \A r \in inbox \cup delivered : req[r] \in {"sent", "unsent", "rolledback"}
    /\ \A w \in Worker, r \in Request : Pc(w, r) # "none" => r \in delivered

Listed == TypeOK /\ BeforeAll /\ OneOpen /\ OwnEntries /\ CopyFits /\ Posted

LEMMA InitListed == Init => Listed
<1> SUFFICES ASSUME Init PROVE Listed
  OBVIOUS
<1>1. ~acct.exists
  BY NoAccountFields DEF Init
<1>2. \A w \in Worker, r \in Request : Pc(w, r) = "none"
  BY DEF Init, Pc, NoTask
<1> QED
  BY <1>1, <1>2, InitTypes
     DEF Listed, BeforeAll, OneOpen, OwnEntries, CopyFits, Posted, Init, Requested

\* A step of a coroutine keeps the list's length or removes the record, and
\* starts nothing.
LEMMA TaskStepKeeps ==
    ASSUME TypeOK, NEW w \in Worker, NEW r \in Request, TaskStep(w, r)
    PROVE  /\ Pc(w, r) \notin {"none", "over"}
           /\ \A v \in Worker, q \in Request :
                 v # w \/ q # r => task'[v][q] = task[v][q]
           /\ Pc(w, r)' # "none"
           /\ acct'.exists => /\ acct.exists /\ Len(acct'.ops) = Len(acct.ops)
                              /\ DOMAIN acct'.ops = DOMAIN acct.ops
<1>1. CASE Lock(w, r)
  BY <1>1, LockEffect DEF Lock, Became, Wrote, LockFree, Pc
<1>2. CASE Start(w, r)
  BY <1>2, StartEffect, MoveEffects DEF Start, Became, Wrote, Pc
<1>3. CASE Read(w, r)
  BY <1>3, ReadEffect DEF Read, Became, Pc
<1>4. ASSUME NEW id \in RoId, CallCreate(w, r, id)
      PROVE  /\ Pc(w, r) = "call" /\ acct' = acct
             /\ \A v \in Worker, q \in Request :
                   v # w \/ q # r => task'[v][q] = task[v][q]
             /\ Pc(w, r)' # "none"
  <2>1. Became(w, r, IF kind = "sdn" THEN "finish" ELSE "record",
               task[w][r].ok, id)
    BY <1>4, CallCreateEffect
  <2> QED
    BY <1>4, <2>1 DEF CallCreate, Became, Pc
<1>5. CASE Record(w, r)
  BY <1>5, RecordEffect, MoveEffects DEF Record, Became, Wrote, Pc
<1>6. CASE Attach(w, r)
  BY <1>6, MoveEffects DEF Attach, Became, Pc
<1>7. CASE CallEdit(w, r)
  BY <1>7, MoveEffects DEF CallEdit, Became, Pc
<1>8. CASE CallDelete(w, r)
  BY <1>8, MoveEffects DEF CallDelete, Became, Pc
<1>9. CASE CallFails(w, r)
  BY <1>9, MoveEffects DEF CallFails, Became, Pc
<1>10. CASE Remove(w, r)
  BY <1>10, MoveEffects, NoAccountFields DEF Remove, Became, Pc
<1>11. CASE Finish(w, r)
  <2>1. acct'.exists => acct.exists /\ acct'.ops = acct.ops
    BY <1>11, FinishEffect DEF Finish, Wrote
  <2> QED
    BY <1>11, <2>1, FinishEffect, MoveEffects DEF Finish, Became, Pc
<1>12. CASE Unlock(w, r)
  BY <1>12, UnlockEffect DEF Unlock, Wrote, Became, Pc
<1> QED
  BY <1>1, <1>2, <1>3, <1>4, <1>5, <1>6, <1>7, <1>8, <1>9, <1>10, <1>11, <1>12
     DEF TaskStep

LEMMA TaskStepListed ==
    ASSUME Listed, NEW w \in Worker, NEW r \in Request, TaskStep(w, r)
    PROVE  Listed'
<1>1. TypeOK /\ TypeOK' /\ UNCHANGED <<req, copy, index, inbox, delivered>>
  BY LcmTypes, TaskStepWrites DEF Listed, nbiVars, busVars
<1>2. BeforeAll' /\ OneOpen'
  BY <1>1, TaskStepKeeps DEF Listed, BeforeAll, OneOpen
<1>3. OwnEntries' /\ CopyFits'
  BY <1>1, TaskStepKeeps DEF Listed, OwnEntries, CopyFits, Requested
<1>4. Posted'
  BY <1>1, TaskStepKeeps DEF Listed, Posted, Pc
<1> QED
  BY <1>1, <1>2, <1>3, <1>4 DEF Listed

LEMMA BusListed ==
    ASSUME Listed, NEW w \in Worker, NEW r \in Request,
           Crash(w) \/ Deliver(w, r)
    PROVE  Listed'
<1>1. TypeOK /\ TypeOK' /\ UNCHANGED <<acct, req, copy, index>>
  BY LcmTypes DEF Listed, Crash, Deliver, nbiVars
<1>2. BeforeAll' /\ OneOpen' /\ OwnEntries' /\ CopyFits'
  BY <1>1 DEF Listed, BeforeAll, OneOpen, OwnEntries, CopyFits, Requested
<1>3. Posted'
  <2>1. CASE Crash(w)
    BY <1>1, <2>1 DEF Listed, Posted, Crash, Pc, TypeOK, NoTask, busVars
  <2>2. CASE Deliver(w, r)
    <3>1. \A v \in Worker, q \in Request : Pc(v, q)' = Pc(v, q) \/ q = r
      <4>1. CASE task' = task
        BY <4>1 DEF Pc
      <4>2. CASE Became(w, r, "scheduled", TRUE, NoRo)
        BY <4>2 DEF Became, Pc
      <4> QED
        BY <1>1, <2>2, <4>1, <4>2, DeliverEffect
    <3>2. inbox' \subseteq inbox /\ delivered' = delivered \cup {r} /\ r \in inbox
      BY <2>2 DEF Deliver
    <3> QED
      BY <1>1, <3>1, <3>2 DEF Listed, Posted
  <2> QED
    BY <2>1, <2>2
<1> QED
  BY <1>1, <1>2, <1>3 DEF Listed

LEMMA CreateListed == ASSUME Listed, NbiCreate PROVE Listed'
<1>0. Create \in Request
  BY DEF Request
<1>1. TypeOK /\ TypeOK'
  BY <1>0, NbiTypes DEF Listed
<1>2. /\ \A r \in Request : req[r] = "new" /\ index[r] = 0
      /\ req' = [req EXCEPT ![Create] = "written"]
      /\ index' = [index EXCEPT ![Create] = 1]
      /\ UNCHANGED <<copy, inbox, delivered, task>>
  BY DEF Listed, BeforeAll, OwnEntries, Requested, NbiCreate, busVars
<1>3. /\ req'[Create] = "written" /\ index'[Create] = 1
      /\ \A r \in Request : r # Create => req'[r] = "new" /\ index'[r] = 0
  BY <1>0, <1>1, <1>2 DEF TypeOK
<1>4. BeforeAll' /\ OneOpen' /\ CopyFits'
  BY <1>0, <1>3 DEF BeforeAll, OneOpen, CopyFits
<1>5. OwnEntries'
  BY <1>0, <1>1, <1>3, CreateEffect DEF Listed, OwnEntries, Requested, Wrote
<1>6. Posted'
  BY <1>1, <1>2 DEF Listed, Posted, Pc, TypeOK
<1> QED
  BY <1>1, <1>4, <1>5, <1>6 DEF Listed

LEMMA ReadListed ==
    ASSUME Listed, NEW r \in Request, NbiRead(r) PROVE Listed'
<1>0. Create \in Request
  BY DEF Request
<1>1. TypeOK /\ TypeOK'
  BY NbiTypes DEF Listed
<1>2. /\ req[r] = "new" /\ r # Create /\ acct.exists /\ Idle
      /\ req'[r] = "read" /\ \A q \in Request : q # r => req'[q] = req[q]
      /\ copy' = acct
      /\ UNCHANGED <<acct, index, inbox, delivered, task>>
  BY <1>1 DEF NbiRead, TypeOK, busVars
<1>3. BeforeAll' /\ OneOpen'
  BY <1>0, <1>2 DEF Listed, BeforeAll, OneOpen, Idle
<1>4. OwnEntries'
  BY <1>0, <1>2 DEF Listed, OwnEntries, Requested
<1>5. CopyFits'
  BY <1>2 DEF Listed, CopyFits, Idle
<1>6. Posted'
  BY <1>1, <1>2 DEF Listed, Posted, Pc, TypeOK
<1> QED
  BY <1>1, <1>3, <1>4, <1>5, <1>6 DEF Listed

\* An edit or a delete gets the entry after the last.
LEMMA WriteEffect ==
    ASSUME Listed, NEW r \in Request, NbiEdit(r) \/ NbiDelete(r)
    PROVE  /\ r # Create /\ req[r] = "read"
           /\ req'[r] = IF acct.exists THEN "written" ELSE "failed"
           /\ \A q \in Request : q # r => req'[q] = req[q] /\ index'[q] = index[q]
           /\ acct'.exists => /\ acct.exists /\ index'[r] = Len(acct.ops) + 1
                              /\ Len(acct'.ops) = Len(acct.ops) + 1
                              /\ DOMAIN acct'.ops = 1..Len(acct.ops) + 1
           /\ ~acct.exists => index' = index
           /\ UNCHANGED <<inbox, delivered, task>>
<1>0. r # Create
  BY AccountAssumption DEF Request, NbiEdit, NbiDelete
<1>1. TypeOK
  BY DEF Listed
<1>2. /\ req[r] = "read"
      /\ req'[r] = IF acct.exists THEN "written" ELSE "failed"
      /\ \A q \in Request : q # r => req'[q] = req[q]
      /\ UNCHANGED <<inbox, delivered, task>>
  BY <1>1 DEF NbiEdit, NbiDelete, TypeOK, busVars
<1> DEFINE Indexed ==
             /\ acct'.exists => /\ acct.exists /\ index'[r] = Len(acct.ops) + 1
                                /\ Len(acct'.ops) = Len(acct.ops) + 1
                                /\ DOMAIN acct'.ops = 1..Len(acct.ops) + 1
             /\ ~acct.exists => index' = index
             /\ \A q \in Request : q # r => index'[q] = index[q]
<1>3. ASSUME NbiEdit(r) PROVE Indexed
  <2>1. acct.exists => Len(copy.ops) = Len(acct.ops)
    BY <1>2 DEF Listed, CopyFits
  <2>2. /\ acct.exists => index' = [index EXCEPT ![r] = Len(copy.ops) + 1]
        /\ ~acct.exists => index' = index /\ acct' = acct
    BY <1>3 DEF NbiEdit
  <2> QED
    BY <1>1, <1>3, <2>1, <2>2, EditEffect DEF TypeOK, Appended
<1>4. ASSUME NbiDelete(r) PROVE Indexed
  <2>1. acct.exists => Len(copy.ops) = Len(acct.ops)
    BY <1>2 DEF Listed, CopyFits
  <2>2. /\ acct.exists /\ r \notin Forced =>
              index' = [index EXCEPT ![r] = Len(copy.ops) + 1]
        /\ ~acct.exists => index' = index /\ acct' = acct
        /\ r \in Forced => index' = index
        /\ acct.exists /\ r \in Forced => acct' = NoAccount
    BY <1>4 DEF NbiDelete
  <2> QED
    BY <1>1, <1>4, <2>1, <2>2, DeleteEffect, NoAccountFields DEF TypeOK, Appended
<1> QED
  BY <1>0, <1>2, <1>3, <1>4

LEMMA WriteListed ==
    ASSUME Listed, NEW r \in Request, NbiEdit(r) \/ NbiDelete(r) PROVE Listed'
<1>0. Create \in Request /\ r # Create
  BY AccountAssumption DEF Request, NbiEdit, NbiDelete
<1>1. TypeOK /\ TypeOK'
  BY NbiTypes DEF Listed
<1>2. /\ req[r] = "read"
      /\ req'[r] = IF acct.exists THEN "written" ELSE "failed"
      /\ \A q \in Request : q # r => req'[q] = req[q]
      /\ UNCHANGED <<inbox, delivered, task>>
  BY WriteEffect
<1>3. /\ acct'.exists => acct.exists
      /\ acct'.exists => /\ index'[r] = Len(acct.ops) + 1
                         /\ Len(acct'.ops) = Len(acct.ops) + 1
                         /\ DOMAIN acct'.ops = 1..Len(acct.ops) + 1
      /\ ~acct.exists => index' = index
      /\ \A q \in Request : q # r => index'[q] = index[q]
  BY WriteEffect
<1>4. BeforeAll' /\ OneOpen' /\ CopyFits'
  BY <1>0, <1>2, <1>3 DEF Listed, BeforeAll, OneOpen, CopyFits
<1>5. \A q \in Request : ~Requested(q)' => index'[q] = 0
  BY <1>2, <1>3 DEF Listed, OwnEntries, Requested
<1>6. ASSUME acct'.exists
      PROVE  /\ req'[Create] \in {"written", "sent", "unsent"} /\ index'[Create] = 1
             /\ \A q \in Request : Requested(q)' => index'[q] \in DOMAIN acct'.ops
             /\ \A p, q \in Request :
                  Requested(p)' /\ Requested(q)' /\ index'[p] = index'[q] => p = q
  <2>1. Len(acct.ops) \in Nat /\ DOMAIN acct.ops = 1..Len(acct.ops)
    BY <1>1, OpsFacts
  <2>2. \A q \in Request : q # r /\ Requested(q)' =>
           Requested(q) /\ index'[q] = index[q] /\ index[q] \in DOMAIN acct.ops
    BY <1>2, <1>3, <1>6 DEF Listed, OwnEntries, Requested
  <2>3. index'[r] = Len(acct.ops) + 1
    BY <1>3, <1>6
  <2>4. req'[Create] \in {"written", "sent", "unsent"} /\ index'[Create] = 1
    BY <1>0, <1>2, <1>3, <1>6 DEF Listed, OwnEntries
  <2>5. \A q \in Request : Requested(q)' => index'[q] \in DOMAIN acct'.ops
    BY <1>3, <1>6, <2>1, <2>2, <2>3
  <2>6. \A p, q \in Request :
           Requested(p)' /\ Requested(q)' /\ index'[p] = index'[q] => p = q
    BY <1>3, <1>6, <2>1, <2>2, <2>3 DEF Listed, OwnEntries
  <2> QED
    BY <2>4, <2>5, <2>6
<1>7. OwnEntries'
  BY <1>5, <1>6 DEF OwnEntries
<1>8. Posted'
  BY <1>1, <1>2 DEF Listed, Posted, Pc, TypeOK
<1> QED
  BY <1>1, <1>4, <1>7, <1>8 DEF Listed

LEMMA SendListed ==
    ASSUME Listed, NEW r \in Request,
           NbiSend(r) \/ (\E published \in BOOLEAN : NbiSendFails(r, published))
             \/ NbiRollback(r)
    PROVE  Listed'
<1>0. Create \in Request
  BY DEF Request
<1>1. TypeOK /\ TypeOK'
  BY NbiTypes DEF Listed
<1>2. /\ req[r] \in {"written", "unsent"}
      /\ req'[r] \in {"sent", "unsent", "rolledback"}
      /\ req[r] = "unsent" => req'[r] = "rolledback" /\ inbox' = inbox
      /\ req[r] = "written" => req'[r] # "rolledback"
      /\ \A q \in Request : q # r => req'[q] = req[q]
      /\ inbox' \subseteq inbox \cup {r} /\ delivered' = delivered
      /\ UNCHANGED <<copy, index, task>>
  BY <1>1 DEF NbiSend, NbiSendFails, NbiRollback, TypeOK, busVars
<1>3. /\ acct' = acct \/ ~acct'.exists
      /\ r = Create /\ req'[r] = "rolledback" => ~acct'.exists
  BY NoAccountFields, <1>2 DEF NbiSend, NbiSendFails, NbiRollback
<1>4. BeforeAll' /\ OneOpen' /\ CopyFits'
  BY <1>0, <1>2, <1>3 DEF Listed, BeforeAll, OneOpen, CopyFits
<1>5. OwnEntries'
  BY <1>0, <1>2, <1>3 DEF Listed, OwnEntries, Requested
<1>6. Posted'
  BY <1>1, <1>2 DEF Listed, Posted, Pc, TypeOK
<1> QED
  BY <1>1, <1>4, <1>5, <1>6 DEF Listed

LEMMA ListedKept == Listed /\ [Next]_vars => Listed'
<1> SUFFICES ASSUME Listed, [Next]_vars PROVE Listed'
  OBVIOUS
<1>1. CASE UNCHANGED vars
  <2>1. TypeOK'
    BY <1>1, TypesKept DEF Listed
  <2> QED
    BY <1>1, <2>1 DEF Listed, BeforeAll, OneOpen, OwnEntries, CopyFits, Posted,
                      Requested, Pc, vars, nbiVars, busVars
<1>2. CASE NbiCreate
  BY <1>2, CreateListed
<1>3. ASSUME NEW r \in Request,
             \/ NbiRead(r) \/ NbiEdit(r) \/ NbiDelete(r) \/ NbiSend(r)
             \/ \E published \in BOOLEAN : NbiSendFails(r, published)
             \/ NbiRollback(r)
      PROVE  Listed'
  BY <1>3, ReadListed, WriteListed, SendListed
<1>4. ASSUME NEW w \in Worker, NEW r \in Request,
             Crash(w) \/ Deliver(w, r) \/ TaskStep(w, r)
      PROVE  Listed'
  BY <1>4, BusListed, TaskStepListed
<1>5. Create \in Request
  BY DEF Request
<1>6. ASSUME NEW r \in Request, Redeliver(r) PROVE Listed'
  <2>1. TypeOK /\ TypeOK' /\ UNCHANGED <<acct, req, copy, index, delivered, task>>
    BY <1>6, NbiTypes DEF Listed, Redeliver, nbiVars
  <2>2. inbox' \subseteq inbox \cup delivered
    BY <1>6 DEF Redeliver
  <2> QED
    BY <2>1, <2>2 DEF Listed, BeforeAll, OneOpen, OwnEntries, CopyFits, Posted,
                      Requested, Pc
<1> QED
  BY <1>1, <1>2, <1>3, <1>4, <1>5, <1>6 DEF Next

-----------------------------------------------------------------------------
(* An entry's worker is the one that carries the operation out              *)

\* A step of NBI, or of the bus, about a request of an account that exists.
NbiStep(r) ==
    \/ NbiRead(r) \/ NbiEdit(r) \/ NbiDelete(r) \/ NbiSend(r)
    \/ \E published \in BOOLEAN : NbiSendFails(r, published)
    \/ NbiRollback(r) \/ Redeliver(r)

\* The list gets another entry at most, and the rest of the record stays.
Extended ==
    /\ acct.exists /\ acct'.ro = acct.ro /\ acct'.status = acct.status
    /\ \A j \in DOMAIN acct.ops :
          j \in DOMAIN acct'.ops /\ acct'.ops[j] = acct.ops[j]
    /\ \A j \in DOMAIN acct'.ops :
          j \in DOMAIN acct.ops \/
             (j = Len(acct'.ops) /\ acct'.ops[j].state = "PROCESSING")
    /\ Len(acct'.ops) = Len(acct.ops) \/ Len(acct'.ops) = Len(acct.ops) + 1

LEMMA NbiKeeps ==
    ASSUME Listed, NEW r \in Request, NbiStep(r)
    PROVE  /\ UNCHANGED <<task, kind, early, crashes, roVars>>
           /\ overwrote => overwrote'
           /\ \A q \in Request :
                 Requested(q) => Requested(q)' /\ index'[q] = index[q]
           /\ acct'.exists /\ ~overwrote' => Extended
<1>0. TypeOK
  BY DEF Listed
<1>1. UNCHANGED <<task, kind, early, crashes, roVars>>
  BY DEF NbiStep, NbiRead, NbiEdit, NbiDelete, NbiSend, NbiSendFails, NbiRollback,
         Redeliver
<1>2. overwrote => overwrote'
  BY DEF NbiStep, NbiRead, NbiEdit, NbiDelete, NbiSend, NbiSendFails, NbiRollback,
         Redeliver
<1>3. \A q \in Request : Requested(q) => Requested(q)' /\ index'[q] = index[q]
  BY <1>0 DEF NbiStep, NbiRead, NbiEdit, NbiDelete, NbiSend, NbiSendFails,
              NbiRollback, Redeliver, Requested, TypeOK, nbiVars
<1>4. ASSUME acct'.exists, ~overwrote' PROVE Extended
  <2>0. /\ Len(acct.ops) \in Nat /\ DOMAIN acct.ops = 1..Len(acct.ops)
    BY <1>0, OpsFacts
  <2>1. CASE acct' = acct
    BY <1>4, <2>0, <2>1 DEF Extended
  <2>2. CASE acct.exists /\ Appended(acct.ops) /\ acct'.ro = acct.ro
               /\ acct'.status = acct.status
    <3>1. \A j \in DOMAIN acct'.ops :
             j \in DOMAIN acct.ops \/
               (j = Len(acct'.ops) /\ acct'.ops[j].state = "PROCESSING")
      BY <2>0, <2>2 DEF Appended, NewOperation
    <3> QED
      BY <2>2, <3>1 DEF Appended, Extended
  <2>3. CASE NbiEdit(r)
    <3>1. acct.exists => copy = acct
      BY <1>4, <2>3 DEF NbiEdit
    <3>2. ~acct.exists => acct' = acct
      BY <2>3 DEF NbiEdit
    <3> QED
      BY <1>0, <2>1, <2>2, <2>3, <3>1, <3>2, EditEffect DEF Wrote
  <2>4. CASE NbiDelete(r)
    <3>1. ~acct.exists => acct' = acct
      BY <2>4 DEF NbiDelete
    <3>2. acct.exists => r \notin Forced
      BY <1>4, <2>4, NoAccountFields DEF NbiDelete
    <3> QED
      BY <1>0, <2>1, <2>2, <2>4, <3>1, <3>2, DeleteEffect DEF Wrote
  <2>5. CASE NbiRollback(r)
    BY <1>4, <2>1, <2>5, NoAccountFields DEF NbiRollback
  <2>6. CASE ~NbiEdit(r) /\ ~NbiDelete(r) /\ ~NbiRollback(r)
    <3>1. acct' = acct
      BY <2>6 DEF NbiStep, NbiRead, NbiSend, NbiSendFails, Redeliver
    <3> QED
      BY <2>1, <3>1
  <2> QED
    BY <2>3, <2>4, <2>5, <2>6
<1> QED
  BY <1>1, <1>2, <1>3, <1>4

\* A coroutine that lock_HA let through, and that has not unlocked yet.
Holds(w, r) ==
    /\ Running(w, r) /\ index[r] # 0
    /\ r = Create => kind = "vim"
    /\ r \in Delete => Pc(w, r) # "finish"

LEMMA HoldersKnown ==
    OneAtATime <=> \A w \in Worker, r \in Request :
        Holds(w, r) /\ acct.exists /\ ~overwrote => acct.ops[index[r]].worker = w
BY DEF OneAtATime, Holds

\* The entry of what has a coroutine is in the list.
LEMMA HolderListed ==
    ASSUME Listed, NEW w \in Worker, NEW r \in Request, Pc(w, r) # "none"
    PROVE  /\ Requested(r) /\ req[Create] # "new"
           /\ acct.exists => index[r] \in DOMAIN acct.ops
<1>1. req[r] \in {"sent", "unsent", "rolledback"}
  BY DEF Listed, Posted
<1> QED
  BY <1>1 DEF Listed, BeforeAll, OwnEntries, Requested

LEMMA NbiOneAtATime ==
    ASSUME Listed, OneAtATime, NEW r \in Request, NbiStep(r)
    PROVE  OneAtATime'
<1> SUFFICES ASSUME NEW w \in Worker, NEW q \in Request,
                    Holds(w, q)', acct'.exists, ~overwrote'
             PROVE  acct'.ops[index'[q]].worker = w
  BY HoldersKnown DEF OneAtATime, Holds
<1>1. Running(w, q) /\ task' = task /\ kind' = kind /\ ~overwrote
  BY NbiKeeps DEF Holds, Running, Pc
<1>2. Requested(q)
  BY <1>1, HolderListed DEF Running, RunningPcs
<1>3. index'[q] = index[q] /\ Extended
  BY <1>2, NbiKeeps
<1>4. Holds(w, q)
  BY <1>1, <1>3 DEF Holds, Running, Pc
<1>5. acct.ops[index[q]].worker = w /\ index[q] \in DOMAIN acct.ops
  BY <1>1, <1>3, <1>4, HoldersKnown, HolderListed
     DEF Extended, Running, RunningPcs
<1> QED
  BY <1>3, <1>5 DEF Extended

LEMMA CreateOneAtATime == ASSUME Listed, NbiCreate PROVE OneAtATime'
<1>1. \A w \in Worker, r \in Request : Pc(w, r) = "none"
  BY HolderListed DEF NbiCreate
<1>2. task' = task
  BY DEF NbiCreate
<1> QED
  BY <1>1, <1>2 DEF OneAtATime, Running, RunningPcs, Pc

\* A step that leaves the entries alone and starts nothing.
LEMMA QuietOneAtATime ==
    ASSUME Listed, OneAtATime, NEW w \in Worker, NEW r \in Request,
           UNCHANGED <<index, kind, overwrote>>,
           acct'.exists => acct.exists /\ acct'.ops = acct.ops,
           \A v \in Worker, q \in Request : v # w \/ q # r => task'[v][q] = task[v][q],
           Running(w, r)' => Running(w, r) /\ (Pc(w, r)' = "finish" \/ r \notin Delete
                                                \/ Pc(w, r) # "finish")
    PROVE  OneAtATime'
<1> SUFFICES ASSUME NEW v \in Worker, NEW q \in Request,
                    Holds(v, q)', acct'.exists, ~overwrote'
             PROVE  acct'.ops[index'[q]].worker = v
  BY HoldersKnown DEF OneAtATime, Holds
<1>1. Holds(v, q)
  BY DEF Holds, Running, Pc
<1> QED
  BY <1>1, HoldersKnown

LEMMA LockOneAtATime ==
    ASSUME Listed, OneAtATime, NEW w \in Worker, NEW r \in Request, Lock(w, r)
    PROVE  OneAtATime'
<1> SUFFICES ASSUME NEW v \in Worker, NEW q \in Request,
                    Holds(v, q)', acct'.exists, ~overwrote'
             PROVE  acct'.ops[index'[q]].worker = v
  BY HoldersKnown DEF OneAtATime, Holds
<1>0. TypeOK /\ acct.exists /\ UNCHANGED <<index, kind, overwrote>>
  BY LockEffect DEF Listed, Wrote, Lock, LockFree, nbiVars
<1>1. CASE v = w /\ q = r
  <2>1. GoesOn(r)
    <3> SUFFICES ASSUME ~GoesOn(r) PROVE FALSE
      OBVIOUS
    <3>1. Became(w, r, "over", TRUE, NoRo)
      BY <1>0, LockEffect
    <3> QED
      BY <1>1, <3>1 DEF Holds, Running, RunningPcs, Pc, Became
  <2>2. LockFree(r)
    BY <1>0, <1>1, <2>1 DEF GoesOn, Holds
  <2> QED
    BY <1>0, <1>1, <2>2, LockEffect
<1>2. CASE v # w \/ q # r
  <2>1. Holds(v, q)
    BY <1>0, <1>2, TaskStepKeeps DEF Holds, Running, Pc, TaskStep
  <2>2. acct.ops[index[q]].worker = v /\ Requested(q) /\ index[q] \in DOMAIN acct.ops
    BY <1>0, <2>1, HoldersKnown, HolderListed DEF Holds, Running, RunningPcs
  <2>3. Requested(r)
    BY HolderListed DEF Lock
  <2>4. CASE q # r
    <3>1. index[q] # index[r]
      BY <1>0, <2>2, <2>3, <2>4 DEF Listed, OwnEntries
    <3> QED
      BY <1>0, <2>2, <3>1, LockEffect
  <2>5. CASE q = r
    <3>1. ~LockFree(r)
      BY <2>2, <2>5, AccountAssumption DEF LockFree
    <3> QED
      BY <1>0, <2>2, <3>1, LockEffect
  <2> QED
    BY <2>4, <2>5
<1> QED
  BY <1>1, <1>2

LEMMA UnlockOneAtATime ==
    ASSUME Listed, OneAtATime, NEW w \in Worker, NEW r \in Request, Unlock(w, r)
    PROVE  OneAtATime'
<1> SUFFICES ASSUME NEW v \in Worker, NEW q \in Request,
                    Holds(v, q)', acct'.exists, ~overwrote'
             PROVE  acct'.ops[index'[q]].worker = v
  BY HoldersKnown DEF OneAtATime, Holds
<1>0. TypeOK /\ acct.exists /\ UNCHANGED <<index, kind, overwrote>>
  BY UnlockEffect DEF Listed, Wrote, Unlock, nbiVars
<1>1. v # w \/ q # r
  <2>1. r \in Delete => Pc(w, r)' = "finish"
    BY <1>0, UnlockEffect DEF Became, Pc
  <2>2. r \notin Delete => Pc(w, r)' = "over"
    BY <1>0, UnlockEffect DEF Became, Pc
  <2> QED
    BY <2>1, <2>2 DEF Holds, Running, RunningPcs
<1>2. Holds(v, q)
  BY <1>0, <1>1, TaskStepKeeps DEF Holds, Running, Pc, TaskStep
<1>3. acct.ops[index[q]].worker = v /\ Requested(q) /\ index[q] \in DOMAIN acct.ops
  BY <1>0, <1>2, HoldersKnown, HolderListed DEF Holds, Running, RunningPcs
<1>4. Requested(r) /\ Running(w, r) /\ Pc(w, r) = "unlock"
  BY HolderListed DEF Unlock, Running, RunningPcs, TaskPcs
<1>5. q # r
  <2> SUFFICES ASSUME q = r PROVE FALSE
    OBVIOUS
  <2>1. Holds(w, r)
    BY <1>2, <1>4 DEF Holds
  <2> QED
    BY <1>0, <1>1, <1>3, <2>1, HoldersKnown
<1>6. index[q] # index[r]
  BY <1>0, <1>3, <1>4, <1>5 DEF Listed, OwnEntries
<1> QED
  BY <1>0, <1>3, <1>6, UnlockEffect

\* What the steps other than lock_HA and unlock_HA have in common.
LEMMA OtherSteps ==
    ASSUME TypeOK, NEW w \in Worker, NEW r \in Request, TaskStep(w, r),
           ~Lock(w, r), ~Unlock(w, r)
    PROVE  /\ Running(w, r) /\ Pc(w, r) # "unlock"
           /\ acct'.exists => acct'.ops = acct.ops
           /\ Pc(w, r) = "finish" /\ r \in Delete => Pc(w, r)' = "over"
<1> USE DEF Running, RunningPcs, TaskPcs
<1>1. CASE Start(w, r)
  BY <1>1, StartEffect, MoveEffects DEF Start, Wrote, Pc
<1>2. CASE Read(w, r) \/ Attach(w, r) \/ CallEdit(w, r) \/ CallDelete(w, r)
               \/ CallFails(w, r)
  BY <1>2 DEF Read, Attach, CallEdit, CallDelete, CallFails
<1>3. CASE \E id \in RoId : CallCreate(w, r, id)
  BY <1>3 DEF CallCreate
<1>4. CASE Record(w, r)
  BY <1>4, RecordEffect DEF Record, Wrote
<1>5. CASE Remove(w, r)
  BY <1>5, NoAccountFields DEF Remove
<1>6. CASE Finish(w, r)
  <2>1. acct'.ops = acct.ops
    BY <1>6, FinishEffect DEF Finish, Wrote
  <2>2. r \in Delete => Over(w, r)
    BY <1>6 DEF Finish
  <2>3. r \in Delete => Pc(w, r)' = "over"
    BY <2>2, TaskMoves DEF Over, Became, Pc
  <2> QED
    BY <1>6, <2>1, <2>3 DEF Finish
<1> QED
  BY <1>1, <1>2, <1>3, <1>4, <1>5, <1>6 DEF TaskStep

LEMMA TaskStepOneAtATime ==
    ASSUME Listed, OneAtATime, NEW w \in Worker, NEW r \in Request, TaskStep(w, r)
    PROVE  OneAtATime'
<1>0. TypeOK /\ UNCHANGED <<index, kind, overwrote>>
  BY TaskStepWrites DEF Listed, nbiVars
<1>1. CASE Lock(w, r)
  BY <1>1, LockOneAtATime
<1>2. CASE Unlock(w, r)
  BY <1>2, UnlockOneAtATime
<1>3. CASE ~Lock(w, r) /\ ~Unlock(w, r)
  <2>1. Running(w, r)' => Running(w, r) /\
           (Pc(w, r)' = "finish" \/ r \notin Delete \/ Pc(w, r) # "finish")
    BY <1>0, <1>3, OtherSteps DEF Running, RunningPcs
  <2> QED
    BY <1>0, <1>3, <2>1, OtherSteps, TaskStepKeeps, QuietOneAtATime
<1> QED
  BY <1>1, <1>2, <1>3

LEMMA BusOneAtATime ==
    ASSUME Listed, OneAtATime, NEW w \in Worker, NEW r \in Request,
           Crash(w) \/ Deliver(w, r)
    PROVE  OneAtATime'
<1> SUFFICES ASSUME NEW v \in Worker, NEW q \in Request,
                    Holds(v, q)', acct'.exists, ~overwrote'
             PROVE  acct'.ops[index'[q]].worker = v
  BY HoldersKnown DEF OneAtATime, Holds
<1>0. TypeOK /\ UNCHANGED <<index, kind, overwrote, acct>>
  BY DEF Listed, Crash, Deliver, nbiVars
<1>1. task'[v][q] = task[v][q]
  <2>1. CASE Crash(w)
    BY <1>0, <2>1 DEF Crash, TypeOK, Holds, Running, RunningPcs, Pc, NoTask
  <2>2. CASE Deliver(w, r)
    <3>1. CASE Became(w, r, "scheduled", TRUE, NoRo)
      BY <3>1 DEF Became, Holds, Running, RunningPcs, Pc
    <3> QED
      BY <1>0, <2>2, <3>1, DeliverEffect
  <2> QED
    BY <2>1, <2>2
<1>2. Holds(v, q)
  BY <1>0, <1>1 DEF Holds, Running, Pc
<1> QED
  BY <1>0, <1>2, HoldersKnown

LEMMA OneAtATimeKept ==
    Listed /\ OneAtATime /\ [Next]_vars => Listed' /\ OneAtATime'
<1> SUFFICES ASSUME Listed, OneAtATime, [Next]_vars PROVE OneAtATime'
  BY ListedKept
<1>1. CASE UNCHANGED vars
  BY <1>1 DEF OneAtATime, Running, Pc, vars, nbiVars
<1>2. CASE NbiCreate
  BY <1>2, CreateOneAtATime
<1>3. ASSUME NEW r \in Request, NbiStep(r) PROVE OneAtATime'
  BY <1>3, NbiOneAtATime
<1>4. ASSUME NEW w \in Worker, NEW r \in Request,
             Crash(w) \/ Deliver(w, r) \/ TaskStep(w, r)
      PROVE  OneAtATime'
  BY <1>4, BusOneAtATime, TaskStepOneAtATime
<1>5. Create \in Request
  BY DEF Request
<1> QED
  BY <1>1, <1>2, <1>3, <1>4, <1>5 DEF Next, NbiStep

\* An operation is carried out by the worker whose name is in its entry.
THEOREM Locking == Spec => []OneAtATime
<1>1. Init => Listed /\ OneAtATime
  BY InitListed DEF Init, OneAtATime, Running, RunningPcs, Pc, NoTask
<1>2. Listed /\ OneAtATime /\ [Next]_vars => (Listed /\ OneAtATime)'
  BY OneAtATimeKept
<1> QED
  BY <1>1, <1>2, PTL DEF Spec

-----------------------------------------------------------------------------
(* Operations in turn                                                       *)

\* A message that comes once has one coroutine.
Once == crashes = 0 /\ redeliveries = 0 =>
    /\ inbox \cap delivered = {}
    /\ \A v, w \in Worker, r \in Request :
          Pc(v, r) # "none" /\ Pc(w, r) # "none" => v = w

\* One operation runs unless one began early.
Alone == ~early => \A v, w \in Worker, q, r \in Request :
    Running(v, q) /\ Running(w, r) => v = w /\ q = r

\* The places of create, edit and delete, and where an exception has led to.
PathOf(w, r) ==
    /\ Pc(w, r) \in {"start", "record", "attach"} => r = Create
    /\ Pc(w, r) \in {"record", "attach"} => kind # "sdn"
    /\ Pc(w, r) = "read" => r # Create
    /\ Pc(w, r) = "remove" => r \in Delete
    /\ Pc(w, r) \in {"scheduled", "start", "read", "call", "record", "attach",
                     "remove"} => task[w][r].ok
    /\ Pc(w, r) \in {"unlock", "finish"} /\ r \in Delete => ~task[w][r].ok
Paths == \A w \in Worker, r \in Request : PathOf(w, r)

Placed == Listed /\ Once /\ Alone /\ Paths

LEMMA StepPath ==
    ASSUME TypeOK, NEW w \in Worker, NEW r \in Request, TaskStep(w, r), PathOf(w, r)
    PROVE  PathOf(w, r)'
<1>0. kind' = kind /\ Create \notin Delete \cup Edit /\ r \in {Create} \cup Edit \cup Delete
  BY TaskStepWrites, AccountAssumption DEF Request
<1>1. CASE Lock(w, r)
  <2>1. CASE GoesOn(r)
    <3>1. Became(w, r, IF r = Create THEN "start" ELSE "read",
                 task[w][r].ok, task[w][r].seen)
      BY <1>1, <2>1, LockEffect
    <3> QED
      BY <1>0, <1>1, <3>1 DEF Lock, PathOf, Became, Pc
  <2>2. CASE ~GoesOn(r)
    <3>1. Became(w, r, "over", TRUE, NoRo)
      BY <1>1, <2>2, LockEffect
    <3> QED
      BY <3>1 DEF PathOf, Became, Pc
  <2> QED
    BY <2>1, <2>2
<1>2. CASE Start(w, r)
  BY <1>0, <1>2, StartEffect, MoveEffects DEF Start, PathOf, Became, Pc
<1>3. CASE Read(w, r)
  <2>1. CASE acct.exists
    <3>1. Became(w, r, IF acct.ro # NoRo THEN "call"
                       ELSE IF r \in Edit THEN "unlock" ELSE "remove",
                 task[w][r].ok, acct.ro)
      BY <1>3, <2>1, ReadEffect
    <3> QED
      BY <1>0, <1>3, <3>1, AccountAssumption DEF Read, PathOf, Became, Pc
  <2>2. CASE ~acct.exists
    BY <1>3, <2>2, ReadEffect DEF PathOf, Became, Pc
  <2> QED
    BY <2>1, <2>2
<1>4. ASSUME NEW id \in RoId, CallCreate(w, r, id) PROVE PathOf(w, r)'
  <2>1. Became(w, r, IF kind = "sdn" THEN "finish" ELSE "record", task[w][r].ok, id)
    BY <1>4, CallCreateEffect
  <2> QED
    BY <1>0, <1>4, <2>1 DEF CallCreate, PathOf, Became, Pc
<1>5. CASE Record(w, r)
  BY <1>0, <1>5, RecordEffect, MoveEffects DEF Record, PathOf, Became, Pc
<1>6. CASE Attach(w, r)
  BY <1>0, <1>6, MoveEffects DEF Attach, PathOf, Became, Pc
<1>7. CASE CallEdit(w, r)
  BY <1>0, <1>7, MoveEffects, AccountAssumption DEF CallEdit, PathOf, Became, Pc
<1>8. CASE CallDelete(w, r)
  BY <1>0, <1>8, MoveEffects DEF CallDelete, PathOf, Became, Pc
<1>9. CASE CallFails(w, r)
  BY <1>0, <1>9, MoveEffects DEF CallFails, PathOf, Became, Pc
<1>10. CASE Remove(w, r)
  BY <1>10, MoveEffects DEF PathOf, Became, Pc
<1>11. CASE Finish(w, r)
  <2>1. Pc(w, r)' = "over" \/ (Pc(w, r)' = "unlock" /\ r \notin Delete)
    <3>1. r \in Delete => Over(w, r)
      BY <1>11 DEF Finish
    <3>2. Over(w, r) => Pc(w, r)' = "over"
      BY TaskMoves DEF Over, Became, Pc, TaskPcs
    <3>3. ~acct.exists => Pc(w, r)' = "over"
      BY <1>11, MoveEffects DEF Became, Pc
    <3>4. acct.exists /\ r \notin Delete => Pc(w, r)' = "unlock"
      BY <1>11, FinishEffect DEF Became, Pc
    <3> QED
      BY <3>1, <3>2, <3>3, <3>4
  <2> QED
    BY <2>1 DEF PathOf
<1>12. CASE Unlock(w, r)
  BY <1>0, <1>12, UnlockEffect DEF Unlock, PathOf, Became, Pc
<1> QED
  BY <1>1, <1>2, <1>3, <1>4, <1>5, <1>6, <1>7, <1>8, <1>9, <1>10, <1>11, <1>12
     DEF TaskStep

LEMMA TaskStepPlaced ==
    ASSUME Placed, NEW w \in Worker, NEW r \in Request, TaskStep(w, r)
    PROVE  Placed'
<1>0. TypeOK /\ UNCHANGED <<inbox, delivered, redeliveries, crashes, kind>>
  BY TaskStepWrites DEF Placed, Listed, busVars
<1>1. Listed'
  BY TaskStepListed DEF Placed
<1>2. Once'
  BY <1>0, TaskStepKeeps DEF Placed, Once, Pc
<1>3. Alone'
  <2>1. CASE Lock(w, r)
    <3>1. ~early' => (~early /\ ~SomebodyRuns) \/ (Pc(w, r)' = "over" /\ ~early)
      <4>1. GoesOn(r) => early' = (early \/ SomebodyRuns \/ EarlierOpen(r))
        BY <2>1 DEF Lock
      <4>2. ~GoesOn(r) => early' = early /\ Pc(w, r)' = "over"
        BY <1>0, <2>1, LockEffect DEF Lock, Became, Pc
      <4> QED
        BY <4>1, <4>2
    <3> QED
      BY <3>1, TaskStepKeeps, <1>0
         DEF Placed, Alone, SomebodyRuns, Running, RunningPcs, Pc
  <2>2. CASE ~Lock(w, r)
    <3>1. Running(w, r) /\ early' = early
      <4>1. Running(w, r)
        BY <1>0, <2>2, OtherSteps DEF Unlock, Running, RunningPcs, TaskPcs
      <4>2. early' = early
        BY <2>2 DEF TaskStep, Start, Read, CallCreate, Record, Attach, CallEdit,
                    CallDelete, CallFails, Remove, Finish, Unlock
      <4> QED
        BY <4>1, <4>2
    <3> QED
      BY <3>1, TaskStepKeeps, <1>0 DEF Placed, Alone, Running, Pc
  <2> QED
    BY <2>1, <2>2
<1>4. Paths'
  BY <1>0, StepPath, TaskStepKeeps DEF Placed, Paths, PathOf, Pc
<1> QED
  BY <1>1, <1>2, <1>3, <1>4 DEF Placed

LEMMA NbiPlaced ==
    ASSUME Placed, Listed', NEW r \in Request, NbiStep(r) \/ NbiCreate
    PROVE  Placed'
<1>0. TypeOK /\ UNCHANGED <<task, kind, early, crashes>>
  BY NbiKeeps DEF Placed, Listed, NbiCreate
<1>1. Alone' /\ Paths'
  BY <1>0 DEF Placed, Alone, Paths, PathOf, Running, Pc
<1>2. Once'
  <2>1. CASE Redeliver(r)
    <3>1. redeliveries' # 0
      BY <1>0, <2>1 DEF Redeliver, TypeOK
    <3> QED
      BY <3>1 DEF Once
  <2>2. CASE ~Redeliver(r)
    <3>1. /\ redeliveries' = redeliveries /\ delivered' = delivered
          /\ inbox' \subseteq inbox \cup {q \in Request : req[q] = "written"}
      BY <1>0, <2>2 DEF NbiStep, NbiRead, NbiEdit, NbiDelete, NbiSend, NbiSendFails,
                        NbiRollback, NbiCreate, busVars
    <3>2. \A q \in delivered : req[q] # "written"
      BY DEF Placed, Listed, Posted
    <3> QED
      BY <1>0, <3>1, <3>2 DEF Placed, Once, Pc
  <2> QED
    BY <2>1, <2>2
<1> QED
  BY <1>1, <1>2 DEF Placed

LEMMA BusPlaced ==
    ASSUME Placed, NEW w \in Worker, NEW r \in Request, Crash(w) \/ Deliver(w, r)
    PROVE  Placed'
<1>0. TypeOK /\ UNCHANGED <<kind, early>>
  BY DEF Placed, Listed, Crash, Deliver
<1>1. Listed'
  BY BusListed DEF Placed
<1>2. CASE Crash(w)
  <2>1. crashes' # 0
    BY <1>0, <1>2 DEF Crash, TypeOK
  <2>2. \A v \in Worker, q \in Request :
           task'[v][q] = task[v][q] \/ Pc(v, q)' = "none"
    BY <1>0, <1>2 DEF Crash, TypeOK, Pc, NoTask
  <2>3. Alone' /\ Paths'
    BY <1>0, <2>2 DEF Placed, Alone, Paths, PathOf, Running, RunningPcs, Pc
  <2> QED
    BY <1>1, <2>1, <2>3 DEF Placed, Once
<1>3. CASE Deliver(w, r)
  <2>1. CASE task' = task
    <3>1. Alone' /\ Paths'
      BY <1>0, <2>1 DEF Placed, Alone, Paths, PathOf, Running, Pc
    <3>2. Once'
      BY <1>0, <1>3, <2>1 DEF Placed, Once, Deliver, Pc
    <3> QED
      BY <1>1, <3>1, <3>2 DEF Placed
  <2>2. CASE Became(w, r, "scheduled", TRUE, NoRo)
    <3>1. Alone' /\ Paths'
      <4>1. \A v \in Worker, q \in Request :
               (Running(v, q)' => Running(v, q)) /\
                  (task'[v][q] = task[v][q] \/ (Pc(v, q)' = "scheduled" /\ task'[v][q].ok))
        BY <2>2 DEF Running, RunningPcs, Became, Pc
      <4> QED
        BY <1>0, <4>1 DEF Placed, Alone, Paths, PathOf, Pc
    <3>2. Once'
      <4>1. crashes = 0 /\ redeliveries = 0 => r \notin delivered
        BY <1>3 DEF Placed, Once, Deliver
      <4>2. crashes = 0 /\ redeliveries = 0 => \A v \in Worker : Pc(v, r) = "none"
        BY <4>1 DEF Placed, Listed, Posted
      <4>3. /\ UNCHANGED <<crashes, redeliveries>>
            /\ inbox' = inbox \ {r} /\ delivered' = delivered \cup {r}
        BY <1>3 DEF Deliver
      <4> QED
        BY <2>2, <4>2, <4>3 DEF Placed, Once, Became, Pc
    <3> QED
      BY <1>1, <3>1, <3>2 DEF Placed
  <2> QED
    BY <1>0, <1>3, <2>1, <2>2, DeliverEffect
<1> QED
  BY <1>2, <1>3

-----------------------------------------------------------------------------
(* The order of the operations                                              *)

\* The entry's operation has its outcome.
Closed(i) == acct.ops[i].state # "PROCESSING"

\* While operations come in turn, what has an outcome has no coroutine but the
\* last step of a failed delete, and all before it have theirs.
InTurn == Orderly /\ acct.exists =>
    /\ \A r \in Request : Requested(r) /\ Closed(index[r]) =>
          /\ r \in delivered
          /\ \A w \in Worker : \/ Pc(w, r) \in {"none", "over"}
                               \/ r \in Delete /\ Pc(w, r) = "finish"
    /\ \A i, j \in DOMAIN acct.ops : i < j /\ Closed(j) => Closed(i)
    /\ \A w \in Worker, r \in Request : Running(w, r) =>
          \A i \in DOMAIN acct.ops : i < index[r] => Closed(i)

Turns == Placed /\ InTurn

\* The history only grows.
LEMMA StillOrderly ==
    ASSUME TypeOK, [Next]_vars, Orderly' PROVE Orderly
<1>1. CASE UNCHANGED vars
  BY <1>1 DEF vars, busVars, Orderly
<1>2. ASSUME NEW w \in Worker, Crash(w) PROVE FALSE
  BY <1>2 DEF Crash, Orderly, TypeOK
<1>3. ASSUME NEW r \in Request, Redeliver(r) PROVE FALSE
  BY <1>3 DEF Redeliver, Orderly, TypeOK
<1>4. ASSUME NEW w \in Worker, NEW r \in Request, Deliver(w, r) \/ TaskStep(w, r)
      PROVE  Orderly
  <2>1. UNCHANGED <<overwrote, crashes, redeliveries>>
    BY <1>4, TaskStepWrites DEF Deliver, busVars
  <2>2. CASE Lock(w, r)
    <3>1. GoesOn(r) => early' = (early \/ SomebodyRuns \/ EarlierOpen(r))
      BY <2>2 DEF Lock
    <3>2. ~GoesOn(r) => early' = early
      BY <2>2 DEF Lock
    <3>3. ~early' => ~early
      BY <3>1, <3>2
    <3> QED
      BY <2>1, <3>3 DEF Orderly
  <2>3. CASE ~Lock(w, r)
    <3>1. early' = early
      BY <1>4, <2>3 DEF Deliver, TaskStep, Start, Read, CallCreate, Record, Attach,
                        CallEdit, CallDelete, CallFails, Remove, Finish, Unlock
    <3> QED
      BY <2>1, <3>1 DEF Orderly
  <2> QED
    BY <2>2, <2>3
<1>5. ASSUME NEW r \in Request,
             \/ NbiCreate \/ NbiRead(r) \/ NbiEdit(r) \/ NbiDelete(r) \/ NbiSend(r)
             \/ \E published \in BOOLEAN : NbiSendFails(r, published)
             \/ NbiRollback(r)
      PROVE  Orderly
  <2>1. UNCHANGED <<early, crashes, redeliveries>>
    BY <1>5 DEF NbiCreate, NbiRead, NbiEdit, NbiDelete, NbiSend, NbiSendFails,
                NbiRollback, busVars
  <2>2. overwrote => overwrote'
    BY <1>5 DEF NbiCreate, NbiRead, NbiEdit, NbiDelete, NbiSend, NbiSendFails,
                NbiRollback
  <2> QED
    BY <2>1, <2>2 DEF Orderly
<1>6. Create \in Request
  BY DEF Request
<1> QED
  BY <1>1, <1>2, <1>3, <1>4, <1>5, <1>6 DEF Next

\* lock_HA did not get the entry.
Refused(w, r) == Lock(w, r) /\ ~GoesOn(r)

LEMMA RefusedEffect ==
    ASSUME TypeOK, NEW w \in Worker, NEW r \in Request, Refused(w, r)
    PROVE  /\ UNCHANGED <<acct, nbiVars, busVars, roVars, early, overwrote,
                          crashes, kind>>
           /\ Pc(w, r) = "scheduled" /\ Pc(w, r)' = "over"
           /\ \A v \in Worker, q \in Request :
                 v # w \/ q # r => task'[v][q] = task[v][q]
<1>1. ~LockFree(r)
  BY DEF Refused, GoesOn
<1>2. Became(w, r, "over", TRUE, NoRo)
  BY LockEffect DEF Refused
<1> QED
  BY <1>1, <1>2 DEF Refused, Lock, Became, Pc

\* While operations come in turn nobody else runs, before the step or after.
LEMMA NobodyElse ==
    ASSUME Placed, NEW w \in Worker, NEW r \in Request, TaskStep(w, r),
           ~Refused(w, r), Orderly'
    PROVE  /\ Orderly
           /\ \A v \in Worker, q \in Request : v # w \/ q # r =>
                 ~Running(v, q) /\ ~Running(v, q)' /\ task'[v][q] = task[v][q]
<1>0. TypeOK /\ Next
  BY DEF Placed, Listed, Next
<1>1. Orderly
  BY <1>0, StillOrderly
<1>2. \A v \in Worker, q \in Request : v # w \/ q # r =>
         (Running(v, q)' <=> Running(v, q)) /\ task'[v][q] = task[v][q]
  BY <1>0, TaskStepKeeps DEF Running, Pc
<1>3. CASE Lock(w, r)
  <2>1. early' = (early \/ SomebodyRuns \/ EarlierOpen(r))
    BY <1>3 DEF Lock, Refused
  <2>2. ~early'
    BY DEF Orderly
  <2>3. ~SomebodyRuns
    BY <2>1, <2>2
  <2> QED
    BY <1>1, <1>2, <2>3 DEF SomebodyRuns
<1>4. CASE ~Lock(w, r)
  <2>1. Running(w, r)
    BY <1>0, <1>4, OtherSteps DEF Unlock, Running, RunningPcs, TaskPcs
  <2>2. \A v \in Worker, q \in Request : v # w \/ q # r => ~Running(v, q)
    BY <1>1, <2>1 DEF Placed, Alone, Orderly
  <2> QED
    BY <1>1, <1>2, <2>2
<1> QED
  BY <1>3, <1>4

\* A step that leaves the entries alone.
LEMMA QuietInTurn ==
    ASSUME Placed, InTurn, NEW w \in Worker, NEW r \in Request,
           Orderly' => Orderly, UNCHANGED <<req, index, delivered>>,
           acct'.exists => /\ acct.exists /\ DOMAIN acct'.ops = DOMAIN acct.ops
                           /\ \A i \in DOMAIN acct.ops :
                                acct'.ops[i].state = acct.ops[i].state,
           \A v \in Worker, q \in Request : v # w \/ q # r => Pc(v, q)' = Pc(v, q),
           Pc(w, r) \notin {"none", "over"},
           Pc(w, r) = "finish" /\ r \in Delete => Pc(w, r)' = "over",
           Running(w, r)' => Running(w, r)
    PROVE  InTurn'
<1> SUFFICES ASSUME Orderly', acct'.exists PROVE InTurn'
  BY DEF InTurn
<1>1. /\ Orderly /\ acct.exists /\ DOMAIN acct'.ops = DOMAIN acct.ops
      /\ \A i \in DOMAIN acct.ops : Closed(i)' <=> Closed(i)
  BY DEF Closed
<1>2. \A q \in Request : Requested(q)' /\ Closed(index[q])' =>
         Requested(q) /\ Closed(index[q])
  BY <1>1 DEF Placed, Listed, OwnEntries, Requested
<1>3. \A q \in Request : Requested(q)' /\ Closed(index[q])' =>
         /\ q \in delivered'
         /\ \A v \in Worker : \/ Pc(v, q)' \in {"none", "over"}
                              \/ q \in Delete /\ Pc(v, q)' = "finish"
  BY <1>1, <1>2 DEF InTurn
<1>4. \A i, j \in DOMAIN acct'.ops : i < j /\ Closed(j)' => Closed(i)'
  BY <1>1 DEF InTurn
<1>5. \A v \in Worker, q \in Request : Running(v, q)' => Running(v, q)
  BY DEF Running
<1>6. \A v \in Worker, q \in Request : Running(v, q)' =>
         \A i \in DOMAIN acct'.ops : i < index[q] => Closed(i)'
  BY <1>1, <1>5 DEF InTurn
<1> QED
  BY <1>3, <1>4, <1>6 DEF InTurn, Closed

LEMMA LockInTurn ==
    ASSUME Turns, NEW w \in Worker, NEW r \in Request, Lock(w, r), ~Refused(w, r)
    PROVE  InTurn'
<1> SUFFICES ASSUME Orderly', acct'.exists PROVE InTurn'
  BY DEF InTurn
<1>0. Placed /\ TypeOK /\ TaskStep(w, r) /\ UNCHANGED <<req, index, delivered>>
  BY DEF Turns, Placed, Listed, TaskStep, Lock, nbiVars, busVars
<1>1. /\ Orderly /\ acct.exists /\ DOMAIN acct'.ops = DOMAIN acct.ops
      /\ \A i \in DOMAIN acct.ops : Closed(i)' <=> Closed(i)
  BY <1>0, NobodyElse, TaskStepKeeps, LockEffect DEF Closed
<1>2. \A q \in Request : Requested(q)' /\ Closed(index[q])' =>
         Requested(q) /\ Closed(index[q])
  BY <1>0, <1>1 DEF Placed, Listed, OwnEntries, Requested
<1>3. ~(Requested(r) /\ Closed(index[r])) /\ InTurn
  BY <1>1 DEF Turns, InTurn, Lock
<1>4. \A v \in Worker, q \in Request : v # w \/ q # r => Pc(v, q)' = Pc(v, q)
  BY <1>0, TaskStepKeeps DEF Pc
<1>5. \A q \in Request : Requested(q)' /\ Closed(index[q])' =>
         /\ q \in delivered'
         /\ \A v \in Worker : \/ Pc(v, q)' \in {"none", "over"}
                              \/ q \in Delete /\ Pc(v, q)' = "finish"
  BY <1>0, <1>1, <1>2, <1>3, <1>4 DEF InTurn
<1>6. \A i, j \in DOMAIN acct'.ops : i < j /\ Closed(j)' => Closed(i)'
  BY <1>1, <1>3 DEF InTurn
<1>7. ~EarlierOpen(r)
  <2>1. early' = (early \/ SomebodyRuns \/ EarlierOpen(r))
    BY DEF Lock, Refused
  <2>2. ~early'
    BY DEF Orderly
  <2> QED
    BY <2>1, <2>2
<1>8. \A v \in Worker, q \in Request : Running(v, q)' =>
         \A i \in DOMAIN acct'.ops : i < index[q] => Closed(i)'
  BY <1>0, <1>1, <1>7, NobodyElse DEF EarlierOpen, Closed
<1> QED
  BY <1>0, <1>5, <1>6, <1>8 DEF InTurn, Closed

LEMMA UnlockInTurn ==
    ASSUME Turns, NEW w \in Worker, NEW r \in Request, Unlock(w, r)
    PROVE  InTurn'
<1> SUFFICES ASSUME Orderly', acct'.exists PROVE InTurn'
  BY DEF InTurn
<1>0. /\ Placed /\ TypeOK /\ TaskStep(w, r) /\ UNCHANGED <<req, index, delivered>>
      /\ ~Refused(w, r) /\ InTurn
  BY DEF Turns, Placed, Listed, TaskStep, Unlock, nbiVars, busVars, Refused, Lock
<1>1. /\ Orderly /\ acct.exists /\ DOMAIN acct'.ops = DOMAIN acct.ops
      /\ \A i \in DOMAIN acct.ops : i # index[r] => acct'.ops[i] = acct.ops[i]
      /\ \A v \in Worker, q \in Request : v # w \/ q # r =>
            ~Running(v, q) /\ ~Running(v, q)' /\ Pc(v, q)' = Pc(v, q)
  <2>1. acct.exists /\ DOMAIN acct'.ops = DOMAIN acct.ops
    BY <1>0, TaskStepKeeps
  <2>2. \A i \in DOMAIN acct.ops : i # index[r] => acct'.ops[i] = acct.ops[i]
    BY <1>0, UnlockEffect
  <2> QED
    BY <1>0, <2>1, <2>2, NobodyElse DEF Pc
<1>2. Requested(r) /\ index[r] \in DOMAIN acct.ops /\ r \in delivered /\ Running(w, r)
  BY <1>0, <1>1, HolderListed
     DEF Placed, Listed, Posted, Unlock, Running, RunningPcs, TaskPcs
<1>3. Closed(index[r])'
  <2>1. acct'.ops[index[r]].state = Outcome(w, r)
    BY <1>0, <1>1, <1>2, UnlockEffect
  <2> QED
    BY <1>0, <2>1 DEF Outcome, Closed
<1>4. \A i \in DOMAIN acct.ops : Closed(i)' <=> Closed(i) \/ i = index[r]
  BY <1>0, <1>1, <1>3 DEF Closed
<1>5. Pc(w, r)' = "over" \/ (r \in Delete /\ Pc(w, r)' = "finish")
  BY <1>0, UnlockEffect DEF Became, Pc
<1>6. \A v \in Worker : v # w => Pc(v, r) = "none"
  <2>1. Pc(w, r) # "none"
    BY DEF Unlock
  <2> QED
    BY <1>0, <1>1, <2>1 DEF Placed, Once, Orderly
<1>7. ASSUME NEW q \in Request, Requested(q)', Closed(index[q])'
      PROVE  /\ q \in delivered'
             /\ \A v \in Worker : \/ Pc(v, q)' \in {"none", "over"}
                                  \/ q \in Delete /\ Pc(v, q)' = "finish"
  <2>1. CASE q = r
    BY <1>0, <1>1, <1>2, <1>5, <1>6, <2>1
  <2>2. CASE q # r
    <3>1. Requested(q) /\ Closed(index[q])
      BY <1>0, <1>1, <1>2, <1>4, <1>7, <2>2 DEF Placed, Listed, OwnEntries, Requested
    <3> QED
      BY <1>0, <1>1, <2>2, <3>1 DEF InTurn
  <2> QED
    BY <2>1, <2>2
<1>8. ASSUME NEW i \in DOMAIN acct'.ops, NEW j \in DOMAIN acct'.ops,
             i < j, Closed(j)'
      PROVE  Closed(i)'
  BY <1>0, <1>1, <1>2, <1>4, <1>8 DEF InTurn
<1>9. ASSUME NEW v \in Worker, NEW q \in Request, Running(v, q)',
             NEW i \in DOMAIN acct'.ops, i < index[q]
      PROVE  Closed(i)'
  <2>1. Running(v, q)
    BY <1>1, <1>2, <1>9
  <2> QED
    BY <1>0, <1>1, <1>4, <1>9, <2>1 DEF InTurn
<1> QED
  BY <1>0, <1>7, <1>8, <1>9 DEF InTurn, Closed

LEMMA TaskStepInTurn ==
    ASSUME Turns, NEW w \in Worker, NEW r \in Request, TaskStep(w, r)
    PROVE  InTurn'
<1>0. /\ Placed /\ InTurn /\ TypeOK /\ Next
      /\ UNCHANGED <<req, index, delivered>>
  BY TaskStepWrites DEF Turns, Placed, Listed, nbiVars, busVars, Next
<1>1. Orderly' => Orderly
  BY <1>0, StillOrderly
<1>2. /\ Pc(w, r) \notin {"none", "over"}
      /\ \A v \in Worker, q \in Request : v # w \/ q # r => Pc(v, q)' = Pc(v, q)
  BY <1>0, TaskStepKeeps DEF Pc
<1>3. CASE Refused(w, r)
  BY <1>0, <1>1, <1>2, <1>3, RefusedEffect, QuietInTurn
     DEF Running, RunningPcs
<1>4. CASE Lock(w, r) /\ ~Refused(w, r)
  BY <1>4, LockInTurn
<1>5. CASE Unlock(w, r)
  BY <1>5, UnlockInTurn
<1>6. CASE ~Lock(w, r) /\ ~Unlock(w, r)
  <2>1. /\ Running(w, r) /\ (acct'.exists => acct'.ops = acct.ops)
        /\ Pc(w, r) = "finish" /\ r \in Delete => Pc(w, r)' = "over"
    BY <1>0, <1>6, OtherSteps
  <2>2. acct'.exists => acct.exists
    BY <1>0, TaskStepKeeps
  <2> QED
    BY <1>0, <1>1, <1>2, <2>1, <2>2, QuietInTurn
<1> QED
  BY <1>3, <1>4, <1>5, <1>6

\* What NBI or the bus writes about an operation is not its outcome.
LEMMA NbiInTurn ==
    ASSUME Turns, Listed', NEW r \in Request, NbiStep(r)
    PROVE  InTurn'
<1> SUFFICES ASSUME Orderly', acct'.exists PROVE InTurn'
  BY DEF InTurn
<1>0. /\ Placed /\ Listed /\ TypeOK /\ InTurn /\ Next /\ ~overwrote'
      /\ DOMAIN acct.ops = 1..Len(acct.ops) /\ Len(acct.ops) \in Nat
      /\ TypeOK'
  BY OpsFacts DEF Turns, Placed, Listed, Next, NbiStep, Orderly
<1>1. Orderly /\ Extended /\ task' = task
  BY <1>0, StillOrderly, NbiKeeps
<1>2. acct.exists
  BY <1>1 DEF Extended
<1>3. \A i \in DOMAIN acct'.ops : Closed(i)' => i \in DOMAIN acct.ops /\ Closed(i)
  BY <1>1 DEF Extended, Closed
<1>4. \A i \in DOMAIN acct.ops : i \in DOMAIN acct'.ops /\ (Closed(i) => Closed(i)')
  BY <1>1 DEF Extended, Closed
<1>5. delivered' = delivered
  BY DEF NbiStep, NbiRead, NbiEdit, NbiDelete, NbiSend, NbiSendFails, NbiRollback,
         Redeliver, busVars
<1>6. \A q \in Request : Requested(q)' =>
         \/ Requested(q) /\ index'[q] = index[q]
         \/ index'[q] \notin DOMAIN acct.ops
  <2>1. CASE NbiEdit(r) \/ NbiDelete(r)
    <3>1. index'[r] \notin DOMAIN acct.ops
      BY <1>0, <2>1, WriteEffect
    <3> QED
      BY <1>0, <2>1, <3>1, WriteEffect DEF Requested
  <2>2. CASE ~NbiEdit(r) /\ ~NbiDelete(r)
    <3>1. index' = index /\ \A q \in Request : Requested(q)' => Requested(q)
      BY <1>0, <2>2 DEF NbiStep, NbiRead, NbiSend, NbiSendFails, NbiRollback,
                        Redeliver, Requested, TypeOK, nbiVars
    <3> QED
      BY <3>1
  <2> QED
    BY <2>1, <2>2
<1>7. ASSUME NEW q \in Request, Requested(q)', Closed(index[q])'
      PROVE  /\ q \in delivered'
             /\ \A v \in Worker : \/ Pc(v, q)' \in {"none", "over"}
                                  \/ q \in Delete /\ Pc(v, q)' = "finish"
  <2>1. index'[q] \in DOMAIN acct'.ops
    BY <1>7 DEF Listed, OwnEntries
  <2>2. index'[q] \in DOMAIN acct.ops /\ Closed(index'[q])
    BY <1>3, <1>7, <2>1 DEF Closed
  <2>3. Requested(q) /\ index'[q] = index[q] /\ Closed(index[q])
    BY <1>3, <1>6, <1>7, <2>1, <2>2 DEF Closed
  <2> QED
    BY <1>1, <1>2, <1>5, <2>3, <1>0 DEF InTurn, Pc
<1>8. ASSUME NEW i \in DOMAIN acct'.ops, NEW j \in DOMAIN acct'.ops,
             i < j, Closed(j)'
      PROVE  Closed(i)'
  <2>1. DOMAIN acct'.ops = 1..Len(acct'.ops)
    BY <1>0, OpsFacts DEF TypeOK, AccountRec
  <2>2. j \in DOMAIN acct.ops /\ Closed(j) /\ i \in DOMAIN acct.ops
    BY <1>0, <1>3, <1>8, <2>1
  <2> QED
    BY <1>0, <1>1, <1>2, <1>4, <1>8, <2>2 DEF InTurn
<1>9. ASSUME NEW v \in Worker, NEW q \in Request, Running(v, q)',
             NEW i \in DOMAIN acct'.ops, i < index'[q]
      PROVE  Closed(i)'
  <2>1. Running(v, q) /\ Requested(q) /\ index[q] \in DOMAIN acct.ops
    BY <1>0, <1>1, <1>2, <1>9, HolderListed DEF Running, RunningPcs, Pc
  <2>2. index'[q] = index[q]
    BY <1>0, <2>1, NbiKeeps
  <2>3. DOMAIN acct'.ops = 1..Len(acct'.ops)
    BY <1>0, OpsFacts DEF TypeOK, AccountRec
  <2>4. i \in DOMAIN acct.ops
    BY <1>0, <1>9, <2>1, <2>2, <2>3
  <2> QED
    BY <1>0, <1>1, <1>2, <1>4, <1>9, <2>1, <2>2, <2>4 DEF InTurn
<1> QED
  BY <1>7, <1>8, <1>9 DEF InTurn, Closed

LEMMA CreateInTurn == ASSUME Placed, NbiCreate PROVE InTurn'
<1>1. \A w \in Worker, r \in Request : Pc(w, r)' = "none"
  BY HolderListed DEF Placed, NbiCreate, Pc
<1>2. DOMAIN acct'.ops = 1..1 /\ acct'.ops[1].state = "PROCESSING"
  BY CreateEffect DEF Placed, Listed, NewOperation
<1>3. \A r \in Request : Requested(r)' => index'[r] = 1
  BY DEF Placed, Listed, TypeOK, BeforeAll, NbiCreate, Requested
<1> QED
  BY <1>1, <1>2, <1>3 DEF InTurn, Closed, Running, RunningPcs

LEMMA DeliverInTurn ==
    ASSUME Turns, NEW w \in Worker, NEW r \in Request, Deliver(w, r)
    PROVE  InTurn'
<1> SUFFICES ASSUME Orderly', acct'.exists PROVE InTurn'
  BY DEF InTurn
<1>0. /\ Placed /\ Listed /\ TypeOK /\ InTurn /\ Next
      /\ UNCHANGED <<acct, req, index>> /\ delivered' = delivered \cup {r}
      /\ r \in inbox
  BY DEF Turns, Placed, Listed, Next, Deliver, nbiVars
<1>1. Orderly /\ acct.exists
  BY <1>0, StillOrderly
<1>2. r \notin delivered
  BY <1>0, <1>1 DEF Placed, Once, Orderly
<1>3. \A v \in Worker, q \in Request :
         /\ q # r => Pc(v, q)' = Pc(v, q)
         /\ Running(v, q)' => Running(v, q)
  <2>1. CASE task' = task
    BY <2>1 DEF Running, Pc
  <2>2. CASE Became(w, r, "scheduled", TRUE, NoRo)
    BY <2>2 DEF Became, Running, RunningPcs, Pc
  <2> QED
    BY <1>0, <2>1, <2>2, DeliverEffect
<1>4. ~(Requested(r) /\ Closed(index[r]))
  BY <1>0, <1>1, <1>2 DEF InTurn
<1> QED
  BY <1>0, <1>1, <1>3, <1>4 DEF InTurn, Requested, Closed

LEMMA TurnsKept == Turns /\ [Next]_vars => Turns'
<1> SUFFICES ASSUME Turns, [Next]_vars PROVE Turns'
  OBVIOUS
<1>0. Create \in Request /\ TypeOK /\ Placed /\ Listed /\ Listed' /\ InTurn
  BY ListedKept DEF Turns, Placed, Listed, Request
<1>1. CASE UNCHANGED vars
  BY <1>0, <1>1 DEF Turns, Placed, Once, Alone, Paths, PathOf, InTurn, Orderly,
                    Requested, Closed, Running, Pc, vars, nbiVars, busVars
<1>2. CASE NbiCreate
  BY <1>0, <1>2, NbiPlaced, CreateInTurn DEF Turns
<1>3. ASSUME NEW r \in Request, NbiStep(r) PROVE Turns'
  BY <1>0, <1>3, NbiPlaced, NbiInTurn DEF Turns
<1>4. ASSUME NEW w \in Worker, NEW r \in Request, Deliver(w, r) PROVE Turns'
  BY <1>0, <1>4, BusPlaced, DeliverInTurn DEF Turns
<1>5. ASSUME NEW w \in Worker, NEW r \in Request, TaskStep(w, r) PROVE Turns'
  BY <1>0, <1>5, TaskStepPlaced, TaskStepInTurn DEF Turns
<1>6. ASSUME NEW w \in Worker, Crash(w) PROVE Turns'
  <2>1. Placed'
    BY <1>0, <1>6, BusPlaced
  <2>2. ~Orderly'
    BY <1>0, <1>6 DEF Crash, Orderly, TypeOK
  <2> QED
    BY <2>1, <2>2 DEF Turns, InTurn
<1> QED
  BY <1>1, <1>2, <1>3, <1>4, <1>5, <1>6 DEF Next, NbiStep

LEMMA InitTurns == Init => Turns
<1> SUFFICES ASSUME Init PROVE Turns
  OBVIOUS
<1>1. \A w \in Worker, r \in Request : Pc(w, r) = "none"
  BY DEF Init, Pc, NoTask
<1>2. ~acct.exists
  BY NoAccountFields DEF Init
<1> QED
  BY <1>1, <1>2, InitListed
     DEF Turns, Placed, Once, Alone, Paths, PathOf, InTurn, Running, RunningPcs, Init

-----------------------------------------------------------------------------
(* The record names what exists at RO                                       *)

\* Neither force nor a rollback removes the record.
Kept == req[Create] # "rolledback" /\ \A r \in Forced : ~Requested(r)
Calm == Orderly /\ Kept

\* create has an object whose id is not in the record yet.
Unnamed(w) == \/ Pc(w, Create) = "record"
              \/ kind = "sdn" /\ Pc(w, Create) = "finish" /\ task[w][Create].ok

\* What the coroutine of r at w relies on.
NamedAt(w, r) ==
    /\ r = Create /\ (Pc(w, r) = "call" \/ Unnamed(w)) => acct.exists /\ acct.ro = NoRo
    /\ r = Create /\ Unnamed(w) => live \subseteq {task[w][r].seen}
    /\ r # Create /\ Pc(w, r) = "call" => task[w][r].seen = acct.ro
    /\ Pc(w, r) = "remove" => live = {}

\* create has not asked RO yet.
Unborn == \/ Create \notin delivered
          \/ \E w \in Worker : Pc(w, Create) \in {"scheduled", "start", "call"}

RoNamed == Calm =>
    /\ Unborn => live = {}
    /\ (\A w \in Worker : ~Unnamed(w)) => live \subseteq {acct.ro}
    /\ \A w \in Worker, r \in Request : NamedAt(w, r)

LEMMA StillCalm ==
    ASSUME Listed, [Next]_vars, Calm' PROVE Calm
<1>0. TypeOK /\ Create \in Request
  BY DEF Listed, Request
<1>1. Orderly
  BY <1>0, StillOrderly DEF Calm
<1>2. Kept' => Kept
  <2>1. CASE UNCHANGED vars
    BY <2>1 DEF vars, nbiVars, Kept, Requested
  <2>2. CASE NbiCreate
    BY <1>0, <2>2, AccountAssumption DEF NbiCreate, Kept, Requested, TypeOK
  <2>3. ASSUME NEW r \in Request, NbiStep(r) PROVE Kept' => Kept
    <3>1. \A q \in Request : Requested(q) => Requested(q)'
      BY <2>3, NbiKeeps
    <3>2. req[Create] = "rolledback" => req'[Create] = "rolledback"
      BY <1>0, <2>3 DEF NbiStep, NbiRead, NbiEdit, NbiDelete, NbiSend, NbiSendFails,
                        NbiRollback, Redeliver, nbiVars, TypeOK
    <3> QED
      BY <3>1, <3>2, AccountAssumption DEF Kept, Request
  <2>4. ASSUME NEW w \in Worker, NEW r \in Request,
               Crash(w) \/ Deliver(w, r) \/ TaskStep(w, r)
        PROVE  Kept' => Kept
    <3>1. req' = req
      BY <1>0, <2>4, TaskStepWrites DEF Crash, Deliver, nbiVars
    <3> QED
      BY <3>1 DEF Kept, Requested
  <2> QED
    BY <1>0, <2>1, <2>2, <2>3, <2>4 DEF Next, NbiStep
<1> QED
  BY <1>1, <1>2 DEF Calm

\* NBI leaves the record and its RO_vim_id then.
LEMMA NbiCalm ==
    ASSUME Listed, NEW r \in Request, NbiStep(r), Calm'
    PROVE  /\ Calm /\ acct'.exists = acct.exists /\ acct'.ro = acct.ro
           /\ UNCHANGED <<task, kind, delivered, live, sentTo>>
<1>0. TypeOK /\ Next /\ ~overwrote' /\ Kept' /\ acct \in AccountRec
  BY DEF Listed, TypeOK, Next, NbiStep, Calm, Orderly
<1>1. Calm
  BY <1>0, StillCalm
<1>2. UNCHANGED <<task, kind, delivered, live, sentTo>>
  BY <1>0, NbiKeeps DEF NbiStep, NbiRead, NbiEdit, NbiDelete, NbiSend, NbiSendFails,
                        NbiRollback, Redeliver, busVars, roVars
<1>3. acct'.exists => acct.exists /\ acct'.ro = acct.ro
  BY <1>0, NbiKeeps DEF Extended
<1>4. acct.exists => acct'.exists
  <2> SUFFICES ASSUME acct.exists PROVE acct'.exists
    OBVIOUS
  <2>1. CASE NbiEdit(r)
    BY <2>1, <1>0, EditEffect DEF Wrote, Listed, CopyFits, NbiEdit
  <2>2. CASE NbiDelete(r)
    <3>1. Requested(r)'
      BY <2>2, WriteEffect DEF Requested
    <3>2. r \notin Forced
      BY <1>0, <3>1 DEF Kept
    <3> QED
      BY <1>0, <2>2, <3>2, DeleteEffect DEF Wrote
  <2>3. CASE NbiRollback(r)
    BY <1>0, <2>3 DEF NbiRollback, Kept, TypeOK
  <2>4. CASE ~NbiEdit(r) /\ ~NbiDelete(r) /\ ~NbiRollback(r)
    BY <2>4 DEF NbiStep, NbiRead, NbiSend, NbiSendFails, Redeliver
  <2> QED
    BY <2>1, <2>2, <2>3, <2>4
<1>5. ~acct.exists => acct' = acct
  <2> SUFFICES ASSUME ~acct.exists PROVE acct' = acct
    OBVIOUS
  <2>1. CASE NbiRollback(r)
    BY <1>0, <2>1 DEF NbiRollback, Kept, TypeOK
  <2> QED
    BY <2>1 DEF NbiStep, NbiRead, NbiEdit, NbiDelete, NbiSend, NbiSendFails, Redeliver
<1>6. acct'.exists \in BOOLEAN /\ acct.exists \in BOOLEAN
  <2>1. acct' \in AccountRec
    BY <1>0, TypesKept DEF TypeOK
  <2> QED
    BY <1>0, <2>1 DEF AccountRec
<1> QED
  BY <1>1, <1>2, <1>3, <1>4, <1>5, <1>6

\* Who steps is the only one to have a place in the invariant.
LEMMA NamedFrom ==
    ASSUME Placed, NEW w \in Worker, NEW r \in Request, TaskStep(w, r),
           ~Refused(w, r), Calm'
    PROVE  /\ Calm /\ Orderly
           /\ \A v \in Worker : v # w \/ r # Create => ~Unnamed(v) /\ ~Unnamed(v)'
           /\ r # Create => (Unborn' <=> Unborn)
           /\ r = Create => /\ Unborn' => Pc(w, r)' \in {"scheduled", "start", "call"}
                            /\ Pc(w, r) \in {"scheduled", "start", "call"} => Unborn
           /\ /\ Unborn' => live' = {}
              /\ (\A v \in Worker : ~Unnamed(v)') => live' \subseteq {acct'.ro}
              /\ NamedAt(w, r)'
              => RoNamed'
<1>0. /\ Placed /\ Listed /\ TypeOK /\ Next /\ Orderly' /\ Create \in Request
      /\ UNCHANGED <<kind, delivered>>
  BY TaskStepWrites DEF Placed, Listed, Next, Calm, Request, busVars
<1>1. /\ Calm /\ Orderly
      /\ \A v \in Worker, q \in Request : v # w \/ q # r =>
            ~Running(v, q) /\ ~Running(v, q)' /\ task'[v][q] = task[v][q]
  BY <1>0, StillCalm, NobodyElse
<1>2. \A v \in Worker : v # w \/ r # Create => ~Unnamed(v) /\ ~Unnamed(v)'
  BY <1>0, <1>1 DEF Unnamed, Running, RunningPcs, TaskPcs
<1>3. \A v \in Worker, q \in Request : v # w \/ q # r => NamedAt(v, q)'
  BY <1>0, <1>1, <1>2 DEF NamedAt, Running, RunningPcs, TaskPcs
<1>4. r # Create => (Unborn' <=> Unborn)
  BY <1>0, <1>1 DEF Unborn, Pc
<1>5. r = Create => /\ Unborn' => Pc(w, r)' \in {"scheduled", "start", "call"}
                    /\ Pc(w, r) \in {"scheduled", "start", "call"} => Unborn
  <2> SUFFICES ASSUME r = Create PROVE Unborn' => Pc(w, r)' \in {"scheduled", "start", "call"}
    BY DEF Unborn
  <2>1. Pc(w, r) # "none"
    BY <1>0, TaskStepKeeps
  <2>2. Create \in delivered
    BY <1>0, <2>1 DEF Placed, Listed, Posted
  <2>3. \A v \in Worker : v # w => Pc(v, Create) = "none"
    BY <1>0, <1>1, <2>1 DEF Placed, Once, Orderly
  <2>4. \A v \in Worker : v # w => Pc(v, Create)' = "none"
    BY <1>0, <1>1, <2>3 DEF Pc
  <2> QED
    BY <1>0, <2>2, <2>4 DEF Unborn
<1> QED
  BY <1>1, <1>2, <1>3, <1>4, <1>5 DEF RoNamed

LEMMA RefusedNamed ==
    ASSUME Placed, RoNamed, NEW w \in Worker, NEW r \in Request, Refused(w, r)
    PROVE  RoNamed'
<1> SUFFICES ASSUME Calm' PROVE RoNamed'
  BY DEF RoNamed
<1>0. /\ Listed /\ TypeOK /\ Next /\ Create \in Request
      /\ UNCHANGED <<acct, kind, delivered, live>>
      /\ Pc(w, r) = "scheduled" /\ Pc(w, r)' = "over"
      /\ \A v \in Worker, q \in Request : v # w \/ q # r => task'[v][q] = task[v][q]
  BY RefusedEffect DEF Placed, Listed, Next, Request, busVars, roVars, Refused, TaskStep
<1>1. Calm
  BY <1>0, StillCalm
<1>2. \A v \in Worker : Unnamed(v)' <=> Unnamed(v)
  BY <1>0 DEF Unnamed, Pc
<1>3. Unborn' => Unborn
  BY <1>0 DEF Unborn, Pc
<1>4. ASSUME NEW v \in Worker, NEW q \in Request PROVE NamedAt(v, q)'
  <2>1. NamedAt(v, q) /\ (Unnamed(v)' <=> Unnamed(v))
    BY <1>1, <1>2 DEF RoNamed
  <2>2. CASE v = w /\ q = r
    BY <1>0, <2>1, <2>2 DEF NamedAt, Unnamed
  <2>3. CASE v # w \/ q # r
    BY <1>0, <2>1, <2>3 DEF NamedAt, Pc
  <2> QED
    BY <2>2, <2>3
<1> QED
  BY <1>0, <1>1, <1>2, <1>3, <1>4 DEF RoNamed

LEMMA TaskStepNamed ==
    ASSUME Placed, RoNamed, NEW w \in Worker, NEW r \in Request, TaskStep(w, r),
           ~Refused(w, r)
    PROVE  RoNamed'
<1> SUFFICES ASSUME Calm' PROVE RoNamed'
  BY DEF RoNamed
<1>0. /\ Placed /\ Listed /\ TypeOK /\ Create \in Request /\ PathOf(w, r)
      /\ kind' = kind /\ live \subseteq RoId /\ Create \notin Edit \cup Delete
  BY TaskStepWrites, AccountAssumption DEF Placed, Listed, Paths, TypeOK, Request
<1>1. /\ Calm /\ Orderly
      /\ \A v \in Worker : v # w \/ r # Create => ~Unnamed(v) /\ ~Unnamed(v)'
      /\ r # Create => (Unborn' <=> Unborn)
      /\ r = Create => /\ Unborn' => Pc(w, r)' \in {"scheduled", "start", "call"}
                       /\ Pc(w, r) \in {"scheduled", "start", "call"} => Unborn
  BY <1>0, NamedFrom
<1> DEFINE Goal == /\ Unborn' => live' = {}
                   /\ (\A v \in Worker : ~Unnamed(v)') => live' \subseteq {acct'.ro}
                   /\ NamedAt(w, r)'
<1>2. Goal => RoNamed'
  BY <1>0, NamedFrom
<1>3. /\ Unborn => live = {}
      /\ (\A v \in Worker : ~Unnamed(v)) => live \subseteq {acct.ro}
      /\ NamedAt(w, r)
  BY <1>1 DEF RoNamed
<1>4. CASE Lock(w, r)
  <2>1. acct'.exists = acct.exists /\ acct'.ro = acct.ro /\ live' = live
    BY <1>0, <1>4, LockEffect DEF Wrote, LockFree, Lock, roVars
  <2>2. Pc(w, r) = "scheduled" /\ Pc(w, r)' = IF r = Create THEN "start" ELSE "read"
    BY <1>0, <1>4, LockEffect DEF Became, Lock, Refused, Pc
  <2>3. Goal
    BY <1>0, <1>1, <1>3, <2>1, <2>2 DEF NamedAt, Unnamed
  <2> QED
    BY <1>2, <2>3
<1>5. CASE Start(w, r)
  <2>1. r = Create /\ Pc(w, r) = "start" /\ live' = live
    BY <1>0, <1>5 DEF Start, PathOf, roVars
  <2>2. live = {}
    BY <1>1, <1>3, <2>1
  <2>3. CASE acct.exists
    <3>1. Pc(w, r)' = "call" /\ acct'.exists /\ acct'.ro = NoRo
      BY <1>0, <1>5, <2>3, StartEffect DEF Became, Wrote, Pc
    <3>2. Goal
      BY <1>1, <2>1, <2>2, <3>1 DEF NamedAt, Unnamed
    <3> QED
      BY <1>2, <3>2
  <2>4. CASE ~acct.exists
    <3>1. Pc(w, r)' = "over"
      BY <1>0, <1>5, <2>4, MoveEffects DEF Became, Pc
    <3>2. Goal
      BY <1>1, <2>1, <2>2, <3>1 DEF NamedAt, Unnamed
    <3> QED
      BY <1>2, <3>2
  <2> QED
    BY <2>3, <2>4
<1>6. CASE Read(w, r)
  <2>1. r # Create /\ Pc(w, r) = "read" /\ live' = live /\ acct' = acct
    BY <1>0, <1>6 DEF Read, PathOf, roVars
  <2>2. live \subseteq {acct.ro}
    BY <1>1, <1>3, <2>1
  <2>3. acct.ro = NoRo => live = {}
    BY <1>0, <2>2, AccountAssumption
  <2>4. CASE acct.exists
    <3>1. /\ Pc(w, r)' = IF acct.ro # NoRo THEN "call"
                         ELSE IF r \in Edit THEN "unlock" ELSE "remove"
          /\ task'[w][r].seen = acct.ro
      BY <1>0, <1>6, <2>4, ReadEffect DEF Became, Pc
    <3>2. Goal
      BY <1>1, <1>3, <2>1, <2>2, <2>3, <3>1 DEF NamedAt
    <3> QED
      BY <1>2, <3>2
  <2>5. CASE ~acct.exists
    <3>1. Pc(w, r)' = "over"
      BY <1>0, <1>6, <2>5, ReadEffect DEF Became, Pc
    <3>2. Goal
      BY <1>1, <1>3, <2>1, <2>2, <3>1 DEF NamedAt
    <3> QED
      BY <1>2, <3>2
  <2> QED
    BY <2>4, <2>5
<1>7. ASSUME NEW id \in RoId, CallCreate(w, r, id) PROVE RoNamed'
  <2>1. /\ r = Create /\ Pc(w, r) = "call" /\ live' = live \cup {id} /\ acct' = acct
        /\ task[w][r].ok
    BY <1>0, <1>7 DEF CallCreate, PathOf
  <2>2. live = {} /\ acct.exists /\ acct.ro = NoRo
    BY <1>1, <1>3, <2>1 DEF NamedAt
  <2>3. Became(w, r, IF kind = "sdn" THEN "finish" ELSE "record",
               task[w][r].ok, id)
    BY <1>0, <1>7, CallCreateEffect
  <2>4. /\ Pc(w, r)' = IF kind = "sdn" THEN "finish" ELSE "record"
        /\ task'[w][r].ok /\ task'[w][r].seen = id
    BY <2>1, <2>3 DEF Became, Pc
  <2>5. Unnamed(w)'
    BY <1>0, <2>1, <2>4 DEF Unnamed
  <2>6. Goal
    BY <1>1, <2>1, <2>2, <2>4, <2>5 DEF NamedAt
  <2> QED
    BY <1>2, <2>6
<1>8. CASE Record(w, r)
  <2>1. r = Create /\ Pc(w, r) = "record" /\ live' = live /\ Unnamed(w)
    BY <1>0, <1>8 DEF Record, PathOf, roVars, Unnamed
  <2>2. live \subseteq {task[w][r].seen} /\ acct.exists
    BY <1>3, <2>1 DEF NamedAt
  <2>3. Pc(w, r)' = "attach" /\ acct'.exists /\ acct'.ro = task[w][r].seen
    BY <1>0, <1>8, <2>2, RecordEffect DEF Became, Wrote, Pc
  <2>4. Goal
    BY <1>1, <2>1, <2>2, <2>3 DEF NamedAt, Unnamed
  <2> QED
    BY <1>2, <2>4
<1>9. CASE Attach(w, r)
  <2>1. /\ r = Create /\ Pc(w, r) = "attach" /\ live' = live /\ acct' = acct
        /\ kind # "sdn" /\ ~Unnamed(w)
    BY <1>0, <1>9 DEF Attach, PathOf, roVars, Unnamed
  <2>2. Pc(w, r)' = "finish"
    BY <1>0, <1>9, MoveEffects DEF Became, Pc
  <2>3. Goal
    BY <1>0, <1>1, <1>3, <2>1, <2>2 DEF NamedAt, Unnamed
  <2> QED
    BY <1>2, <2>3
<1>10. CASE CallEdit(w, r)
  <2>1. r # Create /\ live' = live /\ acct' = acct
    BY <1>0, <1>10 DEF CallEdit
  <2>2. Pc(w, r)' = "finish"
    BY <1>0, <1>10, MoveEffects DEF Became, Pc
  <2>3. Goal
    BY <1>1, <1>3, <2>1, <2>2 DEF NamedAt
  <2> QED
    BY <1>2, <2>3
<1>11. CASE CallDelete(w, r)
  <2>1. /\ r # Create /\ Pc(w, r) = "call" /\ acct' = acct
        /\ live' = live \ {task[w][r].seen}
    BY <1>0, <1>11 DEF CallDelete
  <2>2. Pc(w, r)' = "remove"
    BY <1>0, <1>11, MoveEffects DEF Became, Pc
  <2>3. live' = {}
    BY <1>1, <1>3, <2>1 DEF NamedAt
  <2>4. Goal
    BY <1>1, <1>3, <2>1, <2>2, <2>3 DEF NamedAt
  <2> QED
    BY <1>2, <2>4
<1>12. CASE CallFails(w, r)
  <2>1. Pc(w, r) \in {"call", "attach"} /\ live' = live /\ acct' = acct
    BY <1>12 DEF CallFails, roVars
  <2>2. Became(w, r, IF r \in Delete THEN "unlock" ELSE "finish",
               FALSE, task[w][r].seen)
    BY <1>0, <1>12, MoveEffects
  <2>3. Pc(w, r)' \in {"unlock", "finish"} /\ ~task'[w][r].ok
    BY <2>2 DEF Became, Pc
  <2>4. \A v \in Worker : ~Unnamed(v)
    BY <1>1, <2>1 DEF Unnamed
  <2>5. Goal
    BY <1>1, <1>3, <2>1, <2>3, <2>4 DEF NamedAt, Unnamed
  <2> QED
    BY <1>2, <2>5
<1>13. CASE Remove(w, r)
  <2>1. r # Create /\ Pc(w, r) = "remove" /\ live' = live
    BY <1>0, <1>13 DEF Remove, PathOf, roVars
  <2>2. live = {} /\ Pc(w, r)' = "over"
    BY <1>0, <1>3, <1>13, <2>1, MoveEffects DEF NamedAt, Became, Pc
  <2>3. Goal
    BY <1>1, <2>1, <2>2 DEF NamedAt
  <2> QED
    BY <1>2, <2>3
<1>14. CASE Finish(w, r)
  <2>1. Pc(w, r) = "finish" /\ live' = live
    BY <1>14 DEF Finish, roVars
  <2>2. Pc(w, r)' \in {"unlock", "over"}
    BY <1>0, <1>14, FinishEffect, MoveEffects DEF Became, Pc
  <2>3. CASE r = Create /\ Unnamed(w)
    <3>1. kind = "sdn" /\ task[w][r].ok /\ acct.exists /\ live \subseteq {task[w][r].seen}
      BY <1>3, <2>1, <2>3 DEF NamedAt, Unnamed
    <3>2. acct'.ro = task[w][r].seen
      BY <1>0, <1>14, <2>3, <3>1, FinishEffect DEF Wrote
    <3>3. Goal
      BY <1>1, <2>1, <2>2, <2>3, <3>1, <3>2 DEF NamedAt, Unnamed
    <3> QED
      BY <1>2, <3>3
  <2>4. CASE ~(r = Create /\ Unnamed(w))
    <3>1. acct'.ro = acct.ro
      <4>1. ~(kind = "sdn" /\ r = Create /\ task[w][r].ok)
        BY <2>1, <2>4 DEF Unnamed
      <4> QED
        BY <1>0, <1>14, <4>1, FinishEffect DEF Wrote, Finish
    <3>2. \A v \in Worker : ~Unnamed(v)
      BY <1>1, <2>4
    <3>3. Goal
      BY <1>1, <1>3, <2>1, <2>2, <3>1, <3>2 DEF NamedAt, Unnamed
    <3> QED
      BY <1>2, <3>3
  <2> QED
    BY <2>3, <2>4
<1>15. CASE Unlock(w, r)
  <2>1. Pc(w, r) = "unlock" /\ live' = live
    BY <1>15 DEF Unlock, roVars
  <2>2. Pc(w, r)' = IF r \in Delete THEN "finish" ELSE "over"
    BY <1>0, <1>15, UnlockEffect DEF Became, Pc
  <2>3. acct'.ro = acct.ro
    BY <1>0, <1>15, UnlockEffect DEF Wrote
  <2>4. \A v \in Worker : ~Unnamed(v)
    BY <1>1, <2>1 DEF Unnamed
  <2>5. Goal
    BY <1>0, <1>1, <1>3, <2>1, <2>2, <2>3, <2>4 DEF NamedAt, Unnamed
  <2> QED
    BY <1>2, <2>5
<1> QED
  BY <1>4, <1>5, <1>6, <1>7, <1>8, <1>9, <1>10, <1>11, <1>12, <1>13, <1>14, <1>15
     DEF TaskStep

LEMMA DeliverNamed ==
    ASSUME Placed, RoNamed, NEW w \in Worker, NEW r \in Request, Deliver(w, r)
    PROVE  RoNamed'
<1> SUFFICES ASSUME Calm' PROVE RoNamed'
  BY DEF RoNamed
<1>0. /\ Listed /\ TypeOK /\ Next /\ Create \in Request /\ r \in inbox
      /\ UNCHANGED <<acct, kind, live>> /\ delivered' = delivered \cup {r}
  BY DEF Placed, Listed, Next, Request, Deliver, roVars
<1>1. Calm
  BY <1>0, StillCalm
<1>2. r \notin delivered
  BY <1>0, <1>1 DEF Placed, Once, Calm, Orderly
<1>3. Pc(w, r) = "none"
  BY <1>0, <1>2 DEF Listed, Posted
<1>4. \A v \in Worker, q \in Request :
         \/ Pc(v, q)' = Pc(v, q) /\ task'[v][q] = task[v][q]
         \/ v = w /\ q = r /\ Pc(v, q)' = "scheduled"
  <2>1. CASE task' = task
    BY <2>1 DEF Pc
  <2>2. CASE Became(w, r, "scheduled", TRUE, NoRo)
    BY <2>2 DEF Became, Pc
  <2> QED
    BY <1>0, <2>1, <2>2, DeliverEffect
<1>5. \A v \in Worker : Unnamed(v)' <=> Unnamed(v)
  BY <1>0, <1>3, <1>4 DEF Unnamed
<1>6. Unborn' => Unborn
  BY <1>0, <1>2, <1>4 DEF Unborn
<1>7. ASSUME NEW v \in Worker, NEW q \in Request PROVE NamedAt(v, q)'
  <2>1. NamedAt(v, q) /\ (Unnamed(v)' <=> Unnamed(v))
    BY <1>1, <1>5 DEF RoNamed
  <2> QED
    BY <1>0, <1>3, <1>4, <2>1 DEF NamedAt, Unnamed
<1> QED
  BY <1>0, <1>1, <1>5, <1>6, <1>7 DEF RoNamed

LEMMA NbiNamed ==
    ASSUME Placed, RoNamed, NEW r \in Request, NbiStep(r) PROVE RoNamed'
<1> SUFFICES ASSUME Calm' PROVE RoNamed'
  BY DEF RoNamed
<1>1. /\ Calm /\ acct'.exists = acct.exists /\ acct'.ro = acct.ro
      /\ UNCHANGED <<task, kind, delivered, live>>
  BY NbiCalm DEF Placed
<1>2. /\ \A v \in Worker : Unnamed(v)' <=> Unnamed(v)
      /\ Unborn' <=> Unborn
  BY <1>1 DEF Unnamed, Unborn, Pc
<1>3. \A v \in Worker, q \in Request : NamedAt(v, q)'
  BY <1>1, <1>2 DEF RoNamed, NamedAt, Pc
<1> QED
  BY <1>1, <1>2, <1>3 DEF RoNamed

LEMMA CreateNamed == ASSUME Placed, RoNamed, NbiCreate PROVE RoNamed'
<1> SUFFICES ASSUME Calm' PROVE RoNamed'
  BY DEF RoNamed
<1>0. /\ Listed /\ Create \in Request /\ req[Create] = "new" /\ Next
      /\ UNCHANGED <<task, live, kind>>
  BY DEF Placed, NbiCreate, Request, Next, roVars
<1>1. Calm /\ Create \notin delivered
  BY <1>0, StillCalm DEF Listed, Posted
<1>2. live = {}
  BY <1>1 DEF RoNamed, Unborn
<1>3. \A w \in Worker, q \in Request : Pc(w, q)' = "none"
  BY <1>0, HolderListed DEF Pc
<1> QED
  BY <1>0, <1>2, <1>3 DEF RoNamed, NamedAt, Unnamed

LEMMA RoNamedKept == Turns /\ RoNamed /\ [Next]_vars => RoNamed'
<1> SUFFICES ASSUME Turns, RoNamed, [Next]_vars PROVE RoNamed'
  OBVIOUS
<1>0. Create \in Request /\ TypeOK /\ Placed /\ Listed
  BY DEF Turns, Placed, Listed, Request
<1>1. CASE UNCHANGED vars
  BY <1>1 DEF RoNamed, Calm, Kept, Requested, Orderly, Unborn, Unnamed, NamedAt, Pc,
              vars, nbiVars, busVars, roVars
<1>2. CASE NbiCreate
  BY <1>0, <1>2, CreateNamed
<1>3. ASSUME NEW r \in Request, NbiStep(r) PROVE RoNamed'
  BY <1>0, <1>3, NbiNamed
<1>4. ASSUME NEW w \in Worker, NEW r \in Request, Deliver(w, r) PROVE RoNamed'
  BY <1>0, <1>4, DeliverNamed
<1>5. ASSUME NEW w \in Worker, NEW r \in Request, TaskStep(w, r) PROVE RoNamed'
  BY <1>0, <1>5, RefusedNamed, TaskStepNamed
<1>6. ASSUME NEW w \in Worker, Crash(w) PROVE RoNamed'
  BY <1>0, <1>6 DEF Crash, Calm, Orderly, TypeOK, RoNamed
<1> QED
  BY <1>1, <1>2, <1>3, <1>4, <1>5, <1>6 DEF Next, NbiStep

\* No object at RO is left that the record does not name.
THEOREM NoOrphanAtRo == Spec => []NoRoOrphan
<1>1. Init => Turns /\ RoNamed
  <2> SUFFICES ASSUME Init PROVE Turns /\ RoNamed
    OBVIOUS
  <2>1. \A w \in Worker, r \in Request : Pc(w, r) = "none"
    BY DEF Init, Pc, NoTask
  <2>2. live = {} /\ Create \in Request
    BY DEF Init, Request
  <2> QED
    BY <2>1, <2>2, InitTurns DEF RoNamed, NamedAt, Unnamed
<1>2. Turns /\ RoNamed /\ [Next]_vars => (Turns /\ RoNamed)'
  BY TurnsKept, RoNamedKept
<1>3. Turns /\ RoNamed => NoRoOrphan
  <2> SUFFICES ASSUME Turns, RoNamed, AllQuiet, Orderly, req[Create] # "rolledback",
                      \A r \in Forced : req[r] = "new"
               PROVE  live \subseteq {acct.ro}
    BY DEF NoRoOrphan
  <2>1. Calm
    BY DEF Calm, Kept, Requested
  <2>2. \A w \in Worker : ~Unnamed(w)
    BY DEF AllQuiet, SomebodyRuns, Unnamed, Running, RunningPcs, TaskPcs, Request
  <2> QED
    BY <2>1, <2>2 DEF RoNamed
<1> QED
  BY <1>1, <1>2, <1>3, PTL DEF Spec

-----------------------------------------------------------------------------
(* What is COMPLETED is at RO                                               *)

\* What a coroutine that works alone leaves in the record.
LEMMA StepAlone ==
    ASSUME Turns, NEW w \in Worker, NEW r \in Request, TaskStep(w, r),
           ~Refused(w, r), Orderly', acct'.exists
    PROVE  /\ Orderly /\ acct.exists /\ DOMAIN acct'.ops = DOMAIN acct.ops
           /\ Len(acct'.ops) = Len(acct.ops)
           /\ index[r] \in DOMAIN acct.ops /\ index[Create] = 1
           /\ r # Create => 1 < index[r]
           /\ \A i \in DOMAIN acct.ops :
                 ~Unlock(w, r) \/ i # index[r] =>
                    acct'.ops[i].state = acct.ops[i].state
           /\ Unlock(w, r) => acct'.ops[index[r]].state = Outcome(w, r)
           /\ acct'.content = acct.content
           /\ r # Create => acct'.ro = acct.ro
           /\ ~Finish(w, r) => acct'.status = acct.status
           /\ Pc(w, r) # "remove"
           /\ r \notin Delete => ~Closed(index[r])
<1>0. /\ Placed /\ Listed /\ TypeOK /\ Create \in Request /\ PathOf(w, r)
      /\ DOMAIN acct.ops = 1..Len(acct.ops)
  BY OpsFacts DEF Turns, Placed, Listed, Paths, Request
<1>1. /\ Orderly /\ acct.exists /\ DOMAIN acct'.ops = DOMAIN acct.ops
      /\ Len(acct'.ops) = Len(acct.ops) /\ Pc(w, r) \notin {"none", "over"}
  BY <1>0, NobodyElse, TaskStepKeeps
<1>2. Requested(r) /\ index[r] \in DOMAIN acct.ops
  BY <1>0, <1>1, HolderListed
<1>3. Requested(Create) /\ index[Create] = 1
  BY <1>0, <1>1 DEF Listed, OwnEntries, Requested
<1>4. r # Create => 1 < index[r]
  BY <1>0, <1>1, <1>2, <1>3 DEF Listed, OwnEntries, TypeOK
<1>5. r \notin Delete => ~Closed(index[r])
  BY <1>1, <1>2 DEF Turns, InTurn
<1>6. \A i \in DOMAIN acct.ops :
         ~Unlock(w, r) \/ i # index[r] => acct'.ops[i].state = acct.ops[i].state
  <2>1. CASE Lock(w, r)
    BY <1>0, <2>1, LockEffect
  <2>2. CASE Unlock(w, r)
    BY <1>0, <2>2, UnlockEffect
  <2>3. CASE ~Lock(w, r) /\ ~Unlock(w, r)
    BY <1>0, <2>3, OtherSteps
  <2> QED
    BY <2>1, <2>2, <2>3
<1>7. Unlock(w, r) => acct'.ops[index[r]].state = Outcome(w, r)
  BY <1>0, <1>1, <1>2, UnlockEffect
<1>8. /\ acct'.content = acct.content
      /\ r # Create => acct'.ro = acct.ro
      /\ ~Finish(w, r) => acct'.status = acct.status
      /\ Pc(w, r) # "remove"
  <2>1. CASE Lock(w, r)
    BY <1>0, <1>1, <2>1, LockEffect DEF Wrote, Lock
  <2>2. CASE Start(w, r)
    BY <1>0, <1>1, <2>2, StartEffect DEF Wrote, Start, PathOf
  <2>3. CASE Record(w, r)
    BY <1>0, <1>1, <2>3, RecordEffect DEF Wrote, Record, PathOf
  <2>4. CASE Finish(w, r)
    BY <1>0, <1>1, <2>4, FinishEffect DEF Wrote, Finish
  <2>5. CASE Unlock(w, r)
    BY <1>0, <1>1, <1>2, <2>5, UnlockEffect DEF Wrote, Unlock
  <2>6. CASE Remove(w, r)
    BY <2>6, NoAccountFields DEF Remove
  <2>7. CASE ~Lock(w, r) /\ ~Start(w, r) /\ ~Record(w, r) /\ ~Finish(w, r)
                /\ ~Unlock(w, r) /\ ~Remove(w, r)
    BY <2>7 DEF TaskStep, Read, CallCreate, Attach, CallEdit, CallDelete, CallFails
  <2> QED
    BY <2>1, <2>2, <2>3, <2>4, <2>5, <2>6, <2>7
<1> QED
  BY <1>1, <1>2, <1>3, <1>4, <1>5, <1>6, <1>7, <1>8

\* The object that create has made, as long as create runs.
CreatedAt(w) ==
    /\ Unnamed(w) => task[w][Create].seen \in live
    /\ \/ Pc(w, Create) = "attach"
       \/ kind # "sdn" /\ Pc(w, Create) = "finish" /\ task[w][Create].ok
       \/ Pc(w, Create) = "unlock" /\ task[w][Create].ok
       => acct.ro \in live

Removing == \E w \in Worker, r \in Delete : Pc(w, r) = "remove"

Made == Orderly /\ acct.exists =>
    /\ \A w \in Worker : CreatedAt(w)
    /\ acct.ops[1].state = "COMPLETED" => acct.ro \in live \/ Removing

LEMMA CreateStepMade ==
    ASSUME Turns, RoNamed, Made, NEW w \in Worker, TaskStep(w, Create),
           ~Refused(w, Create), Orderly', acct'.exists
    PROVE  /\ CreatedAt(w)'
           /\ acct'.ops[1].state = "COMPLETED" => acct'.ro \in live'
<1> DEFINE r == Create
<1>0. /\ Placed /\ Listed /\ TypeOK /\ Create \in Request /\ PathOf(w, Create)
      /\ kind' = kind /\ live \subseteq RoId /\ Create \notin Edit \cup Delete
      /\ Create \in Request
  BY TaskStepWrites, AccountAssumption DEF Turns, Placed, Listed, Paths, TypeOK, Request
<1>1. /\ Orderly /\ acct.exists /\ index[Create] = 1 /\ 1 \in DOMAIN acct.ops
      /\ ~Closed(1)
      /\ ~Unlock(w, Create) => acct'.ops[1].state = acct.ops[1].state
      /\ Unlock(w, Create) => acct'.ops[1].state = Outcome(w, Create)
  BY <1>0, StepAlone
<1>2. CreatedAt(w)
  BY <1>1 DEF Made
<1>3. ~Unlock(w, Create) => acct'.ops[1].state # "COMPLETED"
  BY <1>1 DEF Closed
<1>4. CASE Lock(w, Create)
  <2>1. Pc(w, Create)' = "start"
    BY <1>0, <1>4, LockEffect DEF Became, Refused, Pc
  <2> QED
    BY <1>3, <1>4, <2>1 DEF CreatedAt, Unnamed, Lock, Unlock
<1>5. CASE Start(w, Create)
  <2>1. Pc(w, Create)' = "call"
    BY <1>0, <1>1, <1>5, StartEffect DEF Became, Pc
  <2> QED
    BY <1>3, <1>5, <2>1 DEF CreatedAt, Unnamed, Start, Unlock
<1>6. ASSUME NEW id \in RoId, CallCreate(w, Create, id)
      PROVE  CreatedAt(w)' /\ ~Unlock(w, Create)
  <2>1. Became(w, Create, IF kind = "sdn" THEN "finish" ELSE "record",
               task[w][Create].ok, id)
    BY <1>0, <1>6, CallCreateEffect
  <2>2. /\ Pc(w, Create)' = IF kind = "sdn" THEN "finish" ELSE "record"
        /\ task'[w][Create].seen = id /\ id \in live'
    BY <1>6, <2>1 DEF Became, Pc, CallCreate
  <2> QED
    BY <1>0, <1>6, <2>2 DEF CreatedAt, Unnamed, CallCreate, Unlock
<1>7. CASE Record(w, Create)
  <2>1. /\ Pc(w, Create)' = "attach" /\ acct'.ro = task[w][Create].seen
    BY <1>0, <1>1, <1>7, RecordEffect DEF Became, Wrote, Pc
  <2>2. Unnamed(w) /\ live' = live /\ ~Unlock(w, Create)
    BY <1>7 DEF Record, Unnamed, roVars, Unlock
  <2> QED
    BY <1>2, <1>3, <2>1, <2>2 DEF CreatedAt, Unnamed
<1>8. CASE Attach(w, Create)
  <2>1. Pc(w, Create)' = "finish"
    BY <1>0, <1>8, MoveEffects DEF Became, Pc
  <2>2. /\ Pc(w, Create) = "attach" /\ kind # "sdn" /\ live' = live /\ acct' = acct
        /\ ~Unlock(w, Create)
    BY <1>0, <1>8 DEF Attach, PathOf, roVars, Unlock
  <2> QED
    BY <1>0, <1>2, <1>3, <2>1, <2>2 DEF CreatedAt, Unnamed
<1>9. CASE CallFails(w, Create)
  <2>1. Became(w, Create, IF Create \in Delete THEN "unlock" ELSE "finish",
               FALSE, task[w][Create].seen)
    BY <1>0, <1>9, MoveEffects
  <2>2. Pc(w, Create)' = "finish" /\ ~task'[w][Create].ok
    BY <1>0, <2>1 DEF Became, Pc
  <2>3. ~Unlock(w, Create)
    BY <1>9 DEF CallFails, Unlock
  <2> QED
    BY <1>3, <2>2, <2>3 DEF CreatedAt, Unnamed
<1>10. CASE Finish(w, Create)
  <2>1. /\ Became(w, Create, "unlock", task[w][Create].ok, task[w][Create].seen)
        /\ acct'.ro = IF kind = "sdn" /\ task[w][Create].ok
                        THEN task[w][Create].seen ELSE acct.ro
    BY <1>0, <1>1, <1>10, FinishEffect DEF Wrote
  <2>2. Pc(w, Create)' = "unlock" /\ task'[w][Create].ok = task[w][Create].ok
    BY <2>1 DEF Became, Pc
  <2>3. Pc(w, Create) = "finish" /\ live' = live /\ ~Unlock(w, Create)
    BY <1>10 DEF Finish, roVars, Unlock
  <2>4. task[w][Create].ok => acct'.ro \in live'
    BY <1>2, <2>1, <2>3 DEF CreatedAt, Unnamed
  <2> QED
    BY <1>3, <2>2, <2>3, <2>4 DEF CreatedAt, Unnamed
<1>11. CASE Unlock(w, Create)
  <2>1. Pc(w, Create)' = "over"
    BY <1>0, <1>11, UnlockEffect DEF Became, Pc
  <2>2. Pc(w, Create) = "unlock" /\ live' = live
    BY <1>11 DEF Unlock, roVars
  <2>3. acct'.ro = acct.ro
    BY <1>0, <1>11, UnlockEffect DEF Wrote
  <2>4. acct'.ops[1].state = "COMPLETED" => task[w][Create].ok
    BY <1>1, <1>11 DEF Outcome
  <2> QED
    BY <1>2, <2>1, <2>2, <2>3, <2>4 DEF CreatedAt, Unnamed
<1>12. ~Read(w, Create) /\ ~CallEdit(w, Create) /\ ~CallDelete(w, Create)
         /\ ~Remove(w, Create)
  BY <1>0 DEF Read, CallEdit, CallDelete, Remove, PathOf
<1> QED
  BY <1>3, <1>4, <1>5, <1>6, <1>7, <1>8, <1>9, <1>10, <1>11, <1>12 DEF TaskStep

LEMMA TaskStepMade ==
    ASSUME Turns, RoNamed, Made, NEW w \in Worker, NEW r \in Request, TaskStep(w, r),
           ~Refused(w, r)
    PROVE  Made'
<1> SUFFICES ASSUME Orderly', acct'.exists PROVE Made'
  BY DEF Made
<1>0. /\ Placed /\ Listed /\ TypeOK /\ Create \in Request /\ PathOf(w, r)
      /\ Delete \subseteq Request
  BY DEF Turns, Placed, Listed, Paths, Request
<1>1. /\ Orderly /\ acct.exists /\ index[Create] = 1 /\ 1 \in DOMAIN acct.ops
      /\ r # Create => 1 < index[r] /\ acct'.ro = acct.ro
                         /\ acct'.ops[1].state = acct.ops[1].state
      /\ Pc(w, r) # "remove"
      /\ \A v \in Worker, q \in Request : v # w \/ q # r =>
            ~Running(v, q) /\ ~Running(v, q)'
  <2>1. 1 \in DOMAIN acct.ops
    BY <1>0, StepAlone DEF Listed, OwnEntries, Requested
  <2> QED
    BY <1>0, <2>1, StepAlone, NobodyElse
<1>2. \A v \in Worker : v # w \/ r # Create => CreatedAt(v)'
  BY <1>0, <1>1 DEF CreatedAt, Unnamed, Running, RunningPcs, TaskPcs
<1>3. CASE r = Create
  <2>1. /\ CreatedAt(w)'
        /\ acct'.ops[1].state = "COMPLETED" => acct'.ro \in live'
    BY <1>3, CreateStepMade
  <2> QED
    BY <1>2, <2>1 DEF Made
<1>4. CASE r # Create
  <2>1. ~Removing
    BY <1>0, <1>1 DEF Removing, Running, RunningPcs, TaskPcs
  <2>2. acct'.ops[1].state = "COMPLETED" => acct.ro \in live
    BY <1>1, <1>4, <2>1 DEF Made
  <2>3. CASE CallDelete(w, r)
    <3>1. Pc(w, r)' = "remove" /\ r \in Delete
      BY <1>0, <2>3, MoveEffects DEF Became, Pc, CallDelete
    <3>2. Removing'
      BY <3>1 DEF Removing
    <3> QED
      BY <1>2, <1>4, <3>2 DEF Made
  <2>4. CASE ~CallDelete(w, r)
    <3>1. live' = live
      BY <1>4, <2>4 DEF TaskStep, Lock, Start, Read, CallCreate, Record, Attach, CallEdit,
                  CallFails, Remove, Finish, Unlock, roVars
    <3> QED
      BY <1>1, <1>2, <1>4, <2>2, <3>1 DEF Made
  <2> QED
    BY <2>3, <2>4
<1> QED
  BY <1>3, <1>4

\* A step that moves no coroutine that runs, and leaves the entries.
LEMMA QuietMade ==
    ASSUME Made, Orderly' => Orderly, UNCHANGED <<kind, live>>,
           acct'.exists /\ Orderly' => /\ acct.exists /\ acct'.ro = acct.ro
                         /\ acct'.ops[1].state = acct.ops[1].state,
           \A v \in Worker, q \in Request :
              \/ task'[v][q] = task[v][q]
              \/ ~Running(v, q) /\ ~Running(v, q)'
    PROVE  Made'
<1> SUFFICES ASSUME Orderly', acct'.exists PROVE Made'
  BY DEF Made
<1>0. Create \in Request /\ Delete \subseteq Request
  BY DEF Request
<1>1. \A v \in Worker : CreatedAt(v)'
  <2> SUFFICES ASSUME NEW v \in Worker PROVE CreatedAt(v)'
    OBVIOUS
  <2>1. CASE task'[v][Create] = task[v][Create]
    BY <2>1 DEF Made, CreatedAt, Unnamed, Pc
  <2>2. CASE ~Running(v, Create)'
    BY <2>2 DEF CreatedAt, Unnamed, Running, RunningPcs, TaskPcs
  <2> QED
    BY <1>0, <2>1, <2>2
<1>2. Removing => Removing'
  BY <1>0 DEF Removing, Running, RunningPcs, TaskPcs, Pc
<1> QED
  BY <1>1, <1>2 DEF Made

\* The steps of the bus and of a refused lock move nothing that runs.
LEMMA BusQuiet ==
    ASSUME Turns, NEW w \in Worker, NEW r \in Request,
           Deliver(w, r) \/ Refused(w, r), Orderly'
    PROVE  /\ Orderly /\ UNCHANGED <<acct, kind, live, sentTo, req, index>>
           /\ \A v \in Worker, q \in Request :
                 \/ task'[v][q] = task[v][q]
                 \/ ~Running(v, q) /\ ~Running(v, q)'
<1>0. /\ TypeOK /\ Next
  BY DEF Turns, Placed, Listed, Next, Refused, TaskStep
<1>1. Orderly
  BY <1>0, StillOrderly
<1>2. CASE Refused(w, r)
  BY <1>0, <1>1, <1>2, RefusedEffect DEF roVars, nbiVars, Running, RunningPcs
<1>3. CASE Deliver(w, r)
  <2>1. Pc(w, r) \in {"none", "over"} /\ UNCHANGED <<acct, kind, live, sentTo, req, index>>
    BY <1>3 DEF Deliver, roVars, nbiVars
  <2>2. CASE task' = task
    BY <1>1, <2>1, <2>2
  <2>3. CASE Became(w, r, "scheduled", TRUE, NoRo)
    BY <1>1, <2>1, <2>3 DEF Became, Running, RunningPcs, Pc
  <2> QED
    BY <1>0, <1>3, <2>2, <2>3, DeliverEffect
<1> QED
  BY <1>2, <1>3

\* What NBI writes to a record that nothing else has written meanwhile.
LEMMA NbiExtends ==
    ASSUME Turns, NEW r \in Request, NbiStep(r), Orderly', acct'.exists
    PROVE  /\ Orderly /\ Extended /\ 1 \in DOMAIN acct.ops
           /\ acct'.ops[1].state = acct.ops[1].state
           /\ UNCHANGED <<kind, task, live, sentTo>>
<1>0. /\ Listed /\ Create \in Request /\ TypeOK /\ Next /\ ~overwrote'
  BY DEF Turns, Placed, Listed, Request, Next, NbiStep, Orderly
<1>1. Orderly /\ Extended /\ UNCHANGED <<kind, task, live, sentTo>>
  BY <1>0, StillOrderly, NbiKeeps DEF roVars
<1>2. 1 \in DOMAIN acct.ops
  BY <1>0, <1>1 DEF Extended, Listed, OwnEntries, Requested
<1> QED
  BY <1>1, <1>2 DEF Extended

LEMMA MadeKept == Turns /\ RoNamed /\ Made /\ [Next]_vars => Made'
<1> SUFFICES ASSUME Turns, RoNamed, Made, [Next]_vars PROVE Made'
  OBVIOUS
<1>0. Create \in Request /\ TypeOK /\ Placed /\ Listed
  BY DEF Turns, Placed, Listed, Request
<1>1. CASE UNCHANGED vars
  BY <1>1 DEF Made, CreatedAt, Unnamed, Removing, Orderly, Pc, vars, busVars, roVars
<1>2. CASE NbiCreate
  <2>1. \A w \in Worker, r \in Request : Pc(w, r)' = "none"
    BY <1>0, <1>2, HolderListed DEF NbiCreate, Pc
  <2>2. acct'.ops[1].state = "PROCESSING"
    BY <1>0, <1>2, CreateEffect DEF NewOperation
  <2> QED
    BY <1>0, <2>1, <2>2 DEF Made, CreatedAt, Unnamed
<1>3. ASSUME NEW r \in Request, NbiStep(r) PROVE Made'
  <2>1. SUFFICES ASSUME Orderly', acct'.exists PROVE Made'
    BY DEF Made
  <2>2. /\ Orderly /\ Extended /\ 1 \in DOMAIN acct.ops
        /\ acct'.ops[1].state = acct.ops[1].state
        /\ UNCHANGED <<kind, task, live, sentTo>>
    BY <1>3, <2>1, NbiExtends
  <2> QED
    BY <2>2, QuietMade DEF Extended
<1>4. ASSUME NEW w \in Worker, NEW r \in Request, Deliver(w, r) \/ Refused(w, r)
      PROVE  Made'
  <2>1. SUFFICES ASSUME Orderly' PROVE Made'
    BY DEF Made
  <2>2. /\ Orderly /\ UNCHANGED <<acct, kind, live>>
        /\ \A v \in Worker, q \in Request :
              \/ task'[v][q] = task[v][q]
              \/ ~Running(v, q) /\ ~Running(v, q)'
    BY <1>4, <2>1, BusQuiet
  <2> QED
    BY <2>2, QuietMade
<1>5. ASSUME NEW w \in Worker, NEW r \in Request, TaskStep(w, r) PROVE Made'
  BY <1>4, <1>5, TaskStepMade
<1>6. ASSUME NEW w \in Worker, Crash(w) PROVE Made'
  BY <1>0, <1>6 DEF Crash, Orderly, TypeOK, Made
<1> QED
  BY <1>1, <1>2, <1>3, <1>4, <1>5, <1>6 DEF Next, NbiStep

-----------------------------------------------------------------------------
(* RO knows the edits                                                       *)

\* RO hears of what NBI has written only.
SentIsRequested == \A i \in RoId : \A e \in sentTo[i] : Requested(e)

\* The record includes the edits NBI has written.
Contents == acct.exists /\ ~overwrote =>
    acct.content = {e \in Edit : Requested(e)}

\* A forced removal has no entry.
ForcedUnlisted == \A r \in Forced : index[r] = 0

Written == SentIsRequested /\ Contents /\ ForcedUnlisted

LEMMA TaskStepWritten ==
    ASSUME Listed, Written, NEW w \in Worker, NEW r \in Request, TaskStep(w, r)
    PROVE  Written'
<1>0. /\ TypeOK /\ UNCHANGED <<req, index, overwrote>>
      /\ Requested(r)
  BY TaskStepWrites, TaskStepKeeps, HolderListed DEF Listed, nbiVars
<1>1. acct'.exists => acct.exists /\ acct'.content = acct.content
  <2> SUFFICES ASSUME acct'.exists PROVE acct.exists /\ acct'.content = acct.content
    OBVIOUS
  <2>0. acct.exists
    BY <1>0, TaskStepKeeps
  <2>1. CASE Lock(w, r)
    BY <1>0, <2>0, <2>1, LockEffect DEF Wrote
  <2>2. CASE Start(w, r)
    BY <1>0, <2>0, <2>2, StartEffect DEF Wrote
  <2>3. CASE Record(w, r)
    BY <1>0, <2>0, <2>3, RecordEffect DEF Wrote
  <2>4. CASE Finish(w, r)
    BY <1>0, <2>0, <2>4, FinishEffect DEF Wrote
  <2>5. CASE Unlock(w, r)
    BY <1>0, <2>0, <2>5, UnlockEffect DEF Wrote
  <2>6. CASE Remove(w, r)
    BY <2>6, NoAccountFields DEF Remove
  <2>7. CASE ~Lock(w, r) /\ ~Start(w, r) /\ ~Record(w, r) /\ ~Finish(w, r)
                /\ ~Unlock(w, r) /\ ~Remove(w, r)
    BY <2>0, <2>7 DEF TaskStep, Read, CallCreate, Attach, CallEdit, CallDelete, CallFails
  <2> QED
    BY <2>1, <2>2, <2>3, <2>4, <2>5, <2>6, <2>7
<1>2. \A i \in RoId : \A e \in sentTo'[i] : e \in sentTo[i] \/ e = r
  <2>1. CASE CallEdit(w, r)
    BY <1>0, <2>1 DEF CallEdit, TypeOK
  <2>2. CASE ~CallEdit(w, r)
    <3>1. sentTo' = sentTo
      BY <2>2 DEF TaskStep, Lock, Start, Read, CallCreate, Record, Attach, CallDelete,
                  CallFails, Remove, Finish, Unlock, roVars
    <3> QED
      BY <3>1
  <2> QED
    BY <2>1, <2>2
<1>3. SentIsRequested'
  BY <1>0, <1>2 DEF Written, SentIsRequested, Requested
<1>4. Contents'
  BY <1>0, <1>1 DEF Written, Contents, Requested
<1>5. ForcedUnlisted'
  BY <1>0 DEF Written, ForcedUnlisted
<1> QED
  BY <1>3, <1>4, <1>5 DEF Written

LEMMA NbiWritten ==
    ASSUME Listed, Written, NEW r \in Request, NbiStep(r) PROVE Written'
<1>0. /\ TypeOK /\ sentTo' = sentTo
      /\ Create \notin Edit \cup Delete /\ Edit \cap Delete = {} /\ Forced \subseteq Delete
      /\ Edit \subseteq Request /\ Create \in Request
      /\ sentTo \in [RoId -> SUBSET Edit]
  BY AccountAssumption, NbiKeeps DEF Listed, roVars, Request, TypeOK
<1>1. \A q \in Request : Requested(q) => Requested(q)'
  BY NbiKeeps
<1>2. SentIsRequested'
  BY <1>0, <1>1 DEF Written, SentIsRequested
<1>3. CASE NbiEdit(r)
  <2>1. index'[r] \in Nat /\ \A q \in Request : q # r => index'[q] = index[q]
    BY <1>0, <1>3, WriteEffect, TypesKept DEF TypeOK, Next
  <2>2. r \in Edit
    BY <1>3 DEF NbiEdit
  <2>3. ForcedUnlisted'
    BY <1>0, <2>1, <2>2 DEF Written, ForcedUnlisted, Request
  <2>4. ASSUME acct'.exists, ~overwrote'
        PROVE  acct'.content = {e \in Edit : Requested(e)'}
    <3>1. acct.exists
      BY <1>3, <2>4 DEF NbiEdit
    <3>2. overwrote' = (overwrote \/ copy # acct)
      BY <1>3, <3>1 DEF NbiEdit
    <3>3. ~overwrote /\ copy = acct
      BY <2>4, <3>2
    <3>4. acct'.content = acct.content \cup {r}
      BY <1>0, <1>3, <3>1, <3>3, EditEffect DEF Wrote
    <3>5. \A q \in Edit : Requested(q)' <=> Requested(q) \/ q = r
      BY <1>0, <1>3, <3>1, WriteEffect DEF Requested
    <3>6. acct.content = {e \in Edit : Requested(e)}
      BY <3>1, <3>3 DEF Written, Contents
    <3> QED
      BY <2>2, <3>4, <3>5, <3>6
  <2> QED
    BY <1>2, <2>3, <2>4 DEF Written, Contents
<1>4. CASE NbiDelete(r)
  <2>1. r \in Delete /\ \A q \in Request : q # r => req'[q] = req[q] /\ index'[q] = index[q]
    BY <1>0, <1>4, WriteEffect DEF NbiDelete
  <2>2. r \in Forced => index' = index
    BY <1>4 DEF NbiDelete
  <2>3. ForcedUnlisted'
    BY <1>0, <2>1, <2>2 DEF Written, ForcedUnlisted, Request
  <2>4. acct'.exists => /\ acct.exists /\ acct'.content = acct.content
    <3>1. CASE acct.exists /\ r \in Forced
      BY <1>4, <3>1, NoAccountFields DEF NbiDelete
    <3>2. CASE acct.exists /\ r \notin Forced
      BY <1>0, <1>4, <3>2, DeleteEffect DEF Wrote
    <3>3. CASE ~acct.exists
      BY <1>4, <3>3 DEF NbiDelete
    <3> QED
      BY <3>1, <3>2, <3>3
  <2>5. overwrote' = overwrote /\ \A q \in Edit : Requested(q)' <=> Requested(q)
    BY <1>0, <1>4, <2>1 DEF NbiDelete, Requested
  <2> QED
    BY <1>2, <2>3, <2>4, <2>5 DEF Written, Contents
<1>5. CASE ~NbiEdit(r) /\ ~NbiDelete(r)
  <2>1. UNCHANGED <<index, overwrote>>
    BY <1>5 DEF NbiStep, NbiRead, NbiSend, NbiSendFails, NbiRollback, Redeliver, nbiVars
  <2>2. \A q \in Request : Requested(q)' <=> Requested(q)
    BY <1>0, <1>5 DEF NbiStep, NbiRead, NbiSend, NbiSendFails, NbiRollback, Redeliver,
                      nbiVars, TypeOK, Requested
  <2>3. acct'.exists => acct' = acct
    BY <1>5, NoAccountFields DEF NbiStep, NbiRead, NbiSend, NbiSendFails, NbiRollback,
                                 Redeliver
  <2>4. Contents'
    BY <1>0, <2>1, <2>2, <2>3 DEF Written, Contents
  <2> QED
    BY <1>0, <1>2, <2>1, <2>4 DEF Written, ForcedUnlisted, Request
<1> QED
  BY <1>3, <1>4, <1>5

LEMMA WrittenKept == Listed /\ Written /\ [Next]_vars => Written'
<1> SUFFICES ASSUME Listed, Written, [Next]_vars PROVE Written'
  OBVIOUS
<1>0. /\ Create \in Request /\ TypeOK /\ Create \notin Forced
      /\ Edit \subseteq Request /\ Forced \subseteq Request
      /\ sentTo \in [RoId -> SUBSET Edit] /\ Create \notin Edit
  BY AccountAssumption DEF Listed, Request, TypeOK
<1>1. CASE UNCHANGED vars
  BY <1>1 DEF Written, SentIsRequested, Contents, ForcedUnlisted, Requested,
              vars, nbiVars, roVars
<1>2. CASE NbiCreate
  <2>1. UNCHANGED <<sentTo, overwrote>> /\ acct'.content = {}
    BY <1>0, <1>2, CreateEffect DEF NbiCreate, roVars, Wrote
  <2>2. \A q \in Request : q # Create => /\ ~Requested(q) /\ ~Requested(q)'
                                         /\ index'[q] = index[q]
    BY <1>0, <1>2 DEF NbiCreate, Listed, BeforeAll, Requested, TypeOK
  <2> QED
    BY <1>0, <2>1, <2>2 DEF Written, SentIsRequested, Contents, ForcedUnlisted
<1>3. ASSUME NEW r \in Request, NbiStep(r) PROVE Written'
  BY <1>3, NbiWritten
<1>4. ASSUME NEW w \in Worker, NEW r \in Request, Deliver(w, r) \/ Crash(w) PROVE Written'
  BY <1>4 DEF Deliver, Crash, Written, SentIsRequested, Contents, ForcedUnlisted,
              Requested, nbiVars, roVars
<1>5. ASSUME NEW w \in Worker, NEW r \in Request, TaskStep(w, r) PROVE Written'
  BY <1>5, TaskStepWritten
<1> QED
  BY <1>0, <1>1, <1>2, <1>3, <1>4, <1>5 DEF Next, NbiStep

\* A record that exists was not removed by force or by a rollback.
LEMMA ExistingIsKept ==
    ASSUME Listed, Written, acct.exists PROVE Kept
<1>1. \A r \in Forced : ~Requested(r)
  <2> SUFFICES ASSUME NEW r \in Forced, Requested(r) PROVE FALSE
    OBVIOUS
  <2>1. r \in Request
    BY AccountAssumption DEF Request
  <2>2. 0 \in DOMAIN acct.ops
    BY <2>1 DEF Listed, OwnEntries, Written, ForcedUnlisted
  <2> QED
    BY <2>2, OpsFacts DEF Listed
<1>2. req[Create] # "rolledback"
  BY DEF Listed, OwnEntries
<1> QED
  BY <1>1, <1>2 DEF Kept

\* The object of the record was told about e, unless its creation failed.
Told(e) == \/ acct.ops[1].state = "FAILED"
           \/ acct.ro \in RoId /\ e \in sentTo[acct.ro]

\* An edit that has not met an exception has told RO.
ToldAt(w, e) == Pc(w, e) \in {"finish", "unlock"} /\ task[w][e].ok => Told(e)

Known == Orderly /\ acct.exists =>
    /\ \A w \in Worker, e \in Edit : ToldAt(w, e)
    /\ \A e \in Edit : Requested(e) /\ acct.ops[index[e]].state = "COMPLETED" => Told(e)

LEMMA TaskStepKnown ==
    ASSUME Turns, RoNamed, Made, Written, Known, NEW w \in Worker, NEW r \in Request,
           TaskStep(w, r), ~Refused(w, r)
    PROVE  Known'
<1> SUFFICES ASSUME Orderly', acct'.exists PROVE Known'
  BY DEF Known
<1>0. /\ Placed /\ Listed /\ TypeOK /\ Create \in Request /\ PathOf(w, r)
      /\ Edit \subseteq Request /\ Create \notin Edit /\ Edit \cap Delete = {}
      /\ live \subseteq RoId
      /\ DOMAIN acct.ops = 1..Len(acct.ops)
  BY OpsFacts, AccountAssumption DEF Turns, Placed, Listed, Paths, TypeOK, Request
<1>1. /\ Orderly /\ acct.exists /\ DOMAIN acct'.ops = DOMAIN acct.ops
      /\ index[r] \in DOMAIN acct.ops /\ index[Create] = 1
      /\ r # Create => 1 < index[r] /\ acct'.ro = acct.ro
      /\ \A i \in DOMAIN acct.ops : ~Unlock(w, r) \/ i # index[r] =>
            acct'.ops[i].state = acct.ops[i].state
      /\ Unlock(w, r) => acct'.ops[index[r]].state = Outcome(w, r)
      /\ r \notin Delete => ~Closed(index[r])
  BY StepAlone
<1>2. \A v \in Worker, q \in Request : v # w \/ q # r => ~Running(v, q)'
  BY <1>0, NobodyElse
<1>3. UNCHANGED <<req, index>> /\ 1 \in DOMAIN acct.ops
  BY <1>0, <1>1, TaskStepWrites DEF nbiVars
<1>4. ASSUME NEW e \in Edit, Requested(e)
      PROVE  index[e] \in DOMAIN acct.ops /\ 1 < index[e]
  <2>1. Requested(Create)
    BY <1>0, <1>1 DEF Listed, OwnEntries, Requested
  <2> QED
    BY <1>0, <1>1, <1>4, <2>1 DEF Listed, OwnEntries, TypeOK
<1>5. ASSUME NEW e \in Edit, Requested(e), acct.ops[index[e]].state = "COMPLETED"
      PROVE  Told(e) /\ Closed(1)
  <2>1. Told(e)
    BY <1>1, <1>5 DEF Known
  <2>2. Closed(index[e])
    BY <1>5 DEF Closed
  <2> QED
    BY <1>1, <1>3, <1>4, <1>5, <2>1, <2>2 DEF Turns, InTurn
<1>6. CASE r = Create
  <2>1. \A v \in Worker, e \in Edit : ToldAt(v, e)'
    BY <1>0, <1>2, <1>6 DEF ToldAt, Running, RunningPcs, TaskPcs
  <2>2. ~Closed(1)
    BY <1>0, <1>1, <1>6, AccountAssumption
  <2>3. ASSUME NEW e \in Edit, Requested(e)', acct'.ops[index'[e]].state = "COMPLETED"
        PROVE  FALSE
    <3>1. Requested(e) /\ index'[e] = index[e]
      BY <1>3, <2>3 DEF Requested
    <3>2. acct.ops[index[e]].state = "COMPLETED"
      BY <1>1, <1>4, <1>6, <2>3, <3>1
    <3> QED
      BY <1>5, <2>2, <3>1, <3>2
  <2> QED
    BY <2>1, <2>3 DEF Known
<1>7. CASE r # Create
  <2>1. acct'.ops[1].state = acct.ops[1].state /\ acct'.ro = acct.ro
    BY <1>1, <1>3, <1>7
  <2>2. /\ \A i \in RoId : \A e \in sentTo[i] : e \in sentTo'[i]
        /\ CallEdit(w, r) => task[w][r].seen \in RoId /\ r \in sentTo'[task[w][r].seen]
    <3>1. CASE CallEdit(w, r)
      BY <1>0, <3>1 DEF CallEdit, TypeOK
    <3>2. CASE ~CallEdit(w, r)
      <4>1. sentTo' = sentTo
        BY <3>2 DEF TaskStep, Lock, Start, Read, CallCreate, Record, Attach,
                    CallDelete, CallFails, Remove, Finish, Unlock, roVars
      <4> QED
        BY <3>2, <4>1
    <3> QED
      BY <3>1, <3>2
  <2>3. \A e \in Edit : Told(e) => Told(e)'
    BY <2>1, <2>2 DEF Told
  <2>4. ASSUME r \in Edit PROVE ToldAt(w, r)'
    <3>1. ToldAt(w, r)
      BY <1>1, <2>4 DEF Known
    <3>2. CASE Lock(w, r)
      <4>1. GoesOn(r)
        BY <3>2 DEF Refused
      <4>2. Became(w, r, IF r = Create THEN "start" ELSE "read",
                   task[w][r].ok, task[w][r].seen)
        BY <1>0, <3>2, <4>1, LockEffect
      <4>3. Pc(w, r)' = "read"
        BY <1>7, <4>2 DEF Became, Pc
      <4> QED
        BY <4>3 DEF ToldAt
    <3>3. CASE Read(w, r)
      <4>1. Pc(w, r)' = "unlock" => acct.ro = NoRo
        BY <1>0, <1>1, <3>3, ReadEffect DEF Became, Pc
      <4>2. Pc(w, r)' \in {"call", "unlock"}
        BY <1>0, <1>1, <2>4, <3>3, ReadEffect DEF Became, Pc
      <4>3. acct.ro = NoRo => acct.ops[1].state = "FAILED"
        <5>1. Running(w, r)
          BY <3>3 DEF Read, Running, RunningPcs, TaskPcs
        <5>2. acct.ops[1].state # "PROCESSING"
          BY <1>1, <1>3, <1>7, <5>1 DEF Turns, InTurn, Closed
        <5>3. acct.ops[1] \in OperationRec
          BY <1>0, <1>3, OpsFacts
        <5>4. ~Removing
          <6>1. \A v \in Worker, q \in Request : v # w \/ q # r => ~Running(v, q)
            BY <1>0, NobodyElse
          <6> QED
            BY <1>0, <2>4, <6>1 DEF Removing, Running, RunningPcs, TaskPcs, Request
        <5>5. acct.ops[1].state = "COMPLETED" => acct.ro \in RoId
          BY <1>0, <1>1, <5>4 DEF Made
        <5> QED
          BY <5>2, <5>3, <5>5, AccountAssumption DEF OperationRec
      <4> QED
        BY <2>1, <4>1, <4>2, <4>3 DEF ToldAt, Told
    <3>4. CASE CallEdit(w, r)
      <4>1. Calm
        BY <1>0, <1>1, ExistingIsKept DEF Calm
      <4>2. task[w][r].seen = acct.ro
        BY <1>7, <3>4, <4>1 DEF RoNamed, NamedAt, CallEdit
      <4> QED
        BY <2>1, <2>2, <3>4, <4>2 DEF ToldAt, Told
    <3>5. CASE CallFails(w, r)
      <4>1. Became(w, r, IF r \in Delete THEN "unlock" ELSE "finish",
                   FALSE, task[w][r].seen)
        BY <1>0, <3>5, MoveEffects
      <4> QED
        BY <4>1 DEF Became, ToldAt
    <3>6. CASE Finish(w, r)
      <4>1. /\ Pc(w, r) = "finish"
            /\ Became(w, r, "unlock", task[w][r].ok, task[w][r].seen)
        BY <1>0, <1>1, <2>4, <3>6, FinishEffect DEF Finish
      <4> QED
        BY <2>3, <2>4, <3>1, <4>1 DEF Became, ToldAt
    <3>7. CASE Unlock(w, r)
      <4>1. Pc(w, r)' = "over"
        BY <1>0, <2>4, <3>7, UnlockEffect DEF Became, Pc
      <4> QED
        BY <4>1 DEF ToldAt
    <3>8. CASE Start(w, r) \/ Record(w, r) \/ Attach(w, r)
      BY <1>0, <1>7, <3>8 DEF Start, Record, Attach, PathOf
    <3>9. CASE CallDelete(w, r) \/ Remove(w, r) \/ \E id \in RoId : CallCreate(w, r, id)
      BY <1>0, <1>7, <2>4, <3>9 DEF CallDelete, Remove, CallCreate, PathOf
    <3> QED
      BY <3>2, <3>3, <3>4, <3>5, <3>6, <3>7, <3>8, <3>9 DEF TaskStep
  <2>5. \A v \in Worker, e \in Edit : ToldAt(v, e)'
    BY <1>0, <1>2, <2>4 DEF ToldAt, Running, RunningPcs, TaskPcs
  <2>6. ASSUME NEW e \in Edit, Requested(e)', acct'.ops[index'[e]].state = "COMPLETED"
        PROVE  Told(e)'
    <3>1. Requested(e) /\ index'[e] = index[e] /\ index[e] \in DOMAIN acct.ops
      BY <1>3, <1>4, <2>6 DEF Requested
    <3>2. CASE acct.ops[index[e]].state = "COMPLETED"
      BY <1>5, <2>3, <3>1, <3>2
    <3>3. CASE acct.ops[index[e]].state # "COMPLETED"
      <4>1. Unlock(w, r) /\ index[e] = index[r] /\ Outcome(w, r) = "COMPLETED"
        BY <1>1, <2>6, <3>1, <3>3
      <4>2. e = r
        <5>1. Requested(r)
          BY <1>0, HolderListed, TaskStepKeeps
        <5> QED
          BY <1>0, <1>1, <3>1, <4>1, <5>1 DEF Listed, OwnEntries
      <4>3. Pc(w, r) = "unlock" /\ task[w][r].ok
        BY <4>1 DEF Outcome, Unlock
      <4>4. Told(e)
        BY <1>1, <4>2, <4>3 DEF Known, ToldAt
      <4> QED
        BY <2>3, <4>4
    <3> QED
      BY <3>2, <3>3
  <2> QED
    BY <2>5, <2>6 DEF Known
<1> QED
  BY <1>6, <1>7

\* The object stays told while entries and running coroutines stay.
LEMMA QuietKnown ==
    ASSUME Known, Orderly' => Orderly, sentTo' = sentTo,
           acct'.exists /\ Orderly' =>
              /\ acct.exists /\ acct'.ro = acct.ro
              /\ acct'.ops[1].state = acct.ops[1].state
              /\ \A e \in Edit :
                    Requested(e)' /\ acct'.ops[index'[e]].state = "COMPLETED" =>
                       Requested(e) /\ acct.ops[index[e]].state = "COMPLETED",
           \A v \in Worker, q \in Request :
              \/ task'[v][q] = task[v][q]
              \/ ~Running(v, q) /\ ~Running(v, q)'
    PROVE  Known'
<1> SUFFICES ASSUME Orderly', acct'.exists PROVE Known'
  BY DEF Known
<1>1. \A e \in Edit : Told(e) => Told(e)'
  BY DEF Told
<1>2. \A v \in Worker, e \in Edit : ToldAt(v, e)'
  <2> SUFFICES ASSUME NEW v \in Worker, NEW e \in Edit PROVE ToldAt(v, e)'
    OBVIOUS
  <2>0. e \in Request
    BY DEF Request
  <2>1. CASE task'[v][e] = task[v][e]
    BY <1>1, <2>1 DEF Known, ToldAt, Pc
  <2>2. CASE ~Running(v, e)'
    BY <2>2 DEF ToldAt, Running, RunningPcs, TaskPcs
  <2> QED
    BY <2>0, <2>1, <2>2
<1> QED
  BY <1>1, <1>2 DEF Known

LEMMA NbiKnown ==
    ASSUME Turns, Known, NEW r \in Request, NbiStep(r) PROVE Known'
<1> SUFFICES ASSUME Orderly', acct'.exists PROVE Known'
  BY DEF Known
<1>0. /\ Listed /\ TypeOK /\ TypeOK' /\ Listed' /\ Edit \subseteq Request
      /\ DOMAIN acct.ops = 1..Len(acct.ops) /\ Len(acct.ops) \in Nat
  BY OpsFacts, ListedKept DEF Turns, Placed, Listed, Request, Next, NbiStep
<1>1. /\ Orderly /\ Extended /\ 1 \in DOMAIN acct.ops
      /\ acct'.ops[1].state = acct.ops[1].state
      /\ UNCHANGED <<kind, task, live, sentTo>>
  BY NbiExtends
<1>2. ASSUME NEW e \in Edit, Requested(e)', acct'.ops[index'[e]].state = "COMPLETED"
      PROVE  Requested(e) /\ acct.ops[index[e]].state = "COMPLETED"
  <2>1. index'[e] \in DOMAIN acct'.ops
    BY <1>0, <1>2 DEF Listed, OwnEntries
  <2>2. index'[e] \in DOMAIN acct.ops /\ acct.ops[index'[e]].state = "COMPLETED"
    BY <1>1, <1>2, <2>1 DEF Extended
  <2>3. Requested(e)
    <3>1. CASE NbiEdit(r) \/ NbiDelete(r)
      <4>1. e # r
        BY <1>0, <2>2, <3>1, WriteEffect
      <4> QED
        BY <1>0, <1>2, <3>1, <4>1, WriteEffect DEF Requested
    <3>2. CASE ~NbiEdit(r) /\ ~NbiDelete(r)
      BY <1>0, <1>2, <3>2 DEF NbiStep, NbiRead, NbiSend, NbiSendFails, NbiRollback,
                              Redeliver, Requested, TypeOK, nbiVars
    <3> QED
      BY <3>1, <3>2
  <2>4. index'[e] = index[e]
    BY <1>0, <2>3, NbiKeeps
  <2> QED
    BY <2>2, <2>3, <2>4
<1> QED
  BY <1>1, <1>2, QuietKnown DEF Extended

LEMMA KnownKept ==
    Turns /\ RoNamed /\ Made /\ Written /\ Known /\ [Next]_vars => Known'
<1> SUFFICES ASSUME Turns, RoNamed, Made, Written, Known, [Next]_vars PROVE Known'
  OBVIOUS
<1>0. Create \in Request /\ TypeOK /\ Placed /\ Listed /\ Edit \subseteq Request
  BY DEF Turns, Placed, Listed, Request
<1>1. CASE UNCHANGED vars
  BY <1>1 DEF Known, ToldAt, Told, Requested, Orderly, Pc, vars, nbiVars, busVars, roVars
<1>2. CASE NbiCreate
  <2>1. \A w \in Worker, r \in Request : Pc(w, r)' = "none"
    BY <1>0, <1>2, HolderListed DEF NbiCreate, Pc
  <2>2. \A e \in Edit : ~Requested(e)'
    BY <1>0, <1>2, AccountAssumption
       DEF NbiCreate, Listed, BeforeAll, Requested, TypeOK
  <2> QED
    BY <1>0, <2>1, <2>2 DEF Known, ToldAt
<1>3. ASSUME NEW r \in Request, NbiStep(r) PROVE Known'
  BY <1>3, NbiKnown
<1>4. ASSUME NEW w \in Worker, NEW r \in Request, Deliver(w, r) \/ Refused(w, r)
      PROVE  Known'
  <2>1. SUFFICES ASSUME Orderly' PROVE Known'
    BY DEF Known
  <2>2. /\ Orderly /\ UNCHANGED <<acct, sentTo, req, index>>
        /\ \A v \in Worker, q \in Request :
              \/ task'[v][q] = task[v][q]
              \/ ~Running(v, q) /\ ~Running(v, q)'
    BY <1>4, <2>1, BusQuiet
  <2>3. \A e \in Edit : Requested(e)' <=> Requested(e)
    BY <2>2 DEF Requested
  <2> QED
    BY <2>2, <2>3, QuietKnown
<1>5. ASSUME NEW w \in Worker, NEW r \in Request, TaskStep(w, r) PROVE Known'
  BY <1>4, <1>5, TaskStepKnown
<1>6. ASSUME NEW w \in Worker, Crash(w) PROVE Known'
  BY <1>0, <1>6 DEF Crash, Orderly, TypeOK, Known
<1> QED
  BY <1>1, <1>2, <1>3, <1>4, <1>5, <1>6 DEF Next, NbiStep

AccountInv == Turns /\ RoNamed /\ Made /\ Written /\ Known

LEMMA InitAccount == Init => AccountInv
<1> SUFFICES ASSUME Init PROVE AccountInv
  OBVIOUS
<1>1. \A w \in Worker, r \in Request : Pc(w, r) = "none"
  BY DEF Init, Pc, NoTask
<1>2. live = {} /\ Create \in Request /\ \A i \in RoId : sentTo[i] = {}
  BY DEF Init, Request
<1>3. ~acct.exists
  BY NoAccountFields DEF Init
<1>4. ForcedUnlisted
  BY AccountAssumption DEF Init, ForcedUnlisted, Request
<1> QED
  BY <1>1, <1>2, <1>3, <1>4, InitTurns
     DEF AccountInv, RoNamed, NamedAt, Unnamed, Made, Known, Written,
         SentIsRequested, Contents

LEMMA AccountKept == AccountInv /\ [Next]_vars => AccountInv'
<1> SUFFICES ASSUME AccountInv, [Next]_vars PROVE AccountInv'
  OBVIOUS
<1>1. Turns /\ RoNamed /\ Made /\ Written /\ Known /\ Listed
  BY DEF AccountInv, Turns, Placed
<1> QED
  BY <1>1, TurnsKept, RoNamedKept, MadeKept, WrittenKept, KnownKept DEF AccountInv

\* An account all of whose operations succeeded is at RO, with every edit.
THEOREM CompletedAccounts == Spec => []CompletedIsApplied
<1>1. AccountInv => CompletedIsApplied
  <2> SUFFICES ASSUME AccountInv, AllQuiet, Orderly, acct.exists,
                      \A i \in DOMAIN acct.ops : acct.ops[i].state = "COMPLETED"
               PROVE  acct.ro \in live /\ sentTo[acct.ro] = acct.content
    BY DEF CompletedIsApplied
  <2>0. /\ Listed /\ Create \in Request /\ live \subseteq RoId /\ ~overwrote
        /\ sentTo \in [RoId -> SUBSET Edit] /\ Edit \subseteq Request
    BY DEF AccountInv, Turns, Placed, Listed, TypeOK, Request, Orderly
  <2>1. 1 \in DOMAIN acct.ops
    BY <2>0 DEF Listed, OwnEntries, Requested
  <2>2. ~Removing
    BY DEF AllQuiet, SomebodyRuns, Removing, Running, RunningPcs, TaskPcs, Request
  <2>3. acct.ro \in live
    BY <2>1, <2>2 DEF AccountInv, Made
  <2>4. acct.content = {e \in Edit : Requested(e)}
    BY <2>0 DEF AccountInv, Written, Contents
  <2>5. \A e \in sentTo[acct.ro] : Requested(e) /\ e \in Edit
    BY <2>0, <2>3 DEF AccountInv, Written, SentIsRequested
  <2>6. ASSUME NEW e \in Edit, Requested(e) PROVE e \in sentTo[acct.ro]
    <3>1. index[e] \in DOMAIN acct.ops
      BY <2>0, <2>6 DEF Listed, OwnEntries
    <3>2. Told(e)
      BY <2>6, <3>1 DEF AccountInv, Known
    <3> QED
      BY <2>1, <3>2 DEF Told
  <2> QED
    BY <2>3, <2>4, <2>5, <2>6
<1> QED
  BY <1>1, InitAccount, AccountKept, PTL DEF Spec

-----------------------------------------------------------------------------
(* A failure shows in the status                                            *)

\* The last step of a failed delete, which has unlocked, writes the status.
Failing == \E w \in Worker, r \in Delete : Pc(w, r) = "finish"

\* What create and edit have written before they unlock.
ShownAt(w, r) ==
    r \notin Delete /\ Pc(w, r) = "unlock" /\ ~task[w][r].ok => acct.status = "ERROR"

Shown == Orderly /\ acct.exists /\ kind # "sdn" =>
    /\ acct.ops[Len(acct.ops)].state = "FAILED" => acct.status = "ERROR" \/ Failing
    /\ \A w \in Worker, r \in Request : ShownAt(w, r)

LEMMA TaskStepShown ==
    ASSUME Turns, Shown, NEW w \in Worker, NEW r \in Request, TaskStep(w, r),
           ~Refused(w, r)
    PROVE  Shown'
<1> SUFFICES ASSUME Orderly', acct'.exists, kind' # "sdn" PROVE Shown'
  BY DEF Shown
<1> DEFINE n == Len(acct.ops)
<1>0. /\ Placed /\ Listed /\ TypeOK /\ PathOf(w, r) /\ kind' = kind
      /\ DOMAIN acct.ops = 1..n /\ n \in Nat /\ Delete \subseteq Request
  BY OpsFacts, TaskStepWrites DEF Turns, Placed, Listed, Paths, Request
<1>1. /\ Orderly /\ acct.exists /\ Len(acct'.ops) = n
      /\ index[r] \in DOMAIN acct.ops /\ n \in DOMAIN acct.ops
      /\ \A i \in DOMAIN acct.ops : ~Unlock(w, r) \/ i # index[r] =>
            acct'.ops[i].state = acct.ops[i].state
      /\ Unlock(w, r) => acct'.ops[index[r]].state = Outcome(w, r)
      /\ ~Finish(w, r) => acct'.status = acct.status
      /\ r \notin Delete => ~Closed(index[r])
  <2>1. index[r] \in DOMAIN acct.ops
    BY StepAlone
  <2>2. n \in DOMAIN acct.ops
    BY <1>0, <2>1
  <2> QED
    BY <2>1, <2>2, StepAlone
<1>2. \A v \in Worker, q \in Request : v # w \/ q # r =>
         ~Running(v, q) /\ ~Running(v, q)'
  BY <1>0, NobodyElse
<1>3. \A v \in Worker, q \in Request : v # w \/ q # r => ShownAt(v, q)'
  BY <1>2 DEF ShownAt, Running, RunningPcs, TaskPcs
<1>4. /\ acct.ops[n].state = "FAILED" => acct.status = "ERROR" \/ Failing
      /\ ShownAt(w, r)
  BY <1>0, <1>1 DEF Shown
<1>5. ~(r \in Delete /\ Pc(w, r) = "finish") => ~Failing
  BY <1>0, <1>2 DEF Failing, Running, RunningPcs, TaskPcs
<1>6. r \notin Delete => ~Closed(n)
  BY <1>0, <1>1 DEF Turns, InTurn
<1> DEFINE Last == acct'.ops[n].state = "FAILED" => acct'.status = "ERROR" \/ Failing'
<1>7. Last /\ ShownAt(w, r)' => Shown'
  BY <1>1, <1>3 DEF Shown
<1>8. CASE Finish(w, r)
  <2>1. /\ Pc(w, r) = "finish"
        /\ acct'.status = IF task[w][r].ok THEN "ENABLED" ELSE "ERROR"
        /\ Became(w, r, "unlock", task[w][r].ok, task[w][r].seen)
             \/ Became(w, r, "over", TRUE, NoRo)
    <3>1. acct'.status = FinalStatus(w, r)
      BY <1>0, <1>1, <1>8, FinishEffect DEF Wrote
    <3>2. /\ Became(w, r, "unlock", task[w][r].ok, task[w][r].seen)
               \/ Became(w, r, "over", TRUE, NoRo)
          /\ Pc(w, r) = "finish" /\ kind # "sdn"
      BY <1>0, <1>1, <1>8, FinishEffect DEF Finish
    <3> QED
      BY <3>1, <3>2 DEF FinalStatus
  <2>2. ShownAt(w, r)'
    BY <2>1 DEF Became, ShownAt, Pc
  <2>3. acct'.ops[n].state = acct.ops[n].state
    BY <1>1, <1>8 DEF Finish, Unlock
  <2>4. r \in Delete => ~task[w][r].ok
    BY <1>0, <2>1 DEF PathOf
  <2>5. Last
    BY <1>6, <2>1, <2>3, <2>4 DEF Closed
  <2> QED
    BY <1>7, <2>2, <2>5
<1>9. CASE Unlock(w, r)
  <2>1. /\ Pc(w, r) = "unlock" /\ acct'.status = acct.status
        /\ r \in Delete => Pc(w, r)' = "finish"
        /\ r \notin Delete => Pc(w, r)' = "over"
    BY <1>0, <1>1, <1>9, UnlockEffect DEF Unlock, Finish, Became, Pc
  <2>2. ShownAt(w, r)'
    BY <2>1 DEF ShownAt
  <2>3. CASE r \in Delete
    <3>1. Failing'
      BY <2>1, <2>3 DEF Failing
    <3> QED
      BY <1>7, <2>2, <3>1
  <2>4. CASE r \notin Delete
    <3>1. acct'.ops[n].state = "FAILED" => Outcome(w, r) = "FAILED"
      BY <1>1, <1>6, <1>9, <2>4 DEF Closed
    <3>2. Last
      BY <1>4, <2>1, <2>4, <3>1 DEF Outcome, ShownAt
    <3> QED
      BY <1>7, <2>2, <3>2
  <2> QED
    BY <2>3, <2>4
<1>10. CASE ~Finish(w, r) /\ ~Unlock(w, r)
  <2>1. acct'.status = acct.status /\ acct'.ops[n].state = acct.ops[n].state
    BY <1>1, <1>10
  <2>2. ~(r \in Delete /\ Pc(w, r) = "finish")
    BY <1>10 DEF TaskStep, Lock, Start, Read, CallCreate, Record, Attach, CallEdit,
                 CallDelete, CallFails, Remove
  <2>3. Last
    BY <1>4, <1>5, <2>1, <2>2
  <2>4. ShownAt(w, r)'
    <3> SUFFICES ASSUME r \notin Delete, Pc(w, r)' = "unlock" PROVE task'[w][r].ok
      BY DEF ShownAt
    <3>1. CASE Read(w, r)
      <4>1. task'[w][r].ok = task[w][r].ok
        BY <1>0, <1>1, <3>1, ReadEffect DEF Became
      <4> QED
        BY <1>0, <3>1, <4>1 DEF PathOf, Read
    <3>2. CASE Lock(w, r)
      <4>1. GoesOn(r)
        BY <3>2 DEF Refused
      <4>2. Became(w, r, IF r = Create THEN "start" ELSE "read",
                   task[w][r].ok, task[w][r].seen)
        BY <1>0, <3>2, <4>1, LockEffect
      <4> QED
        BY <4>2 DEF Became, Pc
    <3>3. CASE Start(w, r) \/ Record(w, r)
      BY <1>0, <1>1, <3>3, StartEffect, RecordEffect DEF Became, Pc
    <3>4. ASSUME NEW id \in RoId, CallCreate(w, r, id) PROVE FALSE
      <4>1. Became(w, r, IF kind = "sdn" THEN "finish" ELSE "record",
                   task[w][r].ok, id)
        BY <1>0, <3>4, CallCreateEffect
      <4> QED
        BY <4>1 DEF Became, Pc
    <3>5. CASE Attach(w, r) \/ CallEdit(w, r)
      BY <1>0, <3>5, MoveEffects DEF Became, Pc
    <3>6. CASE CallFails(w, r)
      <4>1. Became(w, r, IF r \in Delete THEN "unlock" ELSE "finish",
                   FALSE, task[w][r].seen)
        BY <1>0, <3>6, MoveEffects
      <4> QED
        BY <4>1 DEF Became, Pc
    <3>7. CASE CallDelete(w, r) \/ Remove(w, r)
      BY <1>0, <3>7, MoveEffects DEF Became, Pc
    <3> QED
      BY <1>10, <3>1, <3>2, <3>3, <3>4, <3>5, <3>6, <3>7 DEF TaskStep
  <2> QED
    BY <1>7, <2>3, <2>4
<1> QED
  BY <1>8, <1>9, <1>10

\* The status stays with the last entry unless another one is begun.
LEMMA QuietShown ==
    ASSUME Shown, Orderly' => Orderly, kind' = kind,
           acct'.exists /\ Orderly' =>
              /\ acct.exists /\ acct'.status = acct.status
              /\ acct'.ops[Len(acct'.ops)].state = "FAILED" =>
                    acct.ops[Len(acct.ops)].state = "FAILED",
           \A v \in Worker, q \in Request :
              \/ task'[v][q] = task[v][q]
              \/ ~Running(v, q) /\ ~Running(v, q)'
    PROVE  Shown'
<1> SUFFICES ASSUME Orderly', acct'.exists, kind' # "sdn" PROVE Shown'
  BY DEF Shown
<1>1. Failing => Failing'
  BY DEF Failing, Running, RunningPcs, TaskPcs, Pc, Request
<1>2. ASSUME NEW v \in Worker, NEW q \in Request PROVE ShownAt(v, q)'
  <2>1. CASE task'[v][q] = task[v][q]
    BY <2>1 DEF Shown, ShownAt, Pc
  <2>2. CASE ~Running(v, q)'
    BY <2>2 DEF ShownAt, Running, RunningPcs, TaskPcs
  <2> QED
    BY <2>1, <2>2
<1> QED
  BY <1>1, <1>2 DEF Shown

LEMMA ShownKept == Turns /\ Shown /\ [Next]_vars => Shown'
<1> SUFFICES ASSUME Turns, Shown, [Next]_vars PROVE Shown'
  OBVIOUS
<1>0. /\ Create \in Request /\ TypeOK /\ Placed /\ Listed /\ Delete \subseteq Request
      /\ DOMAIN acct.ops = 1..Len(acct.ops) /\ Len(acct.ops) \in Nat
  BY OpsFacts DEF Turns, Placed, Listed, Request
<1>1. CASE UNCHANGED vars
  BY <1>1 DEF Shown, ShownAt, Failing, Orderly, Pc, vars, busVars
<1>2. CASE NbiCreate
  <2>1. \A w \in Worker, r \in Request : Pc(w, r)' = "none"
    BY <1>0, <1>2, HolderListed DEF NbiCreate, Pc
  <2>2. acct'.ops[Len(acct'.ops)].state = "PROCESSING"
    BY <1>0, <1>2, CreateEffect DEF NewOperation
  <2> QED
    BY <1>0, <2>1, <2>2 DEF Shown, ShownAt
<1>3. ASSUME NEW r \in Request, NbiStep(r) PROVE Shown'
  <2>1. SUFFICES ASSUME Orderly', acct'.exists PROVE Shown'
    BY DEF Shown
  <2>2. /\ Orderly /\ Extended /\ UNCHANGED <<kind, task>> /\ 1 \in DOMAIN acct.ops
    BY <1>3, <2>1, NbiExtends
  <2>3. acct'.ops[Len(acct'.ops)].state = "FAILED" =>
           acct.ops[Len(acct.ops)].state = "FAILED"
    <3>1. Len(acct'.ops) \in DOMAIN acct'.ops
      <4>1. TypeOK'
        BY <1>0, TypesKept
      <4>2. DOMAIN acct'.ops = 1..Len(acct'.ops) /\ Len(acct'.ops) \in Nat
        BY <4>1, OpsFacts DEF TypeOK, AccountRec
      <4> QED
        BY <1>0, <2>2, <4>2 DEF Extended
    <3>2. CASE Len(acct'.ops) \in DOMAIN acct.ops
      BY <1>0, <2>2, <3>2 DEF Extended
    <3>3. CASE Len(acct'.ops) \notin DOMAIN acct.ops
      BY <2>2, <3>1, <3>3 DEF Extended
    <3> QED
      BY <3>2, <3>3
  <2> QED
    BY <2>2, <2>3, QuietShown DEF Extended
<1>4. ASSUME NEW w \in Worker, NEW r \in Request, Deliver(w, r) \/ Refused(w, r)
      PROVE  Shown'
  <2>1. SUFFICES ASSUME Orderly' PROVE Shown'
    BY DEF Shown
  <2>2. /\ Orderly /\ UNCHANGED <<acct, kind>>
        /\ \A v \in Worker, q \in Request :
              \/ task'[v][q] = task[v][q]
              \/ ~Running(v, q) /\ ~Running(v, q)'
    BY <1>4, <2>1, BusQuiet
  <2> QED
    BY <2>2, QuietShown
<1>5. ASSUME NEW w \in Worker, NEW r \in Request, TaskStep(w, r) PROVE Shown'
  BY <1>4, <1>5, TaskStepShown
<1>6. ASSUME NEW w \in Worker, Crash(w) PROVE Shown'
  BY <1>0, <1>6 DEF Crash, Orderly, TypeOK, Shown
<1> QED
  BY <1>1, <1>2, <1>3, <1>4, <1>5, <1>6 DEF Next, NbiStep

\* A VIM or WIM whose last operation failed shows it.
THEOREM FailedAccounts == Spec => []FailureIsShown
<1>1. Init => Turns /\ Shown
  <2>1. Init => ~acct.exists
    BY NoAccountFields DEF Init
  <2> QED
    BY <2>1, InitTurns DEF Shown
<1>2. Turns /\ Shown /\ [Next]_vars => (Turns /\ Shown)'
  BY TurnsKept, ShownKept
<1>3. Turns /\ Shown => FailureIsShown
  <2> SUFFICES ASSUME Shown, AllQuiet, Orderly, acct.exists, kind # "sdn",
                      acct.ops[Len(acct.ops)].state = "FAILED"
               PROVE  acct.status = "ERROR"
    BY DEF FailureIsShown
  <2>1. ~Failing
    BY DEF AllQuiet, SomebodyRuns, Failing, Running, RunningPcs, TaskPcs, Request
  <2> QED
    BY <2>1 DEF Shown
<1> QED
  BY <1>1, <1>2, <1>3, PTL DEF Spec
=============================================================================
