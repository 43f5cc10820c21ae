----------------------------- MODULE LcmSlices -----------------------------
(***************************************************************************)
(* LCM's side of network slices: NetsliceLcm.instantiate and terminate     *)
(* start the tasks of the NS operations and poll the database until they   *)
(* have ended, writing the list of NSs back as they go.  An NS task is     *)
(* what a slice sees of NsLcm: it waits for earlier operations on its NS,  *)
(* works, and ends well or not.                                            *)
(*                                                                         *)
(* lock_HA makes every task run once; the wait of waitfor_related_HA is    *)
(* part of a task's first step.  Messages are neither lost nor reordered   *)
(* in a way that matters: operations go by their start times.  A terminate *)
(* does not cancel the task of an earlier operation, since the generator   *)
(* TaskRegistry.cancel is not run.                                         *)
(***************************************************************************)
EXTENDS NbiSlices

Processing(o) == nslcmop[o].state = "PROCESSING"
OpsOf(i) == {o \in Request \X Nsr : req[i].ops[o[2]] = o[1]}

-----------------------------------------------------------------------------
(* waitfor_related_HA                                                       *)

\* Nobody will end this operation: one whose task is over or was never started.
SliceStuck(i) == req[i].pc = "over"
NsStuck(o) == nslcmop[o].run = "no" /\ req[o[1]].pc \in {"poll", "write", "over"}

\* Mutant of EarlierRequests: an operation waits for itself as well.
EarlierOrSame(i) ==
    {q \in 1 .. i : req[q].slice = req[i].slice /\ req[q].state = "PROCESSING"}
EarlierRequests(i) ==
    {q \in 1 .. i - 1 : req[q].slice = req[i].slice /\ req[q].state = "PROCESSING"}
EarlierNsOps(o) ==
    {p \in Request \X Nsr : p[2] = o[2] /\ p[1] < o[1] /\ Processing(p)}

\* Operations that nobody touches are ignored after two hours.  So are those at
\* work that have written nothing for as long (StartBeside, NsStartBeside).
Turn(i) == \A q \in EarlierRequests(i) : SliceStuck(q)
NsTurn(o) == \A p \in EarlierNsOps(o) : NsStuck(p)

-----------------------------------------------------------------------------
(* NetsliceLcm.instantiate and terminate                                    *)

\* The end: the slice and the operation get their states, when they exist.
Ends(i, state, slice) ==
    /\ req' = [req EXCEPT ![i].pc = "over", ![i].read = NoRead, ![i].seen = {},
                          ![i].state = IF @ = "none" THEN @ ELSE state]
    /\ nsi' = [nsi EXCEPT ![req[i].slice] = IF There(req[i].slice) THEN slice
                                                                   ELSE @]

\* Mutant of Fails: the operation gets the status of the slice.
FailsAsShown(i) ==
    Ends(i, "failed", [nsi[req[i].slice] EXCEPT !.shown = "failed"])
Fails(i) ==
    Ends(i, "FAILED", [nsi[req[i].slice] EXCEPT !.shown = "failed"])

\* Starts the tasks of the NS operations O that nobody has started yet.
Launches(O) ==
    nslcmop' = [o \in Request \X Nsr |->
                  IF o \in O /\ nslcmop[o].run = "no"
                    THEN [nslcmop[o] EXCEPT !.run = "wait"] ELSE nslcmop[o]]

\* An NS operation has been deleted with its NS.
Missing(i) == \E o \in OpsOf(i) : nslcmop[o].state = "none"

Exists(i) == There(req[i].slice) /\ req[i].state = "PROCESSING"

Ended(o) == nslcmop[o].state \in {"COMPLETED", "FAILED"}
\* Mutant of AllEnded.
OneEnded(i) == \E o \in OpsOf(i) : Ended(o)
AllEnded(i) == \A o \in OpsOf(i) : Ended(o)

\* Mutant of AnyFailed: the failures of NS operations are not looked at.
NoneLookedAt(i) == FALSE
AnyFailed(i) == \E o \in OpsOf(i) : nslcmop[o].state = "FAILED"

\* An item without an operation has no status to look at (KeyError), unless one
\* before this operation gave it its status; terminate reads the list it wrote.
NoStatus(i, r) ==
    /\ req[i].kind = "instantiate" /\ req[i].ops[r] = NoRequest
    /\ \A q \in 1 .. i - 1 : req[q].slice = req[i].slice => req[q].ops[r] = NoRequest

\* One round of the poll: the items of the slice's list that have an operation,
\* as they are now; the first round belongs to the first step of the task.  The
\* states of the operations, which the code writes with the items, are here no
\* more than their end.
ReadNow(i) ==
    LET n == req[i].slice
        L == nsi[n].list \cap {o[2] : o \in OpsOf(i)}
    IN [list |-> L,
        uses |-> [r \in Nsr |-> IF r \in L THEN nsi[n].uses[r] ELSE NoRequest],
        all |-> IF ~AllEnded(i) THEN "open"
                ELSE IF AnyFailed(i) \/ \E r \in nsi[n].list : NoStatus(i, r)
                  THEN "FAILED" ELSE "COMPLETED"]

StartInstantiate(i) ==
    LET n == req[i].slice
        started == [nsi[n] EXCEPT !.instantiated = TRUE, !.shown = "init"]
    IN /\ req[i].kind = "instantiate" /\ Exists(i)
       /\ IF Missing(i)
            THEN /\ Ends(i, "FAILED", [started EXCEPT !.shown = "failed"])
                 /\ UNCHANGED nslcmop
            ELSE /\ nsi' = [nsi EXCEPT ![n] = started]
                 /\ req' = [req EXCEPT ![i].pc = "write", ![i].read = ReadNow(i)]
                 /\ Launches(OpsOf(i))

\* nss_in_use: the slices with NS r in their VLD that are neither terminated nor
\* failed, slice n, which is shown as terminating, among them.  One that was
\* never instantiated has no state and counts.
InUse(n, r) ==
    {m \in Slice : /\ There(m) /\ r \in nsi[m].vld
                   /\ m = n \/ nsi[m].shown \notin {"terminated", "failed"}}

\* The NS operations that terminate runs: those of NSs not used by two slices.
Terminable(i) ==
    {o \in OpsOf(i) : Cardinality(InUse(req[i].slice, o[2])) < 2}

StartTerminate(i) ==
    LET n == req[i].slice
    IN /\ req[i].kind = "terminate" /\ Exists(i)
       /\ IF ~nsi[n].instantiated
            THEN /\ req' = [req EXCEPT ![i].pc = "over"]
                 /\ UNCHANGED <<nsi, nslcmop>>
          ELSE IF Missing(i) THEN Fails(i) /\ UNCHANGED nslcmop
          ELSE /\ nsi' = [nsi EXCEPT ![n].shown = "terminating"]
               /\ req' = [req EXCEPT ![i].pc = "write", ![i].read = ReadNow(i)]
               /\ Launches(Terminable(i))

\* The slice, or its operations, were removed in the meantime.
StartNothing(i) ==
    /\ ~Exists(i)
    /\ req' = [req EXCEPT ![i].pc = "over"]
    /\ UNCHANGED <<nsi, nslcmop>>

Start(i) ==
    /\ req[i].pc = "sent" /\ Turn(i)
    /\ StartInstantiate(i) \/ StartTerminate(i) \/ StartNothing(i)
    /\ UNCHANGED <<nsr, handler, notices, marks, faults>>

\* The operations before it are at work, but have written nothing for two hours: a
\* poll does not touch its nsilcmops record, and the time limit of an
\* instantiation is the client's (timeout_nsi_deploy).  One that waits itself is
\* not that old.
StartBeside(i) ==
    /\ req[i].pc = "sent" /\ ~Turn(i)
    /\ \A q \in EarlierRequests(i) : SliceStuck(q) \/ req[q].pc = "poll"
    /\ StartInstantiate(i) \/ StartTerminate(i) \/ StartNothing(i)
    /\ marks' = marks \cup {"silent"} /\ Fault("silent") /\ Events + 1 < MaxEvents
    /\ UNCHANGED <<nsr, handler, notices>>

\* The wait for earlier operations of the slice takes an hour: the task ends, and
\* writes nothing, since it has not read its operation yet.
GiveUp(i) ==
    /\ req[i].pc = "sent" /\ EarlierRequests(i) # {}
    /\ req' = [req EXCEPT ![i].pc = "over"]
    /\ IF \E q \in EarlierRequests(i) : ~SliceStuck(q)
         THEN Fault("late") ELSE UNCHANGED faults
    /\ UNCHANGED <<nsi, nsr, nslcmop, handler, notices, marks>>

\* Nothing is written when nothing has changed.
Poll(i) ==
    /\ req[i].pc = "poll"
    /\ IF ~There(req[i].slice) \/ Missing(i) THEN Fails(i)
       ELSE /\ req[i].seen # {ReadNow(i)}
            /\ req' = [req EXCEPT ![i].pc = "write", ![i].read = ReadNow(i)]
            /\ UNCHANGED nsi
    /\ UNCHANGED <<nsr, nslcmop, handler, notices, marks, faults>>

\* The list is written as it was read; when all operations have ended the task
\* ends as well.
Write(i) ==
    LET n == req[i].slice  read == req[i].read
        written == [nsi[n] EXCEPT !.list = read.list, !.uses = read.uses]
        terminates == req[i].kind = "terminate"
    IN /\ req[i].pc = "write"
       /\ marks' = marks \cup
            IF There(n) /\ \E r \in read.list : nsi[n].uses[r] # read.uses[r]
              THEN {"overwritten"} ELSE {}
       /\ IF ~There(n) THEN Fails(i) /\ UNCHANGED notices
          ELSE IF read.all = "open"
            THEN /\ nsi' = [nsi EXCEPT ![n] = written]
                 /\ req' = [req EXCEPT ![i].pc = "poll", ![i].read = NoRead,
                                       ![i].seen = {read}]
                 /\ UNCHANGED notices
          ELSE IF read.all = "FAILED"
            THEN /\ Ends(i, "FAILED", [written EXCEPT !.shown = "failed"])
                 /\ UNCHANGED notices
          ELSE /\ Ends(i, "COMPLETED",
                       IF terminates
                         THEN [written EXCEPT !.instantiated = FALSE,
                                              !.shown = "terminated"]
                         ELSE [written EXCEPT !.shown = "running"])
               /\ notices' = notices \cup
                    IF terminates /\ req[i].autoremove THEN {n} ELSE {}
       /\ UNCHANGED <<nsr, nslcmop, handler, faults>>

\* timeout_nsi_deploy, or two hours for a termination: the NS tasks go on.
Late(i) ==
    LET open == {o \in OpsOf(i) : Processing(o)}
    IN /\ req[i].pc = "poll" /\ open # {} /\ Fails(i)
       /\ IF \E o \in open : ~NsStuck(o) THEN Fault("late")
                                         ELSE UNCHANGED faults
       /\ UNCHANGED <<nsr, nslcmop, handler, notices, marks>>

-----------------------------------------------------------------------------
(* NS tasks (NsLcm.instantiate and terminate)                               *)

NsEnds(o, state) ==
    nslcmop' = [nslcmop EXCEPT ![o].run = "over",
                               ![o].state = IF @ = "none" THEN @ ELSE state]

\* A termination of what is not instantiated ends at once, as COMPLETED.
NsBegins(o) ==
    LET terminates == req[o[1]].kind = "terminate"
    IN IF ~Processing(o) \/ (terminates /\ nsr[o[2]] = "idle")
         THEN NsEnds(o, "COMPLETED") /\ UNCHANGED nsr
         ELSE /\ nslcmop' = [nslcmop EXCEPT ![o].run = "work"]
              /\ nsr' = [nsr EXCEPT ![o[2]] = "instantiated"]

NsStart(o) ==
    /\ nslcmop[o].run = "wait" /\ NsTurn(o) /\ NsBegins(o)
    /\ UNCHANGED <<nsi, req, handler, notices, marks, faults>>

\* Beside operations on the NS at work that have written nothing for two hours.
NsStartBeside(o) ==
    /\ nslcmop[o].run = "wait" /\ ~NsTurn(o) /\ NsBegins(o)
    /\ \A p \in EarlierNsOps(o) : NsStuck(p) \/ nslcmop[p].run = "work"
    /\ marks' = marks \cup {"silent"} /\ Fault("silent")
    /\ UNCHANGED <<nsi, req, handler, notices>>

NsDone(o) ==
    /\ nslcmop[o].run = "work" /\ NsEnds(o, "COMPLETED")
    /\ nsr' = IF req[o[1]].kind = "terminate" /\ nsr[o[2]] = "instantiated"
                THEN [nsr EXCEPT ![o[2]] = "idle"] ELSE nsr
    /\ UNCHANGED <<nsi, req, handler, notices, marks, faults>>

\* A failure leaves the NS instantiated.
NsFails(o) ==
    /\ nslcmop[o].run = "work" /\ NsEnds(o, "FAILED") /\ Fault("nsFails")
    /\ UNCHANGED <<nsi, nsr, req, handler, notices, marks>>

\* The wait for an earlier operation takes an hour.
NsGivesUp(o) ==
    /\ nslcmop[o].run = "wait" /\ EarlierNsOps(o) # {} /\ NsEnds(o, "FAILED")
    /\ IF \E p \in EarlierNsOps(o) : ~NsStuck(p) THEN Fault("late")
                                                 ELSE UNCHANGED faults
    /\ UNCHANGED <<nsi, nsr, req, handler, notices, marks>>

NsStep(o) == NsStart(o) \/ NsDone(o)
LcmStep(i) == Start(i) \/ Poll(i) \/ Write(i)
=============================================================================
