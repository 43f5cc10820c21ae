------------------------------- MODULE Slices -------------------------------
(***************************************************************************)
(* Network slices, from the request to the NSs that slices share: NBI      *)
(* (NbiSlices), LCM (LcmSlices) and the records of both (SliceDb).         *)
(***************************************************************************)
EXTENDS LcmSlices

Next ==
    \/ NbiRequest
    \/ \E n \in Slice : HandlerStep(n) \/ AutoRemove(n)
    \/ \E i \in Request :
          NbiStep(i) \/ LcmStep(i) \/ StartBeside(i) \/ GiveUp(i) \/ Late(i)
    \/ \E o \in Request \X Nsr :
          NsStep(o) \/ NsStartBeside(o) \/ NsFails(o) \/ NsGivesUp(o)

Spec == Init /\ [][Next]_vars

-----------------------------------------------------------------------------
(* Properties                                                               *)

\* What NBI and LCM have begun goes on; a time limit passes when nothing else can
\* happen to an operation.
Overdue(i) == Late(i) /\ UNCHANGED faults
Work ==
    \/ \E o \in Request \X Nsr : NsStep(o)
    \/ \E i \in Request : LcmStep(i) \/ NbiStep(i)
    \/ \E n \in Slice : HandlerStep(n) \/ AutoRemove(n)
    \/ \E i \in Request : Overdue(i)

Quiet ==
    /\ notices = {} /\ \A n \in Slice : ~Handled(n)
    /\ \A i \in Request : req[i].pc \in {"free", "over"}
    /\ \A o \in Request \X Nsr : nslcmop[o].run \in {"no", "over"}

\* Requests about two slices do not overlap at NBI, none is refused half way,
\* none removes a slice that has an operation under way, no task writes back
\* an item that a request has changed since, and none begins beside an earlier one
\* of its slice or NS that works on in silence (two hours, waitfor_related_HA).
Undisturbed == marks \subseteq {"repeated", "together"}

\* While nothing is disturbed, tasks of two slices side by side and failed or late
\* NS operations included, a slice that is shown as running has all of its NSs
\* instantiated: nobody has terminated the one it shares (NsiLcmOpTopic.new,
\* nss_in_use of NetsliceLcm.terminate).  An operation silent for two hours does
\* disturb: a termination begins beside the instantiation, which then writes
\* "running" while the NSs go down.
RunningHasItsNss ==
    Undisturbed =>
        \A n \in Slice :
            nsi[n].shown = "running" =>
                \A r \in nsi[n].list : nsr[r] = "instantiated"

\* The NSs that a slice lists exist: removing another slice does not take a shared
\* one away (NsiTopic.delete_extra).
ListedExist ==
    Undisturbed =>
        \A n \in Slice : There(n) =>
            \A r \in nsi[n].list : nsr[r] \in {"idle", "instantiated"}

\* No instantiation has given its wait up before it started a task: the NSs it took
\* over or asked for are then listed by a slice that is not instantiated.
NoneGivenUp ==
    \A i \in Request :
        req[i].kind = "instantiate" /\ req[i].pc = "over" =>
            \A o \in OpsOf(i) : nslcmop[o].run # "no"

\* When nothing is disturbed or under way, and no instantiation gave up, no NS runs
\* for nobody: a slice that is instantiated lists it.  Whether a termination of that
\* slice is accepted is another matter: one that failed half way is not repeated.
NothingRunsForNobody ==
    Undisturbed /\ Quiet /\ NoneGivenUp =>
        \A r \in Nsr : nsr[r] = "instantiated" =>
            \E n \in Slice : There(n) /\ nsi[n].instantiated /\ r \in nsi[n].list

\* For a client that has one slice operation at a time under way, and no
\* instantiation that gave up, no NS is left that no slice lists, which nobody
\* would remove (NsiTopic.delete_extra).
NoOrphan ==
    marks \subseteq {"repeated"} /\ Quiet /\ NoneGivenUp =>
        \A r \in Nsr : nsr[r] \in {"idle", "instantiated"} =>
            \E n \in Slice : There(n) /\ r \in nsi[n].list

\* Where everything stops, the tasks of all operations are over, whatever was
\* disturbed; and an operation of a slice that still exists has its outcome, unless
\* one before it was late or the same was asked for twice (NetsliceLcm,
\* waitfor_related_HA).
EverythingEnds ==
    ~ENABLED Work =>
        \A i \in Request :
            /\ req[i].pc \in {"free", "over"}
            /\ req[i].state = "PROCESSING" /\ There(req[i].slice) =>
                   "late" \in faults \/ "repeated" \in marks
=============================================================================
