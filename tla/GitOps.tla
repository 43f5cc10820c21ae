------------------------------- MODULE GitOps -------------------------------
(***************************************************************************)
(* The clusters, profiles, KSUs and OKAs of OSM, from the request to the   *)
(* git repository: NBI (NbiGitOps), the bus, LCM (LcmGitOps) and the       *)
(* records they share (GitOpsDb).  Nothing serializes requests about the   *)
(* same record: neither NBI nor LCM looks at operatingState or             *)
(* current_operation.                                                      *)
(***************************************************************************)
EXTENDS LcmGitOps

Next ==
    \/ \E r \in Request : \/ NbiRequest(r) \/ NbiStep(r) \/ NbiSendFails(r)
                          \/ Deliver(r) \/ LcmStep(r)
                          \/ CheckProgress(r) \/ LateEffect(r)
    \/ Crash

Spec == Init /\ [][Next]_vars

\* NBI's threads and LCM's coroutines go on: every await has a time limit.
Work == \E r \in Request : NbiStep(r) \/ Deliver(r) \/ LcmStep(r)

FairSpec == Spec /\ WF_vars(Work)

-----------------------------------------------------------------------------
(* Properties                                                               *)

\* Whatever overlaps, crashes or comes again, an operation that is shown as
\* COMPLETED, in its record or in a copy that will be written back, is one whose
\* workflow and resource check succeeded (update_operation_history).
CompletedIsApplied ==
    \A r \in Request, i \in Item :
        items[i].hist[r] = "COMPLETED" => r \in applied

\* One request at a time, and no fault: what a careful client arranges.
Undisturbed == ~overlap /\ faults \subseteq {"sendFail"}

\* No cluster was given the default profile of another one, which NBI allows.
OwnDefaults == \A r \in Request : req[r].kind = "add" => ~IsDefault(req[r].arg)

\* The comment in NBI says "Before deleting, detach the profile from the associated
\* clusters" (acm_topic.py): for a careful client the lists name no profile that
\* was removed.  The default profile of a cluster that is deleted stays listed.
RemovedIsDetached ==
    Undisturbed /\ Quiet =>
        \A c \in Cluster : There(c) =>
            \A p \in items[c].links : items[p].life # "gone"

\* For a careful client the lists of a cluster agree with the repository, and
\* name profiles that exist (attach_profile, detach_profile, detach).
ListsAreAccurate ==
    Undisturbed /\ OwnDefaults /\ Quiet =>
        \A c \in Cluster :
            There(c) /\ items[c].state = "CREATED" =>
                \A p \in items[c].links : There(p) /\ p \in attached[c]

\* For a careful client a cluster that is gone, and not by force, has left
\* nothing: no entry in k8sclusters, no default profile, none of its KSUs
\* (delete_cluster).
NothingLeftBehind ==
    /\ Undisturbed /\ Quiet
    /\ \A r \in Request : req[r].item \in Cluster => ~req[r].force
    => \A c \in Cluster :
           items[c].life = "gone" =>
               /\ old[c] = "none" /\ ~There(Default[c])
               /\ KsusOf({Default[c]}) = {}

\* operatingState is what a client has to tell when its next request is safe:
\* for a careful client it is not IDLE while a workflow is on its way, save for
\* the commands that never set it.
BusyIsShown ==
    Undisturbed =>
        \A r \in Request :
            /\ task[r].pc \in {"launch", "poll", "check"}
            /\ req[r].kind \notin {"remove", "deregister", "get_creds", "clone"}
            /\ There(req[r].item)
            => items[req[r].item].operating # "IDLE"

\* For a careful client the OKA of a KSU in use is marked as in use, which is
\* what keeps it from being deleted; editing a KSU does not mark its new OKA.
UsedOkaIsMarked ==
    /\ Undisturbed
    /\ \A r \in Request : req[r].kind = "edit" => req[r].item \notin Ksu
    => \A k \in Ksu :
           There(k) /\ items[k].state \in {"IN_CREATION", "CREATED"} =>
               \A a \in items[k].links \cap Oka : items[a].inUse

\* An answer the client can see: the outcome of its operation, the end of the
\* record, an attach that could not be launched, or a KSU that is deleted in the
\* repository and not gone in its clusters.
Answered(r) ==
    LET doc == IF req[r].item = NoItem THEN NoRecord ELSE items[req[r].item]
    IN \/ doc.life = "gone" \/ doc.hist[r] \in {"COMPLETED", "FAILED"}
       \/ req[r].kind = "add" /\ doc.resource = "ERROR"
       \/ req[r].item \in Ksu /\ req[r].kind = "delete" /\ doc.state = "DELETED"

\* A careful client gets an answer to every request whose coroutine is over,
\* whatever the workflows and checks said, before it makes the next one about
\* that record; save for the commands that have no workflow or no state, and
\* for batches.
EndedIsAnswered ==
    Undisturbed /\ OwnDefaults =>
        \A r \in Request :
            /\ task[r].pc = "over" /\ req[r].with = {}
            /\ \A q \in Request : q > r => req[q].item # req[r].item
            /\ req[r].kind \notin {"clone", "move", "get_creds"}
            => Answered(r)

\* Whatever overlaps or fails, the messages are taken and the coroutines end:
\* no command starts itself again for ever (deregister calls delete).
WorkEnds == <>[](inbox = {} /\ \A r \in Request : ~TaskIsLive(r))
=============================================================================
