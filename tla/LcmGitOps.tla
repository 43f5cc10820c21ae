----------------------------- MODULE LcmGitOps -----------------------------
(***************************************************************************)
(* LCM's side of the GitOps objects: ClusterLcm, the four profile classes, *)
(* OkaLcm and KsuLcm.  Each message becomes a coroutine that reads the     *)
(* record once, awaits an ODU workflow and the resources it leads to, and  *)
(* writes the copy it holds back after each of them.  An exception ends a  *)
(* coroutine where it is: nobody catches it.                               *)
(*                                                                         *)
(* What a coroutine does between two awaits is one step here.  Cloud       *)
(* credentials and the registration of the cluster for Helm                *)
(* (K8sClusterLcm) are not here, save for the state it leaves.             *)
(***************************************************************************)
EXTENDS NbiGitOps

Item_(r) == req[r].item
\* Mutant of Command: deregister calls itself.
FirstCommand(r) == req[r].kind
\* deregister ends by calling delete, with the parameters of its own message.
Command(r) == IF task[r].second THEN "delete" ELSE req[r].kind

Ends(r) == task' = [task EXCEPT ![r] = [NoTask EXCEPT !.pc = "over"]]

\* set_one: an error, and the end of the coroutine, when the record is gone.
Saves(r, doc, next) ==
    IF There(Item_(r))
      THEN /\ items' = [items EXCEPT ![Item_(r)] = doc]
           /\ IF next = "over" THEN Ends(r)
              ELSE task' = [task EXCEPT ![r].doc = doc, ![r].pc = next]
      ELSE Ends(r) /\ UNCHANGED items

\* The bus: LCM's callback starts a coroutine.
Deliver(r) ==
    /\ r \in inbox /\ ~TaskIsLive(r)
    /\ inbox' = inbox \ {r}
    /\ task' = [task EXCEPT ![r] = [NoTask EXCEPT !.pc = "scheduled"]]
    /\ UNCHANGED <<items, old, req, extVars, applied, overlap, faults>>

-----------------------------------------------------------------------------

\* initialize_operation, with the copy that get_one reads next.
Initialised(doc, r) ==
    [doc EXCEPT !.hist[r] = "IN_PROGRESS", !.current = r]

\* Cluster update and get_creds read the record and do not initialise.
Initialises(r) == Command(r) \notin {"update", "get_creds"}

\* The records read after the operation was initialised.
AlsoReads(r) ==
    LET links == items[Item_(r)].links
    IN CASE Command(r) \in {"add", "remove"} -> {req[r].arg}
         [] Item_(r) \in Ksu /\ Command(r) = "create" -> links
         [] Item_(r) \in Ksu /\ Command(r) = "edit" ->
                (links \cap Profile) \cup {req[r].arg}
         [] Item_(r) \in Ksu /\ Command(r) = "delete" -> links \cap Profile
         [] OTHER -> {}

\* The operation of the message is in the record, and in those of the whole
\* batch, where it is not: then initialize_operation fails.
Found(r) == /\ There(Item_(r)) /\ req[r].with = {}
            /\ Command(r) = "get_creds" \/ items[Item_(r)].hist[r] # "absent"

Start(r) ==
    LET doc == IF Initialises(r) THEN Initialised(items[Item_(r)], r)
                                 ELSE items[Item_(r)]
    IN /\ task[r].pc = "scheduled"
       /\ IF ~Found(r) THEN Ends(r) /\ UNCHANGED items
          ELSE /\ items' = [items EXCEPT ![Item_(r)] = doc]
               /\ IF \A i \in AlsoReads(r) : There(i)
                    THEN task' = [task EXCEPT
                           ![r].doc = doc,
                           ![r].first = IF Item_(r) \in Cluster THEN doc ELSE @,
                           ![r].pc = IF Command(r) = "get_creds" THEN "check"
                                                                 ELSE "launch"]
                    ELSE Ends(r)
       /\ UNCHANGED <<old, req, inbox, extVars, applied, overlap, faults>>

\* Mutant of AfterWorkflow: the record is IDLE once the workflow has ended.
IdleAfterWorkflow(r, ok) ==
    [WorkflowEnds(task[r].doc, r, ok) EXCEPT !.operating = "IDLE"]
\* Mutant of AfterWorkflow: attach lists the profile before it knows the result.
ListedAfterWorkflow(r, ok) ==
    [WorkflowEnds(task[r].doc, r, ok) EXCEPT
        !.links = IF Command(r) = "add" THEN @ \cup {req[r].arg} ELSE @]
\* The copy after the workflow, with the state it gives the record.
AfterWorkflow(r, ok) ==
    [WorkflowEnds(task[r].doc, r, ok) EXCEPT
        !.resource = IF ok THEN "IN_PROGRESS" ELSE "ERROR",
        !.state = CASE Command(r) \in {"create", "register"} ->
                          IF ok THEN "CREATED" ELSE "FAILED_CREATION"
                    [] Command(r) = "delete" ->
                          IF ok THEN "DELETED" ELSE "FAILED_DELETION"
                    [] Command(r) = "deregister" /\ ~ok -> "FAILED_DELETION"
                    [] OTHER -> @]

\* launch_workflow.  A cluster's coroutine ends when it fails (attach_profile
\* records that in its copy only after it has written it); the others poll the
\* workflow all the same.  There are no workflows to clone or move a KSU.
Launch(r, ok) ==
    LET none == Command(r) \in {"clone", "move"}
        polls == ok \/ Item_(r) \notin Cluster
    IN /\ task[r].pc = "launch"
       /\ \/ none /\ Ends(r) /\ UNCHANGED items
          \/ /\ ~none /\ polls
             /\ task' = [task EXCEPT ![r].pc = "poll", ![r].launched = ok]
             /\ UNCHANGED items
          \/ /\ ~none /\ ~polls
             /\ Saves(r, IF Command(r) # "add" THEN AfterWorkflow(r, FALSE)
                         ELSE [task[r].doc EXCEPT !.resource = "ERROR"], "over")
       /\ UNCHANGED <<old, req, inbox, extVars, applied, overlap, faults>>

\* What a workflow that succeeds does to the repository (external).
Effect(r) ==
    LET i == Item_(r)
        I == {i} \cup IF i \in Cluster /\ items[i].created THEN {Default[i]}
                                                           ELSE {}
        kind == Command(r)
    IN /\ repo' = CASE kind \in {"create", "register"} -> repo \cup I
                    [] kind = "delete" -> repo \ I
                    [] OTHER -> repo
       /\ attached' =
            CASE kind = "create" /\ i \in Cluster ->
                     [attached EXCEPT ![i] = {Default[i]}]
              [] kind = "delete" /\ i \in Cluster -> [attached EXCEPT ![i] = {}]
              [] kind = "add" -> [attached EXCEPT ![i] = @ \cup {req[r].arg}]
              [] kind = "remove" -> [attached EXCEPT ![i] = @ \ {req[r].arg}]
              [] OTHER -> attached

\* check_workflow_status, for at most 300 s: a workflow that is slower counts as
\* failed and may still succeed (late).  Only update goes on after a failure.
Poll(r, ok) ==
    /\ task[r].pc = "poll"
    /\ ok => task[r].launched
    /\ IF ok THEN Effect(r) ELSE UNCHANGED <<repo, attached>>
    /\ \/ UNCHANGED <<late, faults>>
       \/ /\ ~ok /\ task[r].launched /\ Fault("timeout")
          /\ late' = late \cup {r}
    /\ Saves(r, AfterWorkflow(r, ok),
             IF ok THEN "check"
             ELSE IF Command(r) = "update" THEN "finish" ELSE "over")
    /\ UNCHANGED <<old, req, inbox, applied, overlap>>

LateEffect(r) ==
    /\ r \in late /\ Effect(r)
    /\ late' = late \ {r}
    /\ UNCHANGED <<items, old, req, inbox, task, applied, overlap, faults>>

\* cluster update, after a workflow that failed and the cleaning of its items.
Finish(r) ==
    /\ task[r].pc = "finish"
    /\ Saves(r, [task[r].doc EXCEPT !.operating = "IDLE",
                                    !.current = NoRequest], "over")
    /\ UNCHANGED <<old, req, inbox, extVars, applied, overlap, faults>>

-----------------------------------------------------------------------------
(* The resources                                                            *)

\* The commands with a check_resource_function; a KSU is checked in the
\* clusters that list its profile.
HasCheck(r) ==
    \/ /\ Item_(r) \in Cluster
       /\ Command(r) \in {"create", "register", "update", "delete"}
    \/ /\ Item_(r) \in Ksu /\ Command(r) \in {"create", "delete"}
       /\ \E p \in task[r].doc.links \cap Profile : Listing(p) # {}

\* common_check_list writes the copy it is given: of a cluster, the one made
\* for the workflow, older than what was written since.
CheckProgress(r) ==
    LET doc == [(IF Item_(r) \in Cluster THEN task[r].first ELSE task[r].doc)
                  EXCEPT !.resource = "IN_PROGRESS"]
    IN /\ task[r].pc = "check" /\ HasCheck(r) /\ There(Item_(r))
       /\ items' = [items EXCEPT ![Item_(r)] = doc]
       /\ UNCHANGED <<old, req, inbox, task, extVars, applied, overlap, faults>>

\* Mutant of AfterCheck: the result is the workflow's.
AfterCheckIgnored(r, ok) ==
    [ResourceEnds(task[r].doc, r, TRUE) EXCEPT
        !.resource = "READY", !.operating = "IDLE", !.current = NoRequest]
\* check_resource_and_update_db and its copies in ClusterLcm.
AfterCheck(r, ok) ==
    [ResourceEnds(task[r].doc, r, ok) EXCEPT
        !.resource = IF ok THEN "READY" ELSE "ERROR",
        !.operating = IF Command(r) = "deregister" THEN @ ELSE "IDLE",
        !.current = IF Command(r) = "deregister" THEN @ ELSE NoRequest,
        !.links = CASE Command(r) = "add" -> @ \cup {req[r].arg}
                    [] Command(r) = "remove" -> @ \ {req[r].arg}
                    [] Item_(r) \in Ksu /\ Command(r) = "edit" ->
                          (@ \ Oka) \cup {req[r].arg}
                    [] OTHER -> @]

CheckEnds(r, ok) ==
    /\ task[r].pc = "check" /\ Command(r) # "get_creds"
    /\ ~ok => HasCheck(r)
    /\ applied' = IF ok THEN applied \cup {r} ELSE applied

\* The end of create (not of a cluster), edit, add, remove and update.  A
\* profile that remove does not find in its copy is an error.
EndItem(r, ok) ==
    /\ CheckEnds(r, ok)
    /\ \/ Command(r) \in {"edit", "add", "remove", "update"}
       \/ Command(r) = "create" /\ Item_(r) \notin Cluster
    /\ IF Command(r) = "remove" /\ req[r].arg \notin task[r].doc.links
         THEN Ends(r) /\ UNCHANGED items
         ELSE Saves(r, AfterCheck(r, ok), "over")
    /\ UNCHANGED <<old, req, inbox, extVars, overlap, faults>>

\* update_profile_state: the last operation of the default profile ends too.
DefaultDoc(p, r, ok) ==
    LET doc == AfterCheck(r, ok)
    IN [ResourceEnds(items[p], r, ok) EXCEPT
          !.state = doc.state, !.resource = doc.resource,
          !.operating = doc.operating]

\* The end of create and register of a cluster, up to the entry in k8sclusters.
EndCluster(r, ok) ==
    LET c == Item_(r)
        P == IF Command(r) = "create" THEN task[r].doc.links ELSE {}
    IN /\ CheckEnds(r, ok)
       /\ c \in Cluster /\ Command(r) \in {"create", "register"}
       /\ items' = IF ~There(c) THEN items
                   ELSE [i \in Item |->
                           IF i = c THEN AfterCheck(r, ok)
                           ELSE IF i \in P /\ There(i) THEN DefaultDoc(i, r, ok)
                           ELSE items[i]]
       /\ IF There(c) /\ (\A p \in P : There(p)) /\ old[c] # "none"
            THEN task' = [task EXCEPT ![r].pc = "publish", ![r].ok = ok]
            ELSE Ends(r)
       /\ UNCHANGED <<old, req, inbox, extVars, overlap, faults>>

\* regist.create, or the credentials of a cluster that is not ready.
Publish(r, to) ==
    /\ task[r].pc = "publish"
    /\ to \in {"ENABLED", "ERROR"}
    /\ to = "ENABLED" => task[r].ok
    /\ old' = IF old[Item_(r)] = "none" THEN old
              ELSE [old EXCEPT ![Item_(r)] = to]
    /\ Ends(r)
    /\ UNCHANGED <<items, req, inbox, extVars, applied, overlap, faults>>

\* The first part of deregister.
EndDeregister(r, ok) ==
    /\ CheckEnds(r, ok) /\ Command(r) = "deregister"
    /\ IF There(Item_(r))
         THEN /\ items' = [items EXCEPT ![Item_(r)] = AfterCheck(r, ok)]
              /\ task' = [task EXCEPT ![r] = [NoTask EXCEPT
                                !.pc = "scheduled", !.second = TRUE]]
         ELSE Ends(r) /\ UNCHANGED items
    /\ UNCHANGED <<old, req, inbox, extVars, overlap, faults>>

\* delete of a profile, with its KSUs, or of an OKA.
EndDelete(r, ok) ==
    /\ CheckEnds(r, ok) /\ Command(r) = "delete"
    /\ Item_(r) \in Profile \cup Oka
    /\ LET K == KsusOf({Item_(r)} \cap Profile)
       IN items' = Gone(K \cup IF There(Item_(r)) THEN {Item_(r)} ELSE {})
    /\ Ends(r)
    /\ UNCHANGED <<old, req, inbox, extVars, overlap, faults>>

\* delete of a KSU: a check that fails leaves the record as the workflow left
\* it, unless the delete is forced.
EndDeleteKsu(r, ok) ==
    /\ CheckEnds(r, ok) /\ Command(r) = "delete" /\ Item_(r) \in Ksu
    /\ items' = IF There(Item_(r)) /\ (ok \/ req[r].force)
                  THEN Gone({Item_(r)}) ELSE items
    /\ Ends(r)
    /\ UNCHANGED <<old, req, inbox, extVars, overlap, faults>>

\* Mutant of ToRemove: the KSUs of the default profile are forgotten.
ToRemoveWithoutKsus(c, P) ==
    (P \cap {Default[c]}) \cup IF \A p \in P : There(p) THEN {c} ELSE {}
\* delete_cluster: the default profile comes first in the list P and is removed
\* with its KSUs; a listed profile that is gone is an error.
ToRemove(c, P) ==
    LET d == P \cap {Default[c]}
    IN IF \E p \in d : ~There(p) THEN {}
       ELSE d \cup KsusOf(d) \cup IF \A p \in P : There(p) THEN {c} ELSE {}

\* The profiles it takes out of the list one by one before it finds one gone.
Detachable(c, P) ==
    IF Default[c] \in P /\ ~There(Default[c]) THEN {}
    ELSE {p \in P \ {Default[c]} : There(p)}

\* delete of a cluster: forced after a check that failed, only the cluster goes;
\* else its state is DELETED, whatever the check said, and all of it goes.
EndDeleteCluster(r, ok) ==
    LET c == Item_(r)
        doc == AfterCheck(r, ok)
        I == IF req[r].force /\ ~ok THEN {c} ELSE ToRemove(c, doc.links)
    IN /\ CheckEnds(r, ok) /\ Command(r) = "delete" /\ c \in Cluster
       /\ \E S \in SUBSET Detachable(c, doc.links) :
             items' = IF ~There(c) THEN items
                      ELSE [Gone(I) EXCEPT
                              ![c] = IF c \in I THEN @
                                     ELSE [doc EXCEPT !.links = @ \ S]]
       /\ old' = IF There(c) /\ c \in I /\ (ok \/ ~req[r].force)
                   THEN [old EXCEPT ![c] = "none"] ELSE old
       /\ Ends(r)
       /\ UNCHANGED <<req, inbox, extVars, overlap, faults>>

\* get_creds: no state of the operation is ever set, only its result.
EndGetCreds(r) ==
    /\ task[r].pc = "check" /\ Command(r) = "get_creds"
    /\ Saves(r, [task[r].doc EXCEPT !.current = NoRequest], "over")
    /\ UNCHANGED <<old, req, inbox, extVars, applied, overlap, faults>>

\* LCM stops and starts again: the coroutines are lost, with their messages.
Crash ==
    LET lost == {r \in Request : TaskIsLive(r)}
    IN /\ lost # {} /\ Fault("crash")
       /\ task' = [r \in Request |->
                     IF r \in lost THEN [NoTask EXCEPT !.pc = "over"]
                                   ELSE task[r]]
       /\ UNCHANGED <<items, old, req, inbox, extVars, applied, overlap>>

LcmStep(r) ==
    \/ Start(r)
    \/ \E ok \in BOOLEAN :
          \/ Launch(r, ok) \/ Poll(r, ok) \/ EndItem(r, ok)
          \/ EndCluster(r, ok) \/ EndDeregister(r, ok) \/ EndDelete(r, ok)
          \/ EndDeleteKsu(r, ok) \/ EndDeleteCluster(r, ok)
    \/ Finish(r) \/ EndGetCreds(r)
    \/ \E to \in {"ENABLED", "ERROR"} : Publish(r, to)
=============================================================================
