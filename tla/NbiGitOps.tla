----------------------------- MODULE NbiGitOps -----------------------------
(***************************************************************************)
(* NBI's side of the GitOps objects: ClusterTopic, ClusterOpsTopic, the    *)
(* profile topics, OkaTopic and KsusTopic.  A request reads a record,      *)
(* checks it, writes the whole copy back with a new operation, and sends   *)
(* one message.  Nothing refuses a request while another one is in         *)
(* progress.  A request that is refused does not appear.                   *)
(*                                                                         *)
(* An OKA is created and its package uploaded in one step; of the requests *)
(* about several KSUs only creation is here.  Clients name profiles and    *)
(* OKAs that exist, which NBI does not check for a KSU.                    *)
(***************************************************************************)
EXTENDS GitOpsDb

\* Clients do not wait for each other; the bound on what they have open at a
\* time is the instance's.
MayOpen(r) ==
    /\ req[r].pc = "free" /\ \A q \in 1 .. r - 1 : req[q].pc # "free"
    /\ Cardinality({q \in Request : Open(q)}) < MaxOpen

Opens(r, new) ==
    /\ req' = [req EXCEPT ![r] = new]
    /\ overlap' = (overlap \/ \E q \in Request : Open(q))

NewRecord(i, kind) ==
    [NoRecord EXCEPT !.life = "there", !.state = "IN_CREATION",
                     !.operating = IF i \in Profile THEN "IN_PROGRESS"
                                                    ELSE "PROCESSING",
                     !.created = i \in Cluster /\ kind = "create",
                     !.links = IF i \in Cluster /\ kind = "create"
                                 THEN {Default[i]} ELSE {}]

IsDefault(p) == \E c \in Cluster : Default[c] = p

\* ClusterTopic.new, ClusterOpsTopic.add, ACMTopic.new_profile, OkaTopic.new
\* with upload_content.  A cluster that OSM creates gets its default profile.
NbiNew(r, i, kind) ==
    /\ kind \in {"create", "register"} \cap Kinds
    /\ items[i].life = "new" /\ i \notin Ksu /\ ~IsDefault(i)
    /\ kind = "register" => i \in Cluster
    /\ LET I == {i} \cup IF i \in Cluster /\ kind = "create"
                           THEN {Default[i]} ELSE {}
       IN items' = [j \in Item |->
                      IF j \in I THEN NewOperation(NewRecord(j, kind), r)
                                 ELSE items[j]]
    /\ Opens(r, [NoReq EXCEPT !.pc = "written", !.kind = kind, !.item = i])
    /\ UNCHANGED <<old, inbox, task, extVars, applied, faults>>

\* KsusTopic.new, update_usage_state: the OKA of the new KSUs is in use.
NbiMarkOka(r, k, with, p, a) ==
    /\ "create" \in Kinds
    /\ \A j \in {k} \cup with : items[j].life = "new"
    /\ There(p) /\ There(a)
    /\ k \notin with /\ Cardinality(with) < MaxBatch
    /\ items' = [items EXCEPT ![a].inUse = TRUE]
    /\ Opens(r, [NoReq EXCEPT !.pc = "read", !.kind = "create", !.item = k,
                               !.with = with, !.doc.links = {p, a}])
    /\ UNCHANGED <<old, inbox, task, extVars, applied, faults>>

\* KsusTopic.new, db.create: every KSU gets an operation with an id of its own,
\* and the message names only the last one.
NbiNewKsus(r) ==
    /\ req[r].pc = "read" /\ req[r].kind = "create"
    /\ items' = [j \in Item |->
                   IF j = req[r].item \/ j \in req[r].with
                     THEN LET new == [NewRecord(j, "create") EXCEPT
                                        !.links = req[r].doc.links]
                          IN IF j = req[r].item THEN NewOperation(new, r)
                                                ELSE new
                     ELSE items[j]]
    /\ req' = [req EXCEPT ![r].pc = "written", ![r].doc = NoRecord]
    /\ UNCHANGED <<old, inbox, task, extVars, applied, overlap, faults>>

\* What the handlers refuse: delete of a registered cluster, a default profile
\* or an OKA in use; attaching a profile that is not CREATED or already listed,
\* or to a registered cluster, which has no lists; detaching one that is not
\* listed, or a default one that exists (_get_default_profiles).
Accepted(kind, i, x) ==
    LET d == items[i]
    IN CASE kind = "delete" -> /\ x = NoItem
                               /\ i \in Cluster => d.created
                               /\ i \in Profile => ~IsDefault(i)
                               /\ i \in Oka => ~d.inUse
         [] kind = "add" -> /\ i \in Cluster /\ d.created
                            /\ x \in Profile /\ There(x)
                            /\ items[x].state = "CREATED" /\ x \notin d.links
         [] kind = "remove" -> /\ i \in Cluster /\ x \in d.links
                               /\ IsDefault(x) => ~There(x)
         [] kind \in {"deregister", "update", "get_creds"} ->
                i \in Cluster /\ x = NoItem
         [] kind = "edit" -> \/ i \in Oka /\ x = NoItem
                             \/ i \in Ksu /\ x \in Oka /\ There(x)
         [] kind = "clone" -> i \in Ksu /\ x = NoItem
         [] kind = "move" -> i \in Ksu /\ x \in Profile /\ There(x)
         [] OTHER -> FALSE

\* get_one of the request, and its checks; force changes nothing for profiles
\* and OKAs.  delete_profile first takes the
\* profile out of the list of every cluster (detach).
NbiRead(r, kind, i, x, force) ==
    /\ kind \in Kinds /\ There(i) /\ Accepted(kind, i, x)
    /\ force => kind = "delete" /\ i \in Cluster \cup Ksu
    /\ Opens(r, [NoReq EXCEPT !.pc = "read", !.kind = kind, !.item = i,
                               !.arg = x, !.force = force, !.doc = items[i]])
    /\ items' = IF kind = "delete" /\ i \in Profile
                  THEN [j \in Item |->
                          IF j \in Listing(i)
                            THEN [items[j] EXCEPT !.links = @ \ {i}]
                            ELSE items[j]]
                  ELSE items
    /\ UNCHANGED <<old, inbox, task, extVars, applied, faults>>

\* The copy that is written: remove_profile, get_cluster_creds,
\* ClusterOpsTopic.remove and clone only add the operation.
Marked(doc, r) ==
    LET kind == req[r].kind
        new == NewOperation(doc, r)
    IN CASE kind = "delete" ->
              [new EXCEPT !.state = "IN_DELETION", !.operating = "PROCESSING",
                 !.current = IF req[r].item \in Cluster \cup Profile
                               THEN NoRequest ELSE @,
                 !.resource = IF req[r].item \in Ksu THEN "IN_PROGRESS" ELSE @]
         [] kind = "add" -> [new EXCEPT !.operating = "PROCESSING"]
         [] kind \in {"update", "edit"} ->
              [new EXCEPT !.operating = "PROCESSING",
                          !.resource = "IN_PROGRESS"]
         [] kind = "move" ->
              [new EXCEPT !.operating = "PROCESSING",
                          !.resource = "IN_PROGRESS",
                          !.links = (@ \ Profile) \cup {req[r].arg}]
         [] OTHER -> new

\* set_one or replace; a record that is gone meanwhile is an error.
NbiWrite(r) ==
    /\ req[r].pc = "read" /\ req[r].kind # "create"
    /\ req[r].kind = "delete" => req[r].item \notin Ksu
    /\ IF There(req[r].item)
         THEN /\ items' = [items EXCEPT ![req[r].item] =
                             Marked(req[r].doc, r)]
              /\ req' = [req EXCEPT ![r].pc = "written", ![r].doc = NoRecord]
         ELSE /\ req' = [req EXCEPT ![r].pc = "done", ![r].doc = NoRecord]
              /\ UNCHANGED items
    /\ UNCHANGED <<old, inbox, task, extVars, applied, overlap, faults>>

\* Mutant of UnusedAfter: nobody looks for other users.
UsedByIt(k, doc) == doc.links \cap Oka
\* KsusTopic.delete: the OKAs that no other KSU record refers to.
UnusedAfter(k, doc) ==
    {a \in doc.links \cap Oka :
        \A j \in Ksu \ {k} : There(j) => a \notin items[j].links}

\* KsusTopic.delete.  A missing OKA is an error after the KSU was written; when
\* its profile is gone the KSU is removed without a message.
NbiDeleteKsu(r) ==
    LET k == req[r].item
        doc == req[r].doc
        unused == UnusedAfter(k, doc)
        done == /\ \A a \in unused : There(a)
                /\ \A p \in doc.links \cap Profile : There(p)
    IN /\ req[r].pc = "read" /\ req[r].kind = "delete" /\ k \in Ksu
       /\ req' = [req EXCEPT ![r].doc = NoRecord,
                    ![r].pc = IF There(k) /\ done THEN "written" ELSE "done"]
       /\ items' =
            IF ~There(k) THEN items
            ELSE [i \in Item |->
                    IF i = k
                      THEN IF /\ \A a \in unused : There(a)
                              /\ \E p \in doc.links \cap Profile : ~There(p)
                             THEN NoLonger(doc) ELSE Marked(doc, r)
                    ELSE IF i \in unused /\ \A a \in unused : There(a)
                      THEN [items[i] EXCEPT !.inUse = FALSE]
                    ELSE items[i]]
       /\ UNCHANGED <<old, inbox, task, extVars, applied, overlap, faults>>

\* _send_msg.  The entry in k8sclusters comes after the message.
NbiSend(r) ==
    /\ req[r].pc = "written"
    /\ inbox' = inbox \cup {r}
    /\ req' = [req EXCEPT ![r].pc =
                 IF /\ req[r].kind \in {"create", "register"}
                    /\ req[r].item \in Cluster THEN "old" ELSE "done"]
    /\ UNCHANGED <<items, old, task, extVars, applied, overlap, faults>>

\* The message cannot be sent: what new created is rolled back, what another
\* request wrote stays.
NbiSendFails(r) ==
    /\ req[r].pc = "written" /\ Fault("sendFail")
    /\ req' = [req EXCEPT ![r].pc = "done"]
    /\ items' = IF req[r].kind \notin {"create", "register"} THEN items
                ELSE Gone({req[r].item} \cup req[r].with
                          \cup IF req[r].item \in Cluster
                                 THEN items[req[r].item].links ELSE {})
    /\ UNCHANGED <<old, inbox, task, extVars, applied, overlap>>

\* add_to_old_collection.
NbiOld(r) ==
    /\ req[r].pc = "old"
    /\ old' = [old EXCEPT ![req[r].item] = "PROCESSING"]
    /\ req' = [req EXCEPT ![r].pc = "done"]
    /\ UNCHANGED <<items, inbox, task, extVars, applied, overlap, faults>>

NbiRequest(r) ==
    /\ MayOpen(r)
    /\ \/ \E i \in Item, kind \in Kinds : NbiNew(r, i, kind)
       \/ \E k \in Ksu, with \in SUBSET Ksu, p \in Profile, a \in Oka :
             NbiMarkOka(r, k, with, p, a)
       \/ \E kind \in Kinds, i \in Item, x \in Item \cup {NoItem},
             force \in BOOLEAN : NbiRead(r, kind, i, x, force)

NbiStep(r) == \/ NbiNewKsus(r) \/ NbiWrite(r) \/ NbiDeleteKsu(r)
              \/ NbiSend(r) \/ NbiOld(r)
=============================================================================
