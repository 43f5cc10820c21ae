------------------------------ MODULE GitOpsDb ------------------------------
(***************************************************************************)
(* The records of the GitOps objects (clusters, profiles, KSUs, OKAs), the *)
(* requests about them and the state that NBI, the bus, the coroutines of  *)
(* LCM and the git repository share.                                       *)
(*                                                                         *)
(* The four collections and lists of profiles are one here.  A record is   *)
(* written whole: set_one and replace store a copy read earlier, whatever  *)
(* was written in between.  A profile in the list of a cluster twice is    *)
(* listed once here.                                                       *)
(***************************************************************************)
EXTENDS Naturals, FiniteSets

CONSTANTS
    Cluster, Profile, Ksu, Oka,   \* ids of the records
    Default,       \* Default[c]: the profile NBI creates along with cluster c
    NoItem,
    MaxRequest,    \* bound on requests, numbered in the order they come
    Kinds,         \* the kinds of request that clients make
    MaxOpen,       \* bound on requests being handled at a time
    MaxBatch,      \* bound on the KSUs of one request
    FaultKinds,    \* faults that may happen, each at most once
    MaxFaults      \* bound on the faults of one behaviour

Request == 1 .. MaxRequest
NoRequest == 0
Item == Cluster \cup Profile \cup Ksu \cup Oka

ASSUME GitOpsAssumption ==
    /\ Cluster \cap (Profile \cup Ksu \cup Oka) = {}
    /\ Profile \cap (Ksu \cup Oka) = {} /\ Ksu \cap Oka = {}
    /\ Default \in [Cluster -> Profile]
    /\ \A c, d \in Cluster : Default[c] = Default[d] => c = d
    /\ NoItem \notin Item
    /\ {MaxRequest, MaxOpen, MaxBatch, MaxFaults} \subseteq Nat
    /\ FaultKinds \subseteq {"sendFail", "timeout", "crash"}

VARIABLES
    items,     \* the records
    old,       \* the entry of a cluster in the collection k8sclusters
    req,       \* the requests at NBI
    inbox,     \* requests whose message waits at the bus
    task,      \* task[r]: the coroutine of r at LCM
    repo,      \* the objects in the git repository (external)
    attached,  \* attached[c]: the profiles the repository gives c (external)
    late,      \* workflows given up by LCM that may still succeed (external)
    applied,   \* history: requests whose workflow and check succeeded
    overlap,   \* history: were two requests ever handled at a time
    faults     \* the faults so far: NBI cannot send a message, a workflow is
               \* slower than LCM polls, LCM crashes

extVars == <<repo, attached, late>>
vars == <<items, old, req, inbox, task, extVars, applied, overlap, faults>>

-----------------------------------------------------------------------------
(* Records                                                                  *)

\* operationState of an entry of operationHistory; "absent": no such entry.
OpStates == {"absent", "None", "IN_PROGRESS", "COMPLETED", "FAILED"}

\* life: not created yet, in the database, removed; links: the profiles of a
\* cluster, the profile and the OKAs of a KSU; inUse: usageState of an OKA;
\* created: whether OSM created the cluster ("created": "true").
ItemRec ==
    [life : {"new", "there", "gone"},
     state : {"PENDING", "IN_CREATION", "CREATED", "FAILED_CREATION",
              "IN_DELETION", "DELETED", "FAILED_DELETION"},
     operating : {"IN_PROGRESS", "PROCESSING", "IDLE"},
     resource : {"IN_PROGRESS", "READY", "ERROR"},
     current : Request \cup {NoRequest},
     hist : [Request -> OpStates],
     links : SUBSET Item, inUse : BOOLEAN, created : BOOLEAN]

NoRecord ==
    [life |-> "new", state |-> "PENDING", operating |-> "PROCESSING",
     resource |-> "IN_PROGRESS", current |-> NoRequest,
     hist |-> [r \in Request |-> "absent"], links |-> {}, inUse |-> FALSE,
     created |-> FALSE]

There(i) == items[i].life = "there"

\* The clusters that list profile p (get_dbclusters_from_profile, detach).
Listing(p) == {c \in Cluster : There(c) /\ p \in items[c].links}

\* delete_profile_ksu: the records of the KSUs of the profiles P go with them.
KsusOf(P) == {k \in Ksu : There(k) /\ items[k].links \cap P # {}}

\* del_one, del_list: of a record that is gone nothing is left.
NoLonger(doc) == [NoRecord EXCEPT !.life = "gone", !.created = doc.created]
Gone(I) ==
    [i \in Item |-> IF i \in I THEN NoLonger(items[i]) ELSE items[i]]

\* format_on_operation: a new entry of operationHistory.
NewOperation(doc, r) == [doc EXCEPT !.hist[r] = "None"]

\* Mutant of WorkflowEnds: the state of the workflow goes into operationState.
WorkflowEndsInError(doc, r, ok) ==
    IF ok THEN doc ELSE [doc EXCEPT !.hist[r] = "ERROR"]
\* Mutant of WorkflowEnds: a workflow that fails does not end the operation.
WorkflowGoesOn(doc, r, ok) == doc
\* update_operation_history, with workflow_status and resource_status.
WorkflowEnds(doc, r, ok) ==
    IF doc.hist[r] = "absent" \/ ok THEN doc
    ELSE [doc EXCEPT !.hist[r] = "FAILED"]
ResourceEnds(doc, r, ok) ==
    IF doc.hist[r] = "absent" THEN doc
    ELSE [doc EXCEPT !.hist[r] = IF ok THEN "COMPLETED" ELSE "FAILED"]

-----------------------------------------------------------------------------
(* Requests and coroutines                                                  *)

\* kind: the command of the message; item: the record whose operation the
\* message names; with: the other KSUs of the request; arg: the profile to
\* attach or detach; doc: the copy of the record NBI works on.
RequestRec ==
    [pc : {"free", "read", "written", "old", "done"},
     kind : Kinds \cup {"none"}, item : Item \cup {NoItem},
     with : SUBSET Ksu, arg : Item \cup {NoItem}, force : BOOLEAN,
     doc : ItemRec]

NoReq == [pc |-> "free", kind |-> "none", item |-> NoItem, with |-> {},
          arg |-> NoItem, force |-> FALSE, doc |-> NoRecord]

\* doc: the copy LCM read after initialize_operation; first: the decrypted
\* copy made then for the workflow; launched: launch_workflow succeeded; ok:
\* resource_status; second: deregister is in its call of delete.
TaskRec ==
    [pc : {"none", "scheduled", "launch", "poll", "check", "finish", "publish",
           "over"},
     doc : ItemRec, first : ItemRec, launched : BOOLEAN, ok : BOOLEAN,
     second : BOOLEAN]

NoTask == [pc |-> "none", doc |-> NoRecord, first |-> NoRecord,
           launched |-> FALSE, ok |-> FALSE, second |-> FALSE]

TypeOK ==
    /\ items \in [Item -> ItemRec]
    /\ old \in [Cluster -> {"none", "PROCESSING", "ENABLED", "ERROR"}]
    /\ req \in [Request -> RequestRec]
    /\ inbox \subseteq Request
    /\ task \in [Request -> TaskRec]
    /\ repo \subseteq Item
    /\ attached \in [Cluster -> SUBSET Profile]
    /\ late \subseteq Request
    /\ applied \subseteq Request
    /\ overlap \in BOOLEAN
    /\ faults \subseteq FaultKinds

Fault(f) ==
    /\ f \in FaultKinds \ faults /\ Cardinality(faults) < MaxFaults
    /\ faults' = faults \cup {f}

TaskIsLive(r) == task[r].pc \notin {"none", "over"}

\* A request is open from NBI's first call to the end of its coroutine.
Open(r) == \/ req[r].pc \in {"read", "written", "old"}
           \/ r \in inbox \/ TaskIsLive(r)

Quiet == \A r \in Request : ~Open(r)

\* What NBI and LCM find: nothing, or the records that earlier requests created
\* with success, with or without KSUs.  L[k]: the profile and the OKA of KSU k.
Settled(i, L) ==
    [NoRecord EXCEPT !.life = "there", !.state = "CREATED",
                     !.operating = "IDLE", !.resource = "READY",
                     !.created = i \in Cluster,
                     !.inUse = \E k \in DOMAIN L : L[k][2] = i,
                     !.links = IF i \in Cluster THEN {Default[i]}
                               ELSE IF i \in DOMAIN L THEN {L[i][1], L[i][2]}
                               ELSE {}]

Init ==
    /\ \E I \in {{}, Item \ Ksu, Item} :
       \E L \in [Ksu \cap I -> (Profile \cap I) \X (Oka \cap I)] :
          /\ items = [i \in Item |-> IF i \in I THEN Settled(i, L)
                                               ELSE NoRecord]
          /\ old = [c \in Cluster |-> IF c \in I THEN "ENABLED" ELSE "none"]
          /\ repo = I
          /\ attached = [c \in Cluster |->
                            IF c \in I THEN {Default[c]} ELSE {}]
    /\ req = [r \in Request |-> NoReq]
    /\ inbox = {} /\ late = {} /\ applied = {} /\ overlap = FALSE
    /\ task = [r \in Request |-> NoTask]
    /\ faults = {}
=============================================================================
