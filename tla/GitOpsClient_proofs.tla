------------------------ MODULE GitOpsClient_proofs ------------------------
(***************************************************************************)
(* What GitOps promises a careful client: one who waits for the end of a   *)
(* request before the next one, while no workflow is too slow and LCM does *)
(* not crash.  The theorems hold for every set of records and every bound. *)
(*                                                                         *)
(* One request is open at a time, so that every step belongs to it, and    *)
(* the copies NBI and LCM hold are of the record as it is.                 *)
(***************************************************************************)
EXTENDS GitOps_proofs

-----------------------------------------------------------------------------
(* Copies of a record, field by field                                       *)

\* What a copy has to agree on with its record.
SameShape(e, d) ==
    /\ e.life = d.life /\ e.links = d.links
    /\ e.created = d.created /\ e.inUse = d.inUse

\* Nothing but the entry of one operation differs.
HistoryOnly(e, d, r) ==
    /\ e \in ItemRec /\ SameShape(e, d)
    /\ e.state = d.state /\ e.operating = d.operating
    /\ e.resource = d.resource /\ e.current = d.current
    /\ \A q \in Request \ {r} : e.hist[q] = d.hist[q]

\* update_operation_history touches the history alone.
LEMMA HistoryFields ==
    ASSUME NEW d \in ItemRec, NEW r \in Request, NEW ok \in BOOLEAN
    PROVE  /\ HistoryOnly(WorkflowEnds(d, r, ok), d, r)
           /\ HistoryOnly(ResourceEnds(d, r, ok), d, r)
           /\ HistoryOnly(NewOperation(d, r), d, r)
           /\ NewOperation(d, r).hist[r] = "None"
           /\ d.hist[r] # "absent" =>
                /\ WorkflowEnds(d, r, ok).hist[r] =
                       IF ok THEN d.hist[r] ELSE "FAILED"
                /\ ResourceEnds(d, r, ok).hist[r] =
                       IF ok THEN "COMPLETED" ELSE "FAILED"
<1> DEFINE set(s) == [d EXCEPT !.hist[r] = s]
<1>1. ASSUME NEW s \in OpStates
      PROVE  HistoryOnly(set(s), d, r) /\ set(s).hist[r] = s
  <2> DEFINE h == [d.hist EXCEPT ![r] = s]
             e == [d EXCEPT !.hist = h]
  <2>1. /\ h \in [Request -> OpStates] /\ h[r] = s
        /\ \A q \in Request \ {r} : h[q] = d.hist[q]
    BY DEF ItemRec
  <2>2. set(s) = e
    OBVIOUS
  <2> HIDE DEF h
  <2>3. /\ e \in ItemRec /\ SameShape(e, d) /\ e.hist = h
        /\ e.state = d.state /\ e.operating = d.operating
        /\ e.resource = d.resource /\ e.current = d.current
    BY <2>1 DEF ItemRec, SameShape
  <2> HIDE DEF e, set
  <2> QED
    BY <2>1, <2>2, <2>3 DEF HistoryOnly
<1>2. HistoryOnly(d, d, r)
  BY DEF HistoryOnly, SameShape
<1>3. /\ HistoryOnly(set("None"), d, r) /\ set("None").hist[r] = "None"
      /\ HistoryOnly(set("COMPLETED"), d, r)
      /\ set("COMPLETED").hist[r] = "COMPLETED"
      /\ HistoryOnly(set("FAILED"), d, r) /\ set("FAILED").hist[r] = "FAILED"
  <2>1. "None" \in OpStates /\ "COMPLETED" \in OpStates /\ "FAILED" \in OpStates
    BY DEF OpStates
  <2> HIDE DEF set
  <2> QED
    BY <1>1, <2>1
<1>4. NewOperation(d, r) = set("None")
  BY DEF NewOperation
<1>5. WorkflowEnds(d, r, ok) = IF d.hist[r] = "absent" \/ ok THEN d
                               ELSE set("FAILED")
  BY DEF WorkflowEnds
<1>6. ResourceEnds(d, r, ok) =
        IF d.hist[r] = "absent" THEN d
        ELSE IF ok THEN set("COMPLETED") ELSE set("FAILED")
  BY DEF ResourceEnds
<1> HIDE DEF set
<1> QED
  BY <1>2, <1>3, <1>4, <1>5, <1>6

\* The copy after a workflow.
LEMMA WorkflowFields ==
    ASSUME NEW r \in Request, NEW ok \in BOOLEAN, task[r].doc \in ItemRec
    PROVE  LET d == task[r].doc
               e == AfterWorkflow(r, ok)
           IN /\ e \in ItemRec /\ SameShape(e, d) /\ e.operating = d.operating
              /\ \A q \in Request \ {r} : e.hist[q] = d.hist[q]
              /\ d.hist[r] # "absent" =>
                    e.hist[r] = IF ok THEN d.hist[r] ELSE "FAILED"
              /\ Command(r) \in {"create", "register"} =>
                    e.state = IF ok THEN "CREATED" ELSE "FAILED_CREATION"
              /\ Command(r) = "delete" =>
                    e.state = IF ok THEN "DELETED" ELSE "FAILED_DELETION"
              /\ Command(r) = "deregister" =>
                    e.state = IF ok THEN d.state ELSE "FAILED_DELETION"
              /\ Command(r) \notin {"create", "register", "delete",
                                    "deregister"} =>
                    e.state = d.state
<1> DEFINE d == task[r].doc
           w == WorkflowEnds(d, r, ok)
           state == CASE Command(r) \in {"create", "register"} ->
                            IF ok THEN "CREATED" ELSE "FAILED_CREATION"
                      [] Command(r) = "delete" ->
                            IF ok THEN "DELETED" ELSE "FAILED_DELETION"
                      [] Command(r) = "deregister" /\ ~ok -> "FAILED_DELETION"
                      [] OTHER -> w.state
           resource == IF ok THEN "IN_PROGRESS" ELSE "ERROR"
           e == [w EXCEPT !.resource = resource, !.state = state]
<1>1. /\ w \in ItemRec /\ SameShape(w, d) /\ w.operating = d.operating
      /\ w.state = d.state
      /\ \A q \in Request \ {r} : w.hist[q] = d.hist[q]
      /\ d.hist[r] # "absent" => w.hist[r] = IF ok THEN d.hist[r] ELSE "FAILED"
  <2> HIDE DEF d
  <2>1. /\ HistoryOnly(w, d, r)
        /\ d.hist[r] # "absent" =>
              w.hist[r] = IF ok THEN d.hist[r] ELSE "FAILED"
    BY HistoryFields DEF d
  <2> HIDE DEF w
  <2> QED
    BY <2>1 DEF HistoryOnly
<1>2. AfterWorkflow(r, ok) = e
  BY <1>1 DEF AfterWorkflow, ItemRec
<1> HIDE DEF w
<1>3. /\ state \in {"PENDING", "IN_CREATION", "CREATED", "FAILED_CREATION",
                    "IN_DELETION", "DELETED", "FAILED_DELETION"}
      /\ resource \in {"IN_PROGRESS", "READY", "ERROR"}
  BY <1>1 DEF ItemRec
<1>4. /\ Command(r) \in {"create", "register"} =>
            state = IF ok THEN "CREATED" ELSE "FAILED_CREATION"
      /\ Command(r) = "delete" =>
            state = IF ok THEN "DELETED" ELSE "FAILED_DELETION"
      /\ Command(r) = "deregister" =>
            state = IF ok THEN d.state ELSE "FAILED_DELETION"
      /\ Command(r) \notin {"create", "register", "delete", "deregister"} =>
            state = d.state
  BY <1>1
<1> HIDE DEF state, resource, d
<1>5. /\ e \in ItemRec /\ e.hist = w.hist /\ e.state = state
      /\ SameShape(e, w) /\ e.operating = w.operating
  <2>1. w \in ItemRec
    BY <1>1
  <2>2. e \in ItemRec
    <3> DEFINE f == [w EXCEPT !.resource = resource]
    <3>1. f \in ItemRec
      BY <2>1, <1>3 DEF ItemRec
    <3>2. e = [f EXCEPT !.state = state]
      BY <2>1 DEF ItemRec
    <3> HIDE DEF f, e
    <3>3. state \in {"PENDING", "IN_CREATION", "CREATED", "FAILED_CREATION",
                    "IN_DELETION", "DELETED", "FAILED_DELETION"}
      BY <1>3
    <3> QED
      BY <3>1, <3>2, <3>3 DEF ItemRec
  <2>3. /\ e.hist = w.hist /\ e.state = state /\ e.operating = w.operating
        /\ e.life = w.life /\ e.links = w.links /\ e.created = w.created
        /\ e.inUse = w.inUse
    BY <2>1 DEF ItemRec
  <2> QED
    BY <2>2, <2>3 DEF SameShape
<1>6. SameShape(e, d)
  BY <1>1, <1>5 DEF SameShape
<1> HIDE DEF e
<1> QED
  BY <1>1, <1>2, <1>4, <1>5, <1>6 DEF d

\* The copy after the check of the resources.
LEMMA CheckFields ==
    ASSUME Named, NEW r \in Request, req[r].item \in Item,
           NEW ok \in BOOLEAN, task[r].doc \in ItemRec
    PROVE  LET d == task[r].doc
               e == AfterCheck(r, ok)
           IN /\ e \in ItemRec
              /\ e.life = d.life /\ e.created = d.created /\ e.inUse = d.inUse
              /\ e.state = d.state
              /\ e.resource = IF ok THEN "READY" ELSE "ERROR"
              /\ \A q \in Request \ {r} : e.hist[q] = d.hist[q]
              /\ d.hist[r] # "absent" => e.hist[r] \in {"COMPLETED", "FAILED"}
              /\ Command(r) = "add" => e.links = d.links \cup {req[r].arg}
              /\ Command(r) = "remove" => e.links = d.links \ {req[r].arg}
              /\ Command(r) = "edit" /\ req[r].item \in Ksu =>
                    e.links = (d.links \ Oka) \cup {req[r].arg}
              /\ Command(r) \notin {"add", "remove"}
                 /\ ~(Command(r) = "edit" /\ req[r].item \in Ksu) =>
                    e.links = d.links
<1> DEFINE d == task[r].doc
           w == ResourceEnds(d, r, ok)
           links == CASE Command(r) = "add" -> w.links \cup {req[r].arg}
                      [] Command(r) = "remove" -> w.links \ {req[r].arg}
                      [] Item_(r) \in Ksu /\ Command(r) = "edit" ->
                            (w.links \ Oka) \cup {req[r].arg}
                      [] OTHER -> w.links
           operating == IF Command(r) = "deregister" THEN w.operating ELSE "IDLE"
           current == IF Command(r) = "deregister" THEN w.current ELSE NoRequest
           resource == IF ok THEN "READY" ELSE "ERROR"
           e == [w EXCEPT !.resource = resource, !.operating = operating,
                          !.current = current, !.links = links]
<1>1. /\ w \in ItemRec /\ SameShape(w, d) /\ w.state = d.state
      /\ \A q \in Request \ {r} : w.hist[q] = d.hist[q]
      /\ d.hist[r] # "absent" =>
            w.hist[r] = IF ok THEN "COMPLETED" ELSE "FAILED"
  <2> HIDE DEF d
  <2>1. /\ HistoryOnly(w, d, r)
        /\ d.hist[r] # "absent" =>
              w.hist[r] = IF ok THEN "COMPLETED" ELSE "FAILED"
    BY HistoryFields DEF d
  <2> HIDE DEF w
  <2> QED
    BY <2>1 DEF HistoryOnly
<1>2. AfterCheck(r, ok) = e
  BY <1>1 DEF AfterCheck, ItemRec
<1>3. AfterCheck(r, ok) \in ItemRec
  <2>1. Honest(task[r].doc, Request)
    BY DEF Honest
  <2> QED
    BY <2>1, AfterCheckHonest DEF Honest
<1>4. /\ Command(r) = "add" => links = d.links \cup {req[r].arg}
      /\ Command(r) = "remove" => links = d.links \ {req[r].arg}
      /\ Command(r) = "edit" /\ req[r].item \in Ksu =>
            links = (d.links \ Oka) \cup {req[r].arg}
      /\ Command(r) \notin {"add", "remove"}
         /\ ~(Command(r) = "edit" /\ req[r].item \in Ksu) => links = d.links
  <2> HIDE DEF w, d
  <2> QED
    BY <1>1 DEF SameShape, Item_
<1> HIDE DEF w, links, operating, current, d
<1>5. /\ e.life = w.life /\ e.created = w.created /\ e.inUse = w.inUse
      /\ e.state = w.state /\ e.resource = resource /\ e.hist = w.hist
      /\ e.links = links
  <2>1. w \in ItemRec
    BY <1>1
  <2> QED
    BY <2>1 DEF ItemRec
<1>6. e.life = d.life /\ e.created = d.created /\ e.inUse = d.inUse
  BY <1>1, <1>5 DEF SameShape
<1> HIDE DEF e
<1> QED
  BY <1>1, <1>2, <1>3, <1>4, <1>5, <1>6 DEF d

\* The copy NBI writes.
LEMMA MarkedFields ==
    ASSUME Named, NEW r \in Request, NEW d \in ItemRec
    PROVE  LET e == Marked(d, r)
           IN /\ e \in ItemRec
              /\ e.life = d.life /\ e.created = d.created /\ e.inUse = d.inUse
              /\ e.state = IF req[r].kind = "delete" THEN "IN_DELETION"
                           ELSE d.state
              /\ e.hist[r] = "None"
              /\ \A q \in Request \ {r} : e.hist[q] = d.hist[q]
              /\ req[r].kind \in {"delete", "add", "update", "edit", "move"} =>
                    e.operating = "PROCESSING"
              /\ e.links = IF req[r].kind = "move"
                             THEN (d.links \ Profile) \cup {req[r].arg}
                           ELSE d.links
<1> DEFINE w == NewOperation(d, r)
           e == Marked(d, r)
<1>1. /\ w \in ItemRec /\ SameShape(w, d) /\ w.state = d.state
      /\ \A q \in Request \ {r} : w.hist[q] = d.hist[q]
      /\ w.hist[r] = "None"
  <2>1. HistoryOnly(w, d, r) /\ w.hist[r] = "None"
    BY HistoryFields
  <2> HIDE DEF w
  <2> QED
    BY <2>1 DEF HistoryOnly
<1>2. e \in ItemRec
  <2>1. Honest(d, Request)
    BY DEF Honest
  <2> QED
    BY <2>1, MarkedHonest DEF Honest
<1>3. /\ e.life = w.life /\ e.created = w.created /\ e.inUse = w.inUse
      /\ e.state = IF req[r].kind = "delete" THEN "IN_DELETION" ELSE w.state
      /\ e.hist = w.hist
      /\ req[r].kind \in {"delete", "add", "update", "edit", "move"} =>
            e.operating = "PROCESSING"
      /\ e.links = IF req[r].kind = "move"
                     THEN (w.links \ Profile) \cup {req[r].arg} ELSE w.links
  <2>1. e = CASE req[r].kind = "delete" ->
                   [w EXCEPT !.state = "IN_DELETION", !.operating = "PROCESSING",
                      !.current = IF req[r].item \in Cluster \cup Profile
                                    THEN NoRequest ELSE @,
                      !.resource = IF req[r].item \in Ksu THEN "IN_PROGRESS"
                                   ELSE @]
              [] req[r].kind = "add" -> [w EXCEPT !.operating = "PROCESSING"]
              [] req[r].kind \in {"update", "edit"} ->
                   [w EXCEPT !.operating = "PROCESSING",
                             !.resource = "IN_PROGRESS"]
              [] req[r].kind = "move" ->
                   [w EXCEPT !.operating = "PROCESSING",
                             !.resource = "IN_PROGRESS",
                             !.links = (@ \ Profile) \cup {req[r].arg}]
              [] OTHER -> w
    BY DEF Marked
  <2> HIDE DEF w, e
  <2>2. w \in ItemRec
    BY <1>1
  <2>3. CASE req[r].kind = "delete"
    BY <2>1, <2>2, <2>3 DEF ItemRec
  <2>4. CASE req[r].kind = "add"
    BY <2>1, <2>2, <2>4 DEF ItemRec
  <2>5. CASE req[r].kind \in {"update", "edit"}
    BY <2>1, <2>2, <2>5 DEF ItemRec
  <2>6. CASE req[r].kind = "move"
    BY <2>1, <2>2, <2>6 DEF ItemRec
  <2>7. CASE req[r].kind \notin {"delete", "add", "update", "edit", "move"}
    BY <2>1, <2>2, <2>7 DEF ItemRec
  <2> QED
    BY <2>3, <2>4, <2>5, <2>6, <2>7
<1> HIDE DEF w, e
<1> QED
  BY <1>1, <1>2, <1>3 DEF SameShape, e

\* initialize_operation.
LEMMA InitialisedFields ==
    ASSUME NEW d \in ItemRec, NEW r \in Request
    PROVE  LET e == Initialised(d, r)
           IN /\ e \in ItemRec /\ SameShape(e, d)
              /\ e.state = d.state /\ e.operating = d.operating
              /\ e.hist[r] = "IN_PROGRESS"
              /\ \A q \in Request \ {r} : e.hist[q] = d.hist[q]
<1> DEFINE h == [d.hist EXCEPT ![r] = "IN_PROGRESS"]
           e == [d EXCEPT !.hist = h, !.current = r]
<1>1. /\ h \in [Request -> OpStates] /\ h[r] = "IN_PROGRESS"
      /\ \A q \in Request \ {r} : h[q] = d.hist[q]
  BY DEF ItemRec, OpStates
<1>2. Initialised(d, r) = e
  BY DEF Initialised
<1> HIDE DEF h
<1>3. e \in ItemRec /\ SameShape(e, d) /\ e.hist = h
  BY <1>1 DEF ItemRec, SameShape
<1>4. e.state = d.state /\ e.operating = d.operating
  BY DEF ItemRec
<1> HIDE DEF e
<1> QED
  BY <1>1, <1>2, <1>3, <1>4

\* The record of a default profile keeps its shape as its cluster is ready.
LEMMA DefaultFields ==
    ASSUME NEW r \in Request, NEW ok \in BOOLEAN, NEW p, items[p] \in ItemRec
    PROVE  LET e == DefaultDoc(p, r, ok)
           IN /\ SameShape(e, items[p])
              /\ \A q \in Request \ {r} : e.hist[q] = items[p].hist[q]
<1> DEFINE w == ResourceEnds(items[p], r, ok)
           doc == AfterCheck(r, ok)
           e == DefaultDoc(p, r, ok)
<1>1. /\ w \in ItemRec /\ SameShape(w, items[p])
      /\ \A q \in Request \ {r} : w.hist[q] = items[p].hist[q]
  <2>1. HistoryOnly(w, items[p], r)
    BY HistoryFields
  <2> HIDE DEF w
  <2> QED
    BY <2>1 DEF HistoryOnly
<1>2. e = [w EXCEPT !.state = doc.state, !.resource = doc.resource,
                    !.operating = doc.operating]
  BY DEF DefaultDoc
<1> HIDE DEF w, doc, e
<1>3. SameShape(e, w) /\ e.hist = w.hist
  BY <1>1, <1>2 DEF ItemRec, SameShape
<1> QED
  BY <1>1, <1>3 DEF SameShape, e

-----------------------------------------------------------------------------
(* The invariant                                                            *)

\* The record is marked, and LCM has not begun.
Asked(r) ==
    req[r].pc = "written" \/ r \in inbox \/ task[r].pc = "scheduled"
Working(r) == task[r].pc \in {"launch", "poll", "check", "finish"}

\* A request goes from NBI to the bus to one coroutine.
OnPath(r) ==
    /\ req[r].pc = "free" => req[r] = NoReq
    /\ req[r].pc \in {"free", "read", "written"} =>
         r \notin inbox /\ task[r].pc = "none"
    /\ r \in inbox => task[r].pc = "none"
    /\ task[r].second => req[r].kind = "deregister"

\* What the handlers accept.
Suits(r) ==
    LET q == req[r]
    IN q.pc # "free" =>
         /\ q.item \in Item /\ q.item \notin q.with
         /\ q.with # {} => q.kind = "create" /\ q.item \in Ksu
         /\ q.kind \in {"create", "delete"} => ~IsDefault(q.item)
         /\ q.kind \in {"register", "deregister", "update", "get_creds", "add",
                        "remove"} => q.item \in Cluster
         /\ q.kind \in {"add", "remove"} => q.arg \in Profile
         /\ q.kind \in {"clone", "move"} => q.item \in Ksu
         /\ q.kind = "edit" => q.item \in Ksu \cup Oka
         /\ q.pc = "read" /\ q.kind = "create" => q.item \in Ksu
         /\ q.pc = "read" => q.kind # "register"
         /\ q.pc = "old" =>
              q.item \in Cluster /\ q.kind \in {"create", "register"}

Alone == \A q, r \in Request : Open(q) /\ Open(r) => q = r
InTurn ==
    \A q, r \in Request : q < r /\ req[r].pc # "free" => req[q].pc # "free"
InOrder == Alone /\ InTurn /\ \A r \in Request : OnPath(r) /\ Suits(r)

NewIsEmpty == \A i \in Item : items[i].life = "new" => items[i] = NoRecord

\* Lists hold profiles and OKAs, and the profile of a KSU exists.
Linked ==
    /\ \A i \in Item : ~There(i) => items[i].links = {} /\ ~items[i].inUse
    /\ \A c \in Cluster : items[c].links \subseteq Profile
    /\ \A k \in Ksu : items[k].links \subseteq Profile \cup Oka
    /\ \A k \in Ksu : \A p \in items[k].links \cap Profile : There(p)

\* What is in a list has been created.
Listed ==
    \A e \in Item : \A j \in items[e].links : j \in Item /\ items[j].life # "new"

\* The profiles of a cluster exist, and none is another one's default.
ListsExist ==
    OwnDefaults =>
        \A c \in Cluster : \A p \in items[c].links :
            There(p) /\ (IsDefault(p) => p = Default[c])

\* A cluster that OSM created lists its default profile as long as that exists.
DefaultsListed ==
    \A c \in Cluster :
        /\ There(c) /\ There(Default[c]) => Default[c] \in items[c].links
        /\ ~items[c].created => items[Default[c]].life = "new"

\* No cluster is removed by force.
NoForce == \A r \in Request : req[r].item \in Cluster => ~req[r].force

\* What is not created yet, or removed, leaves no trace elsewhere.
Emptied ==
    \A c \in Cluster :
        /\ items[c].life = "new" => old[c] = "none"
        /\ NoForce /\ items[c].life = "gone" =>
             old[c] = "none" /\ ~There(Default[c])

RecordsFit ==
    NewIsEmpty /\ Linked /\ Listed /\ ListsExist /\ DefaultsListed /\ Emptied

\* NBI's copy is the record, and what new KSUs refer to exists.
Reading(r) ==
    /\ req[r].pc = "read" /\ req[r].kind # "create" =>
         There(req[r].item) /\ req[r].doc = items[req[r].item]
    /\ req[r].pc = "read" /\ req[r].kind = "create" =>
         /\ \A j \in {req[r].item} \cup req[r].with : items[j].life = "new"
         /\ req[r].doc.links \subseteq Profile \cup Oka
         /\ \A j \in req[r].doc.links : There(j)

\* Nothing refers yet to what a request has just created.
Fresh(r) ==
    LET i == req[r].item
    IN req[r].pc = "written" /\ req[r].kind \in {"create", "register"} =>
         /\ ~items[i].inUse
         /\ \A e \in Item : i \notin items[e].links
         /\ \A p \in items[i].links : There(p)
         /\ i \in Cluster =>
              /\ old[i] = "none"
              /\ items[i].links \subseteq {Default[i]}
              /\ \A e \in Item \ {i} : Default[i] \notin items[e].links

\* The arguments of a request stay what they were as NBI checked them.
Argued(r) ==
    LET q == req[r]
        d == items[q.item]
    IN Open(r) =>
         /\ q.kind = "add" => There(q.arg)
         /\ q.kind = "edit" /\ q.item \in Ksu => There(q.arg)
         /\ q.kind = "move" /\ q.pc = "read" => There(q.arg)
         /\ q.kind = "remove" =>
              q.arg \in d.links /\ (IsDefault(q.arg) => ~There(q.arg))
         /\ q.kind = "delete" /\ q.item \in Profile => Listing(q.item) = {}
         /\ q.kind = "delete" /\ q.item \in Oka => ~d.inUse
         /\ q.kind = "create" /\ q.item \in Ksu /\ Asked(r) =>
              \A j \in d.links : There(j)

\* The record a request is about exists and has its operation.
Present(r) ==
    LET d == items[req[r].item]
    IN /\ req[r].pc = "old" \/ Asked(r) \/ Working(r)
          \/ task[r].pc = "publish" => d.life = "there"
       /\ Asked(r) => d.hist[r] # "absent"

\* The copies of a coroutine agree with the record.
Holding(r) ==
    LET d == items[req[r].item]
    IN Working(r) =>
         /\ req[r].with = {}
         /\ SameShape(task[r].doc, d) /\ task[r].doc.hist[r] # "absent"
         /\ req[r].item \in Cluster => SameShape(task[r].first, d)

StageFits(r) ==
    Reading(r) /\ Fresh(r) /\ Argued(r) /\ Present(r) /\ Holding(r)

Client ==
    InOrder /\ late = {} /\ RecordsFit /\ \A r \in Request : StageFits(r)

ClientInv == GitOpsInv /\ (Undisturbed => Client)

-----------------------------------------------------------------------------
(* One request moves                                                        *)

\* Only r moves, and a request stays what it is once it is made.
Goes(r) ==
    /\ \A s \in Request \ {r} :
         req'[s] = req[s] /\ task'[s] = task[s] /\ (s \in inbox' <=> s \in inbox)
    /\ \A s \in Request : req[s].pc # "free" =>
         /\ req'[s].pc # "free" /\ req'[s].kind = req[s].kind
         /\ req'[s].item = req[s].item /\ req'[s].with = req[s].with
         /\ req'[s].arg = req[s].arg /\ req'[s].force = req[s].force

\* What clients never asked for they had not asked for before.
LEMMA HistoryGoesOn ==
    ASSUME NEW r, Goes(r), InOrder
    PROVE  /\ OwnDefaults' => OwnDefaults
           /\ NoForce' => NoForce
           /\ \A s \in Request : req[s].pc = "free" =>
                 req[s].kind = "none" /\ req[s].item = NoItem
<1>1. \A s \in Request : req[s].pc = "free" =>
         /\ req[s].kind = "none" /\ req[s].item = NoItem /\ ~req[s].force
  BY DEF InOrder, OnPath, NoReq
<1>2. OwnDefaults' => OwnDefaults
  BY <1>1 DEF OwnDefaults, Goes, IsDefault
<1>3. NoForce' => NoForce
  BY <1>1 DEF NoForce, Goes
<1> QED
  BY <1>1, <1>2, <1>3

\* What is not open has no stage.
LEMMA IdleFits ==
    ASSUME NEW r \in Request, ~Open(r)'
    PROVE  StageFits(r)'
<1>1. /\ req'[r].pc \notin {"read", "written", "old"} /\ r \notin inbox'
      /\ task'[r].pc \in {"none", "over"}
  BY DEF Open, TaskIsLive
<1>2. ~Asked(r)' /\ ~Working(r)'
  BY <1>1 DEF Asked, Working
<1>3. Reading(r)' /\ Fresh(r)'
  BY <1>1 DEF Reading, Fresh
<1>4. Argued(r)'
  BY DEF Argued
<1>5. Present(r)' /\ Holding(r)'
  BY <1>1, <1>2 DEF Present, Holding
<1> QED
  BY <1>3, <1>4, <1>5 DEF StageFits

\* Beside the one that moves nothing is open.
LEMMA OthersAreIdle ==
    ASSUME NEW r \in Request, Goes(r), InOrder,
           Open(r) \/ \A s \in Request : ~Open(s)
    PROVE  /\ \A s \in Request \ {r} : ~Open(s) /\ ~Open(s)'
           /\ Alone'
<1>1. \A s \in Request \ {r} : ~Open(s)
  BY DEF InOrder, Alone
<1>2. \A s \in Request \ {r} : ~Open(s)'
  BY <1>1 DEF Goes, Open, TaskIsLive
<1> QED
  BY <1>1, <1>2 DEF Alone

\* A step is right if it is for its own request and for the records.
LEMMA StepFits ==
    ASSUME NEW r \in Request, Goes(r), InOrder, Open(r) \/ \A s \in Request : ~Open(s),
           req[r].pc = "free" => \A s \in 1 .. r - 1 : req[s].pc # "free",
           OnPath(r)', Suits(r)', StageFits(r)', RecordsFit', late' = {}
    PROVE  Client'
<1>1. /\ \A s \in Request \ {r} : ~Open(s)'
      /\ Alone'
  BY OthersAreIdle
<1>2. \A s \in Request \ {r} : OnPath(s)' /\ Suits(s)'
  <2> SUFFICES ASSUME NEW s \in Request \ {r} PROVE OnPath(s)' /\ Suits(s)'
    OBVIOUS
  <2>1. /\ req'[s] = req[s] /\ task'[s] = task[s]
        /\ (s \in inbox' <=> s \in inbox) /\ OnPath(s) /\ Suits(s)
    BY DEF Goes, InOrder
  <2> QED
    BY <2>1 DEF OnPath, Suits, IsDefault
<1>3. InTurn'
  <2> SUFFICES ASSUME NEW q \in Request, NEW s \in Request,
                      q < s, req'[s].pc # "free"
               PROVE  req'[q].pc # "free"
    BY DEF InTurn
  <2>1. CASE s # r \/ req[r].pc # "free"
    <3>1. req[s].pc # "free"
      BY <2>1 DEF Goes
    <3> QED
      BY <3>1 DEF Goes, InOrder, InTurn
  <2>2. CASE s = r /\ req[r].pc = "free"
    <3>1. q \in 1 .. r - 1
      BY <2>2, GitOpsAssumption DEF Request
    <3> QED
      BY <2>2, <3>1 DEF Goes
  <2> QED
    BY <2>1, <2>2
<1>4. \A s \in Request : OnPath(s)' /\ Suits(s)' /\ StageFits(s)'
  BY <1>1, <1>2, IdleFits
<1>5. InOrder'
  BY <1>1, <1>3, <1>4 DEF InOrder
<1> QED
  BY <1>4, <1>5 DEF Client

\* Records that keep their shape still fit, whatever else is written.
LEMMA ShapesFit ==
    ASSUME RecordsFit, OwnDefaults' => OwnDefaults, NoForce' => NoForce,
           \A j \in Item : /\ SameShape(items'[j], items[j])
                           /\ items'[j] = items[j] \/ There(j),
           \A c \in Cluster : old'[c] = old[c] \/ There(c)
    PROVE  RecordsFit'
<1>0. Cluster \subseteq Item /\ Profile \subseteq Item /\ Ksu \subseteq Item
  BY DEF Item
<1>1. /\ \A j \in Item : There(j)' <=> There(j)
      /\ \A j \in Item : items'[j].links = items[j].links
  BY DEF SameShape, There
<1>2. NewIsEmpty'
  BY DEF RecordsFit, NewIsEmpty, SameShape, There
<1>3. Linked'
  BY <1>0, <1>1 DEF RecordsFit, Linked, SameShape
<1>4. ListsExist'
  <2> SUFFICES ASSUME OwnDefaults', NEW c \in Cluster,
                      NEW p \in items'[c].links
               PROVE  There(p)' /\ (IsDefault(p) => p = Default[c])
    BY DEF ListsExist, IsDefault
  <2>1. p \in items[c].links /\ p \in Item
    BY <1>0, <1>1 DEF RecordsFit, Linked
  <2> QED
    BY <1>1, <2>1 DEF RecordsFit, ListsExist
<1>5. DefaultsListed'
  BY <1>0, <1>1, DefaultInItem DEF RecordsFit, DefaultsListed, SameShape
<1>6. Emptied'
  <2> SUFFICES ASSUME NEW c \in Cluster
               PROVE  /\ items'[c].life = "new" => old'[c] = "none"
                      /\ NoForce' /\ items'[c].life = "gone" =>
                           old'[c] = "none" /\ ~There(Default[c])'
    BY DEF Emptied
  <2>1. c \in Item /\ Default[c] \in Item
    BY DefaultInItem DEF Item
  <2>2. items'[c].life = items[c].life
    BY <2>1 DEF SameShape
  <2>3. ~There(Default[c]) => ~There(Default[c])'
    BY <1>1, <2>1
  <2>4. items[c].life # "there" => old'[c] = old[c]
    BY DEF There
  <2> QED
    BY <2>2, <2>3, <2>4 DEF RecordsFit, Emptied
<1>7. Listed'
  <2>1. \A j \in Item : items'[j].life = items[j].life
    BY DEF SameShape
  <2> QED
    BY <1>1, <2>1 DEF RecordsFit, Listed
<1> QED
  BY <1>2, <1>3, <1>4, <1>5, <1>6, <1>7 DEF RecordsFit

-----------------------------------------------------------------------------
(* Steps of LCM, field by field                                             *)

\* Only the record of the request changes, and not its shape.
Own(r) ==
    LET i == req[r].item
    IN /\ There(i) /\ items'[i] \in ItemRec /\ SameShape(items'[i], items[i])
       /\ \A j \in Item \ {i} : items'[j] = items[j]

\* A step of a coroutine leaves the request and the other coroutines alone.
LcmGoes(r) ==
    /\ TaskIsLive(r) /\ req' = req /\ inbox' = inbox /\ late' = late
    /\ task'[r] \in TaskRec
    /\ \A s \in Request \ {r} : task'[s] = task[s]

\* A coroutine goes on with its copy.
GoesOn(r, next) ==
    /\ task'[r].pc = next /\ task'[r].second = task[r].second
    /\ task'[r].first = task[r].first

Stops(r) == task'[r].pc = "over" /\ ~task'[r].second

\* Start.
Begins(r) ==
    LET d == items[req[r].item]
        e == items'[req[r].item]
    IN /\ task[r].pc = "scheduled" /\ Own(r)
       /\ old' = old /\ attached' = attached
       /\ e.state = d.state /\ e.operating = d.operating
       /\ e.hist[r] # "absent"
       /\ \/ Stops(r) /\ (req[r].with # {} \/ ~OwnDefaults)
          \/ /\ task'[r].pc = IF Command(r) = "get_creds" THEN "check" ELSE "launch"
             /\ task'[r].second = task[r].second /\ req[r].with = {}
             /\ task'[r].doc = e
             /\ req[r].item \in Cluster => task'[r].first = e

\* Launch.
Launches(r) ==
    /\ task[r].pc = "launch"
    /\ old' = old /\ attached' = attached
    /\ LET c == task[r].doc
           e == items'[req[r].item]
       IN \/ Stops(r) /\ items' = items /\ req[r].kind \in {"clone", "move"}
          \/ /\ GoesOn(r, "poll") /\ task'[r].doc = c /\ items' = items
             /\ req[r].kind \notin {"clone", "move"}
          \/ /\ Stops(r) /\ Own(r) /\ req[r].item \in Cluster
             /\ e.state \in {c.state, "FAILED_CREATION", "FAILED_DELETION"}
             /\ e.operating = c.operating
             /\ \/ e.hist[r] = "FAILED"
                \/ req[r].kind = "add" /\ e.resource = "ERROR"

\* The state after a workflow.
PolledState(r, ok, state) ==
    CASE Command(r) \in {"create", "register"} ->
             IF ok THEN "CREATED" ELSE "FAILED_CREATION"
      [] Command(r) = "delete" -> IF ok THEN "DELETED" ELSE "FAILED_DELETION"
      [] Command(r) = "deregister" -> IF ok THEN state ELSE "FAILED_DELETION"
      [] OTHER -> state

\* Poll.
Polls(r) ==
    LET c == task[r].doc
        e == items'[req[r].item]
    IN /\ task[r].pc = "poll" /\ Own(r) /\ old' = old
       /\ e.operating = c.operating
       /\ \/ /\ e.state = PolledState(r, TRUE, c.state)
             /\ e.hist[r] = c.hist[r] /\ Effect(r)
             /\ GoesOn(r, "check") /\ task'[r].doc = e
          \/ /\ e.state = PolledState(r, FALSE, c.state)
             /\ e.hist[r] = "FAILED" /\ attached' = attached
             /\ \/ Stops(r)
                \/ /\ GoesOn(r, "finish") /\ task'[r].doc = e
                   /\ Command(r) = "update"

\* Finish and EndGetCreds.
Closes(r) ==
    /\ task[r].pc = "finish" \/ (task[r].pc = "check" /\ Command(r) = "get_creds")
    /\ Own(r) /\ Stops(r) /\ old' = old /\ attached' = attached
    /\ items'[req[r].item].state = task[r].doc.state
    /\ items'[req[r].item].hist[r] = task[r].doc.hist[r]

\* CheckProgress.
Progresses(r) ==
    LET c == IF req[r].item \in Cluster THEN task[r].first ELSE task[r].doc
        e == items'[req[r].item]
    IN /\ task[r].pc = "check" /\ task' = task /\ Own(r)
       /\ old' = old /\ attached' = attached
       /\ e.state = c.state /\ e.operating = c.operating

\* The result of the check is in the record.
Checked(r) ==
    LET e == items'[req[r].item]
    IN /\ task[r].pc = "check" /\ attached' = attached
       /\ e \in ItemRec /\ e.state = task[r].doc.state
       /\ e.hist[r] \in {"COMPLETED", "FAILED"}

\* EndItem: only the lists change.
Completes(r) ==
    LET i == req[r].item
        c == task[r].doc
        d == items[i]
        e == items'[i]
    IN /\ Checked(r) /\ Stops(r) /\ old' = old /\ There(i)
       /\ \A j \in Item \ {i} : items'[j] = items[j]
       /\ \/ Command(r) \in {"edit", "add", "remove", "update"}
          \/ Command(r) = "create" /\ i \notin Cluster
       /\ e.life = d.life /\ e.created = d.created /\ e.inUse = d.inUse
       /\ e.links = CASE Command(r) = "add" -> d.links \cup {req[r].arg}
                      [] Command(r) = "remove" -> d.links \ {req[r].arg}
                      [] Command(r) = "edit" /\ i \in Ksu ->
                           (d.links \ Oka) \cup {req[r].arg}
                      [] OTHER -> d.links

\* EndCluster: the default profile ends too, in its shape.
ClusterEnds(r) ==
    LET i == req[r].item
    IN /\ Checked(r) /\ old' = old /\ There(i) /\ i \in Cluster
       /\ req[r].kind \in {"create", "register"} /\ Command(r) = req[r].kind
       /\ \A j \in Item :
            /\ SameShape(items'[j], items[j])
            /\ items'[j] = items[j] \/ There(j)
            /\ \A s \in Request \ {r} :
                 j # i => items'[j].hist[s] = items[j].hist[s]
            /\ j # i /\ items'[j] # items[j] => j \in items[i].links
       /\ \/ task'[r].pc = "publish" /\ ~task'[r].second
          \/ Stops(r)

\* Publish.
Publishes(r) ==
    /\ task[r].pc = "publish" /\ Stops(r)
    /\ items' = items /\ attached' = attached
    /\ \A c \in Cluster : old'[c] = old[c] \/ (c = req[r].item /\ old[c] # "none")

\* EndDeregister.
Deregisters(r) ==
    /\ Checked(r) /\ Own(r) /\ old' = old
    /\ Command(r) = "deregister" /\ req[r].item \in Cluster
    /\ task'[r].pc = "scheduled" /\ task'[r].second

\* EndDelete, EndDeleteKsu and EndDeleteCluster.
Removes(r) ==
    /\ \E ok \in BOOLEAN : EndDelete(r, ok) \/ EndDeleteKsu(r, ok)
                           \/ EndDeleteCluster(r, ok)
    /\ Stops(r)

-----------------------------------------------------------------------------
(* The steps of LCM have these effects                                      *)

\* What is known of the request of a coroutine.
Known(r) ==
    /\ TypeOK /\ Named /\ InOrder /\ RecordsFit /\ late = {}
    /\ OnPath(r) /\ Suits(r)
    /\ Reading(r) /\ Fresh(r) /\ Argued(r) /\ Present(r) /\ Holding(r)
    /\ Open(r) /\ req[r].pc \notin {"free", "read", "written"} /\ r \notin inbox
    /\ req[r].item \in Item /\ items[req[r].item] \in ItemRec
    /\ task[r] \in TaskRec
    /\ task[r].doc \in ItemRec /\ task[r].first \in ItemRec

\* It follows from the invariant.
LEMMA LiveKnown ==
    ASSUME GitOpsInv, Client, NEW r \in Request, TaskIsLive(r)
    PROVE  Known(r)
<1>1. TypeOK /\ Named
  BY DEF GitOpsInv
<1>2. /\ InOrder /\ RecordsFit /\ late = {} /\ OnPath(r) /\ Suits(r)
      /\ Reading(r) /\ Fresh(r) /\ Argued(r) /\ Present(r) /\ Holding(r)
  BY DEF Client, InOrder, StageFits
<1>3. Open(r)
  BY DEF Open
<1>4. req[r].pc \notin {"free", "read", "written"} /\ r \notin inbox
  BY <1>2 DEF OnPath, TaskIsLive
<1>5. req[r].item \in Item
  BY <1>1 DEF Named
<1>6. items[req[r].item] \in ItemRec /\ task[r] \in TaskRec
  BY <1>1, <1>5 DEF TypeOK
<1>7. task[r].doc \in ItemRec /\ task[r].first \in ItemRec
  BY <1>6 DEF TaskRec
<1> QED
  BY <1>1, <1>2, <1>3, <1>4, <1>5, <1>6, <1>7 DEF Known

\* The end of a coroutine, as it is seen.
LEMMA EndsStops ==
    ASSUME TypeOK, NEW r \in Request, Ends(r)
    PROVE  Stops(r) /\ \A s \in Request \ {r} : task'[s] = task[s]
<1>1. task'[r] = [NoTask EXCEPT !.pc = "over"]
  BY DEF Ends, TypeOK
<1>2. \A s \in Request \ {r} : task'[s] = task[s]
  BY DEF Ends, TypeOK
<1> QED
  BY <1>1, <1>2 DEF Stops, NoTask

\* A coroutine writes its copy.
LEMMA SavesFields ==
    ASSUME NEW r \in Request, Known(r), There(req[r].item),
           NEW doc \in ItemRec, SameShape(doc, items[req[r].item]),
           NEW next \in {"check", "finish", "over"}, Saves(r, doc, next)
    PROVE  /\ Own(r) /\ items'[req[r].item] = doc
           /\ \A s \in Request \ {r} : task'[s] = task[s]
           /\ IF next = "over" THEN Stops(r)
              ELSE GoesOn(r, next) /\ task'[r].doc = doc
<1>0. TypeOK /\ req[r].item \in Item /\ task[r] \in TaskRec
  BY DEF Known
<1>1. items' = [items EXCEPT ![req[r].item] = doc]
  BY DEF Saves, Item_
<1>2. /\ items'[req[r].item] = doc
      /\ \A j \in Item \ {req[r].item} : items'[j] = items[j]
  BY <1>0, <1>1 DEF TypeOK
<1>3. Own(r)
  BY <1>2 DEF Own
<1>4. CASE next = "over"
  <2>1. Ends(r)
    BY <1>4 DEF Saves, Item_
  <2> QED
    BY <1>0, <1>2, <1>3, <1>4, <2>1, EndsStops
<1>5. CASE next # "over"
  <2>1. task' = [task EXCEPT ![r].doc = doc, ![r].pc = next]
    BY <1>5 DEF Saves, Item_
  <2>2. \A s \in Request \ {r} : task'[s] = task[s]
    BY <1>0, <2>1 DEF TypeOK
  <2>3. /\ task'[r].doc = doc /\ task'[r].pc = next
        /\ task'[r].second = task[r].second /\ task'[r].first = task[r].first
    BY <1>0, <2>1 DEF TypeOK, TaskRec
  <2> QED
    BY <1>2, <1>3, <1>5, <2>2, <2>3 DEF GoesOn
<1> QED
  BY <1>4, <1>5

\* A copy agrees with its record as long as it agrees with another copy.
LEMMA ShapeOfShape ==
    ASSUME NEW d, NEW e, NEW f, SameShape(d, e), SameShape(e, f)
    PROVE  SameShape(d, f)
BY DEF SameShape

\* The second half of deregister is a delete.
LEMMA CommandIs ==
    ASSUME NEW r, OnPath(r)
    PROVE  /\ Command(r) # "delete" => Command(r) = req[r].kind
           /\ Command(r) = "delete" =>
                req[r].kind \in {"delete", "deregister"}
           /\ Command(r) = "deregister" => ~task[r].second
BY DEF Command, OnPath

\* Everything a command reads exists.
LEMMA ReadsExist ==
    ASSUME NEW r \in Request, Known(r), task[r].pc = "scheduled", OwnDefaults
    PROVE  \A i \in AlsoReads(r) : There(i)
<1> DEFINE q == req[r]
           d == items[q.item]
<1>0. /\ Cluster \subseteq Item /\ Profile \subseteq Item /\ Ksu \subseteq Item
      /\ Cluster \cap Ksu = {}
  BY GitOpsAssumption DEF Item
<1>1. /\ Suits(r) /\ Argued(r) /\ Open(r) /\ Asked(r) /\ OnPath(r)
      /\ Linked /\ ListsExist /\ q.pc # "free"
  BY DEF Known, Asked, RecordsFit
<1>2. CASE Command(r) = "add"
  BY <1>1, <1>2, CommandIs DEF AlsoReads, Argued
<1>3. CASE Command(r) = "remove"
  <2>1. q.kind = "remove" /\ q.item \in Cluster /\ q.arg \in d.links
    BY <1>1, <1>3, CommandIs DEF Argued, Suits
  <2>2. There(q.arg)
    BY <1>1, <2>1 DEF ListsExist
  <2> QED
    BY <1>3, <2>2 DEF AlsoReads
<1>4. CASE q.item \in Ksu /\ Command(r) = "create"
  BY <1>1, <1>4, CommandIs DEF AlsoReads, Argued, Item_
<1>5. CASE q.item \in Ksu /\ Command(r) = "edit"
  <2>1. q.kind = "edit" /\ There(q.arg)
    BY <1>1, <1>5, CommandIs DEF Argued
  <2>2. \A p \in d.links \cap Profile : There(p)
    BY <1>1, <1>5 DEF Linked
  <2>3. AlsoReads(r) = (d.links \cap Profile) \cup {q.arg}
    BY <1>5 DEF AlsoReads, Item_
  <2> QED
    BY <2>1, <2>2, <2>3
<1>6. CASE q.item \in Ksu /\ Command(r) = "delete"
  <2>1. AlsoReads(r) = d.links \cap Profile
    BY <1>6 DEF AlsoReads, Item_
  <2> QED
    BY <1>1, <1>6, <2>1 DEF Linked
<1>7. CASE /\ Command(r) \notin {"add", "remove"}
           /\ ~(q.item \in Ksu /\ Command(r) \in {"create", "edit", "delete"})
  BY <1>7 DEF AlsoReads, Item_
<1> QED
  BY <1>2, <1>3, <1>4, <1>5, <1>6, <1>7

\* Start.
LEMMA StartBegins ==
    ASSUME NEW r \in Request, Known(r), TypeOK', Start(r)
    PROVE  LcmGoes(r) /\ Begins(r)
<1> DEFINE i == req[r].item
           d == items[i]
           doc == IF Initialises(r) THEN Initialised(d, r) ELSE d
<1>0. /\ TypeOK /\ i \in Item /\ d \in ItemRec /\ task[r] \in TaskRec
      /\ OnPath(r)
  BY DEF Known
<1>1. TaskIsLive(r) /\ task[r].pc = "scheduled" /\ Asked(r)
  BY DEF Start, TaskIsLive, Asked
<1>2. There(i) /\ d.hist[r] # "absent"
  BY <1>1 DEF Known, Present, There
<1>3. /\ req' = req /\ inbox' = inbox /\ late' = late
      /\ old' = old /\ attached' = attached /\ task'[r] \in TaskRec
  BY DEF Start, extVars, TypeOK
<1>4. /\ doc \in ItemRec /\ SameShape(doc, d)
      /\ doc.state = d.state /\ doc.operating = d.operating
      /\ doc.hist[r] # "absent"
  <2>1. /\ Initialised(d, r) \in ItemRec /\ SameShape(Initialised(d, r), d)
        /\ Initialised(d, r).state = d.state
        /\ Initialised(d, r).operating = d.operating
        /\ Initialised(d, r).hist[r] # "absent"
    <3> HIDE DEF d
    <3> QED
      BY <1>0, InitialisedFields
  <2>2. SameShape(d, d)
    BY DEF SameShape
  <2> HIDE DEF d
  <2> QED
    BY <1>0, <1>2, <2>1, <2>2
<1>5. CASE ~Found(r)
  <2>1. req[r].with # {}
    BY <1>2, <1>5 DEF Found, Item_
  <2>2. items' = items /\ Ends(r)
    BY <1>5 DEF Start
  <2>3. Stops(r) /\ \A s \in Request \ {r} : task'[s] = task[s]
    BY <1>0, <2>2, EndsStops
  <2>4. Own(r)
    BY <1>0, <1>2, <2>2 DEF Own, SameShape
  <2> QED
    BY <1>1, <1>2, <1>3, <2>1, <2>2, <2>3, <2>4 DEF LcmGoes, Begins
<1>6. CASE Found(r)
  <2>1. req[r].with = {}
    BY <1>6 DEF Found
  <2>2. items' = [items EXCEPT ![i] = doc]
    BY <1>6 DEF Start, Item_
  <2> HIDE DEF doc
  <2>3. items'[i] = doc /\ \A j \in Item \ {i} : items'[j] = items[j]
    BY <1>0, <2>2 DEF TypeOK
  <2>4. Own(r)
    BY <1>2, <1>4, <2>3 DEF Own
  <2>5. CASE \A j \in AlsoReads(r) : There(j)
    <3> DEFINE pc == IF Command(r) = "get_creds" THEN "check" ELSE "launch"
    <3>1. task' = [task EXCEPT ![r].doc = doc,
                     ![r].first = IF i \in Cluster THEN doc ELSE @,
                     ![r].pc = pc]
      BY <1>6, <2>5 DEF Start, Item_, doc
    <3>2. \A s \in Request \ {r} : task'[s] = task[s]
      BY <1>0, <3>1 DEF TypeOK
    <3>3. /\ task'[r].pc = pc /\ task'[r].second = task[r].second
          /\ task'[r].doc = doc /\ (i \in Cluster => task'[r].first = doc)
      BY <1>0, <3>1 DEF TypeOK, TaskRec
    <3> QED
      BY <1>1, <1>3, <1>4, <2>1, <2>3, <2>4, <3>2, <3>3 DEF LcmGoes, Begins
  <2>6. CASE ~(\A j \in AlsoReads(r) : There(j))
    <3>1. ~OwnDefaults
      BY <1>1, <2>6, ReadsExist
    <3>2. Ends(r)
      BY <1>6, <2>6 DEF Start
    <3>3. Stops(r) /\ \A s \in Request \ {r} : task'[s] = task[s]
      BY <1>0, <3>2, EndsStops
    <3> QED
      BY <1>1, <1>3, <1>4, <2>3, <2>4, <3>1, <3>3 DEF LcmGoes, Begins
  <2> QED
    BY <2>5, <2>6
<1> QED
  BY <1>5, <1>6

\* The coroutine holds a copy of a record that is there.
LEMMA CopyFits ==
    ASSUME NEW r \in Request, Known(r), Working(r)
    PROVE  /\ There(req[r].item) /\ task[r].doc.hist[r] # "absent"
           /\ SameShape(task[r].doc, items[req[r].item])
           /\ req[r].item \in Cluster =>
                SameShape(task[r].first, items[req[r].item])
BY DEF Known, Present, Holding, There

\* Launch.
LEMMA LaunchLaunches ==
    ASSUME NEW r \in Request, Known(r), TypeOK', NEW ok \in BOOLEAN, Launch(r, ok)
    PROVE  LcmGoes(r) /\ Launches(r)
<1> DEFINE i == req[r].item
           c == task[r].doc
<1>0. /\ TypeOK /\ i \in Item /\ task[r] \in TaskRec /\ OnPath(r)
      /\ c \in ItemRec
  BY DEF Known
<1>1. TaskIsLive(r) /\ task[r].pc = "launch" /\ Working(r)
  BY DEF Launch, TaskIsLive, Working
<1>2. /\ req' = req /\ inbox' = inbox /\ late' = late
      /\ old' = old /\ attached' = attached /\ task'[r] \in TaskRec
  BY DEF Launch, extVars, TypeOK
<1>3. There(i) /\ SameShape(c, items[i]) /\ c.hist[r] # "absent"
  BY <1>1, CopyFits
<1> DEFINE none == Command(r) \in {"clone", "move"}
           polls == ok \/ i \notin Cluster
<1>4. none <=> req[r].kind \in {"clone", "move"}
  BY <1>0, CommandIs
<1>5. CASE none /\ Ends(r) /\ UNCHANGED items
  <2>1. Stops(r) /\ \A s \in Request \ {r} : task'[s] = task[s]
    BY <1>0, <1>5, EndsStops
  <2> QED
    BY <1>1, <1>2, <1>4, <1>5, <2>1 DEF LcmGoes, Launches
<1>6. CASE /\ ~none /\ UNCHANGED items
           /\ task' = [task EXCEPT ![r].pc = "poll", ![r].launched = ok]
  <2>1. \A s \in Request \ {r} : task'[s] = task[s]
    BY <1>0, <1>6 DEF TypeOK
  <2>2. GoesOn(r, "poll") /\ task'[r].doc = c
    BY <1>0, <1>6 DEF TypeOK, TaskRec, GoesOn
  <2> QED
    BY <1>1, <1>2, <1>4, <1>6, <2>1, <2>2 DEF LcmGoes, Launches
<1>7. CASE /\ ~none /\ ~polls
           /\ Saves(r, IF Command(r) # "add" THEN AfterWorkflow(r, FALSE)
                       ELSE [c EXCEPT !.resource = "ERROR"], "over")
  <2> DEFINE w == AfterWorkflow(r, FALSE)
             x == [c EXCEPT !.resource = "ERROR"]
             e == IF Command(r) # "add" THEN w ELSE x
  <2>1. /\ w \in ItemRec /\ SameShape(w, c) /\ w.operating = c.operating
        /\ w.hist[r] = "FAILED"
        /\ w.state \in {c.state, "FAILED_CREATION", "FAILED_DELETION"}
    <3> HIDE DEF w, c
    <3> QED
      BY <1>0, <1>3, WorkflowFields DEF w, c
  <2>2. /\ x \in ItemRec /\ SameShape(x, c) /\ x.operating = c.operating
        /\ x.resource = "ERROR" /\ x.state = c.state
    BY <1>0 DEF ItemRec, SameShape
  <2> HIDE DEF w, x
  <2>3. /\ e \in ItemRec /\ SameShape(e, items[i])
        /\ e.operating = c.operating
        /\ e.state \in {c.state, "FAILED_CREATION", "FAILED_DELETION"}
        /\ Command(r) # "add" => e.hist[r] = "FAILED"
        /\ Command(r) = "add" => e.resource = "ERROR"
    BY <1>3, <2>1, <2>2, ShapeOfShape
  <2>4. Saves(r, e, "over")
    BY <1>7 DEF w, x
  <2> HIDE DEF e
  <2>5. /\ Own(r) /\ items'[i] = e /\ Stops(r)
        /\ \A s \in Request \ {r} : task'[s] = task[s]
    BY <1>3, <2>3, <2>4, SavesFields
  <2>6. Command(r) = "add" => req[r].kind = "add"
    BY <1>0, CommandIs
  <2>7. LcmGoes(r)
    BY <1>1, <1>2, <2>5 DEF LcmGoes
  <2> QED
    BY <1>1, <1>2, <1>7, <2>3, <2>5, <2>6, <2>7 DEF Launches
<1> QED
  BY <1>5, <1>6, <1>7 DEF Launch, Item_

\* Poll, of a workflow that is not too slow.
LEMMA PollPolls ==
    ASSUME NEW r \in Request, Known(r), TypeOK', Undisturbed',
           NEW ok \in BOOLEAN, Poll(r, ok)
    PROVE  LcmGoes(r) /\ Polls(r)
<1> DEFINE i == req[r].item
           c == task[r].doc
           w == AfterWorkflow(r, ok)
           next == IF ok THEN "check"
                   ELSE IF Command(r) = "update" THEN "finish" ELSE "over"
<1>0. /\ TypeOK /\ i \in Item /\ task[r] \in TaskRec /\ OnPath(r)
      /\ c \in ItemRec
  BY DEF Known
<1>1. TaskIsLive(r) /\ task[r].pc = "poll" /\ Working(r)
  BY DEF Poll, TaskIsLive, Working
<1>2. /\ req' = req /\ inbox' = inbox /\ old' = old /\ task'[r] \in TaskRec
  BY DEF Poll, TypeOK
<1>3. late' = late
  BY DEF Poll, Fault, Undisturbed
<1>4. There(i) /\ SameShape(c, items[i]) /\ c.hist[r] # "absent"
  BY <1>1, CopyFits
<1>5. /\ w \in ItemRec /\ SameShape(w, c) /\ w.operating = c.operating
      /\ w.hist[r] = IF ok THEN c.hist[r] ELSE "FAILED"
      /\ w.state = PolledState(r, ok, c.state)
  <2> HIDE DEF w, c
  <2>1. /\ w \in ItemRec /\ SameShape(w, c) /\ w.operating = c.operating
        /\ w.hist[r] = IF ok THEN c.hist[r] ELSE "FAILED"
        /\ Command(r) \in {"create", "register"} =>
              w.state = IF ok THEN "CREATED" ELSE "FAILED_CREATION"
        /\ Command(r) = "delete" =>
              w.state = IF ok THEN "DELETED" ELSE "FAILED_DELETION"
        /\ Command(r) = "deregister" =>
              w.state = IF ok THEN c.state ELSE "FAILED_DELETION"
        /\ Command(r) \notin {"create", "register", "delete", "deregister"} =>
              w.state = c.state
    BY <1>0, <1>4, WorkflowFields DEF w, c
  <2> QED
    BY <2>1 DEF PolledState
<1>6. Saves(r, w, next)
  BY DEF Poll
<1> HIDE DEF w
<1>7. SameShape(w, items[i])
  BY <1>4, <1>5, ShapeOfShape
<1>8. /\ Own(r) /\ items'[i] = w /\ \A s \in Request \ {r} : task'[s] = task[s]
      /\ IF next = "over" THEN Stops(r)
         ELSE GoesOn(r, next) /\ task'[r].doc = w
  <2>1. next \in {"check", "finish", "over"}
    OBVIOUS
  <2> HIDE DEF next
  <2> QED
    BY <1>4, <1>5, <1>6, <1>7, <2>1, SavesFields
<1>9. LcmGoes(r)
  BY <1>1, <1>2, <1>3, <1>8 DEF LcmGoes
<1>10. CASE ok
  <2>1. Effect(r)
    BY <1>10 DEF Poll
  <2> QED
    BY <1>1, <1>2, <1>5, <1>8, <1>9, <1>10, <2>1 DEF Polls
<1>11. CASE ~ok
  <2>1. attached' = attached
    BY <1>11 DEF Poll
  <2> QED
    BY <1>1, <1>2, <1>5, <1>8, <1>9, <1>11, <2>1 DEF Polls
<1> QED
  BY <1>10, <1>11

\* Finish and EndGetCreds.
LEMMA EndCloses ==
    ASSUME NEW r \in Request, Known(r), TypeOK', Finish(r) \/ EndGetCreds(r)
    PROVE  LcmGoes(r) /\ Closes(r)
<1> DEFINE i == req[r].item
           c == task[r].doc
<1>0. TypeOK /\ i \in Item /\ task[r] \in TaskRec /\ c \in ItemRec
  BY DEF Known
<1>1. /\ TaskIsLive(r) /\ Working(r)
      /\ \/ task[r].pc = "finish"
         \/ task[r].pc = "check" /\ Command(r) = "get_creds"
  BY DEF Finish, EndGetCreds, TaskIsLive, Working
<1>2. /\ req' = req /\ inbox' = inbox /\ late' = late
      /\ old' = old /\ attached' = attached /\ task'[r] \in TaskRec
  BY DEF Finish, EndGetCreds, extVars, TypeOK
<1>3. There(i) /\ SameShape(c, items[i])
  BY <1>1, CopyFits
<1>4. PICK e \in ItemRec : /\ Saves(r, e, "over")
                           /\ SameShape(e, c) /\ e.state = c.state
                           /\ e.hist = c.hist
  <2> DEFINE f == [c EXCEPT !.operating = "IDLE", !.current = NoRequest]
             g == [c EXCEPT !.current = NoRequest]
  <2>1. /\ f \in ItemRec /\ SameShape(f, c) /\ f.state = c.state
        /\ f.hist = c.hist
    BY <1>0 DEF ItemRec, SameShape, NoRequest
  <2>2. /\ g \in ItemRec /\ SameShape(g, c) /\ g.state = c.state
        /\ g.hist = c.hist
    BY <1>0 DEF ItemRec, SameShape, NoRequest
  <2>3. Saves(r, f, "over") \/ Saves(r, g, "over")
    BY DEF Finish, EndGetCreds
  <2> HIDE DEF f, g
  <2> QED
    BY <2>1, <2>2, <2>3
<1>5. SameShape(e, items[i])
  BY <1>3, <1>4, ShapeOfShape
<1>6. /\ Own(r) /\ items'[i] = e /\ Stops(r)
      /\ \A s \in Request \ {r} : task'[s] = task[s]
  BY <1>3, <1>4, <1>5, SavesFields
<1> QED
  BY <1>1, <1>2, <1>4, <1>6 DEF LcmGoes, Closes

\* CheckProgress.
LEMMA CheckProgresses ==
    ASSUME NEW r \in Request, Known(r), TypeOK', CheckProgress(r)
    PROVE  LcmGoes(r) /\ Progresses(r)
<1> DEFINE i == req[r].item
           c == IF i \in Cluster THEN task[r].first ELSE task[r].doc
           e == [c EXCEPT !.resource = "IN_PROGRESS"]
<1>0. TypeOK /\ i \in Item /\ c \in ItemRec
  BY DEF Known
<1>1. TaskIsLive(r) /\ Working(r) /\ task[r].pc = "check" /\ There(i)
  BY DEF CheckProgress, TaskIsLive, Working, Item_
<1>2. SameShape(c, items[i])
  BY <1>1, CopyFits
<1>3. /\ items' = [items EXCEPT ![i] = e]
      /\ req' = req /\ inbox' = inbox /\ late' = late /\ task' = task
      /\ old' = old /\ attached' = attached
  BY DEF CheckProgress, extVars, Item_
<1>4. /\ e \in ItemRec /\ SameShape(e, c) /\ e.state = c.state
      /\ e.operating = c.operating
  <2> HIDE DEF c
  <2> QED
    BY <1>0 DEF ItemRec, SameShape
<1> HIDE DEF c, e
<1>5. items'[i] = e /\ \A j \in Item \ {i} : items'[j] = items[j]
  BY <1>0, <1>3 DEF TypeOK
<1>6. Own(r)
  BY <1>1, <1>2, <1>4, <1>5, ShapeOfShape DEF Own
<1>7. LcmGoes(r)
  BY <1>1, <1>3 DEF LcmGoes, TypeOK
<1>8. /\ items'[i].state = c.state /\ items'[i].operating = c.operating
  BY <1>4, <1>5
<1> QED
  BY <1>1, <1>3, <1>6, <1>7, <1>8 DEF Progresses, c

\* The copy after the check, of a record that is there.
LEMMA CheckedFields ==
    ASSUME NEW r \in Request, Known(r), NEW ok \in BOOLEAN, CheckEnds(r, ok)
    PROVE  LET d == items[req[r].item]
               e == AfterCheck(r, ok)
           IN /\ task[r].pc = "check" /\ There(req[r].item) /\ TaskIsLive(r)
              /\ e \in ItemRec /\ e.state = task[r].doc.state
              /\ e.hist[r] \in {"COMPLETED", "FAILED"}
              /\ e.life = d.life /\ e.created = d.created /\ e.inUse = d.inUse
              /\ e.links = CASE Command(r) = "add" -> d.links \cup {req[r].arg}
                             [] Command(r) = "remove" -> d.links \ {req[r].arg}
                             [] Command(r) = "edit" /\ req[r].item \in Ksu ->
                                  (d.links \ Oka) \cup {req[r].arg}
                             [] OTHER -> d.links
<1> DEFINE d == items[req[r].item]
           c == task[r].doc
           e == AfterCheck(r, ok)
<1>1. task[r].pc = "check" /\ TaskIsLive(r) /\ Working(r)
  BY DEF CheckEnds, TaskIsLive, Working
<1>2. /\ There(req[r].item) /\ c.hist[r] # "absent"
      /\ c.life = d.life /\ c.links = d.links
      /\ c.created = d.created /\ c.inUse = d.inUse
  BY <1>1, CopyFits DEF SameShape
<1>3. /\ e \in ItemRec
      /\ e.life = c.life /\ e.created = c.created /\ e.inUse = c.inUse
      /\ e.state = c.state /\ e.hist[r] \in {"COMPLETED", "FAILED"}
      /\ Command(r) = "add" => e.links = c.links \cup {req[r].arg}
      /\ Command(r) = "remove" => e.links = c.links \ {req[r].arg}
      /\ Command(r) = "edit" /\ req[r].item \in Ksu =>
            e.links = (c.links \ Oka) \cup {req[r].arg}
      /\ Command(r) \notin {"add", "remove"}
         /\ ~(Command(r) = "edit" /\ req[r].item \in Ksu) => e.links = c.links
  <2>1. Named /\ req[r].item \in Item /\ c \in ItemRec
    BY DEF Known
  <2> HIDE DEF e, c
  <2> QED
    BY <1>2, <2>1, CheckFields DEF e, c
<1> HIDE DEF d, c, e
<1> QED
  BY <1>1, <1>2, <1>3 DEF d, c, e

\* EndItem.
LEMMA EndCompletes ==
    ASSUME NEW r \in Request, Known(r), TypeOK', NEW ok \in BOOLEAN, EndItem(r, ok)
    PROVE  LcmGoes(r) /\ Completes(r)
<1> DEFINE i == req[r].item
           d == items[i]
           e == AfterCheck(r, ok)
<1>0. TypeOK /\ i \in Item /\ OnPath(r) /\ Argued(r) /\ Open(r)
  BY DEF Known
<1>1. /\ task[r].pc = "check" /\ There(i) /\ TaskIsLive(r) /\ Working(r)
      /\ e \in ItemRec /\ e.state = task[r].doc.state
      /\ e.hist[r] \in {"COMPLETED", "FAILED"}
      /\ e.life = d.life /\ e.created = d.created /\ e.inUse = d.inUse
      /\ e.links = CASE Command(r) = "add" -> d.links \cup {req[r].arg}
                     [] Command(r) = "remove" -> d.links \ {req[r].arg}
                     [] Command(r) = "edit" /\ i \in Ksu ->
                          (d.links \ Oka) \cup {req[r].arg}
                     [] OTHER -> d.links
  <2>1. CheckEnds(r, ok)
    BY DEF EndItem
  <2>2. task[r].pc = "check" => Working(r)
    BY DEF Working
  <2> HIDE DEF e, d
  <2> QED
    BY <2>1, <2>2, CheckedFields DEF e, d
<1> HIDE DEF e
<1>2. /\ req' = req /\ inbox' = inbox /\ late' = late
      /\ old' = old /\ attached' = attached /\ task'[r] \in TaskRec
  BY DEF EndItem, extVars, TypeOK
<1>3. Saves(r, e, "over")
  <2>1. Command(r) = "remove" => req[r].arg \in d.links
    BY <1>0, CommandIs DEF Argued
  <2>2. task[r].doc.links = d.links
    BY <1>1, CopyFits DEF SameShape
  <2> QED
    BY <2>1, <2>2 DEF EndItem, e
<1>4. items' = [items EXCEPT ![i] = e] /\ Ends(r)
  BY <1>1, <1>3 DEF Saves, Item_
<1>5. Stops(r) /\ \A s \in Request \ {r} : task'[s] = task[s]
  BY <1>0, <1>4, EndsStops
<1>6. items'[i] = e /\ \A j \in Item \ {i} : items'[j] = items[j]
  BY <1>0, <1>4 DEF TypeOK
<1>7. \/ Command(r) \in {"edit", "add", "remove", "update"}
      \/ Command(r) = "create" /\ i \notin Cluster
  BY DEF EndItem, Item_
<1>8. Checked(r)
  BY <1>1, <1>2, <1>6 DEF Checked
<1> HIDE DEF d
<1>9. LcmGoes(r)
  BY <1>1, <1>2, <1>5 DEF LcmGoes
<1> QED
  BY <1>1, <1>2, <1>5, <1>6, <1>7, <1>8, <1>9 DEF Completes, d

\* EndCluster.
LEMMA EndClusterEnds ==
    ASSUME NEW r \in Request, Known(r), TypeOK', NEW ok \in BOOLEAN, EndCluster(r, ok)
    PROVE  LcmGoes(r) /\ ClusterEnds(r)
<1> DEFINE i == req[r].item
           d == items[i]
           e == AfterCheck(r, ok)
           P == IF Command(r) = "create" THEN task[r].doc.links ELSE {}
<1>0. TypeOK /\ i \in Item /\ OnPath(r)
  BY DEF Known
<1>1. /\ task[r].pc = "check" /\ There(i) /\ TaskIsLive(r) /\ Working(r)
      /\ e \in ItemRec /\ e.state = task[r].doc.state
      /\ e.hist[r] \in {"COMPLETED", "FAILED"}
      /\ e.life = d.life /\ e.created = d.created /\ e.inUse = d.inUse
      /\ e.links = CASE Command(r) = "add" -> d.links \cup {req[r].arg}
                     [] Command(r) = "remove" -> d.links \ {req[r].arg}
                     [] Command(r) = "edit" /\ i \in Ksu ->
                          (d.links \ Oka) \cup {req[r].arg}
                     [] OTHER -> d.links
  <2>1. CheckEnds(r, ok)
    BY DEF EndCluster
  <2>2. task[r].pc = "check" => Working(r)
    BY DEF Working
  <2> HIDE DEF e, d, P
  <2> QED
    BY <2>1, <2>2, CheckedFields DEF e, d
<1>2. /\ i \in Cluster /\ Command(r) \in {"create", "register"}
      /\ req' = req /\ inbox' = inbox /\ late' = late
      /\ old' = old /\ attached' = attached /\ task'[r] \in TaskRec
  BY DEF EndCluster, extVars, TypeOK, Item_
<1>3. SameShape(e, d)
  <2> HIDE DEF e, d
  <2> QED
    BY <1>1, <1>2 DEF SameShape
<1>4. items' = [j \in Item |->
                  IF j = i THEN e
                  ELSE IF j \in P /\ There(j) THEN DefaultDoc(j, r, ok)
                  ELSE items[j]]
  BY <1>1 DEF EndCluster, Item_
<1>5. P \subseteq d.links
  BY <1>1, CopyFits DEF SameShape
<1> HIDE DEF e, P
<1>6. /\ items'[i] = e
      /\ \A j \in Item \ {i} :
            \/ items'[j] = items[j]
            \/ j \in P /\ There(j) /\ items'[j] = DefaultDoc(j, r, ok)
  BY <1>0, <1>4
<1>7. \A j \in Item :
        /\ SameShape(items'[j], items[j])
        /\ items'[j] = items[j] \/ There(j)
        /\ \A s \in Request \ {r} : j # i => items'[j].hist[s] = items[j].hist[s]
        /\ j # i /\ items'[j] # items[j] => j \in d.links
  <2> SUFFICES ASSUME NEW j \in Item
               PROVE  /\ SameShape(items'[j], items[j])
                      /\ items'[j] = items[j] \/ There(j)
                      /\ \A s \in Request \ {r} :
                            j # i => items'[j].hist[s] = items[j].hist[s]
                      /\ j # i /\ items'[j] # items[j] => j \in d.links
    OBVIOUS
  <2>1. CASE j = i
    BY <1>1, <1>3, <1>6, <2>1
  <2>2. CASE items'[j] = items[j]
    BY <2>2 DEF SameShape
  <2>3. CASE j # i /\ j \in P /\ There(j) /\ items'[j] = DefaultDoc(j, r, ok)
    <3>1. items[j] \in ItemRec
      BY <1>0 DEF TypeOK
    <3>2. /\ SameShape(DefaultDoc(j, r, ok), items[j])
          /\ \A s \in Request \ {r} :
                DefaultDoc(j, r, ok).hist[s] = items[j].hist[s]
      BY <3>1, DefaultFields
    <3> QED
      BY <1>5, <2>3, <3>2
  <2> QED
    BY <1>6, <2>1, <2>2, <2>3
<1>8. /\ \A s \in Request \ {r} : task'[s] = task[s]
      /\ \/ task'[r].pc = "publish" /\ ~task'[r].second
         \/ Stops(r)
  <2>1. \/ task' = [task EXCEPT ![r].pc = "publish", ![r].ok = ok]
        \/ Ends(r)
    BY DEF EndCluster
  <2>2. CASE task' = [task EXCEPT ![r].pc = "publish", ![r].ok = ok]
    <3>1. task[r] \in TaskRec /\ ~task[r].second
      BY <1>0, <1>2 DEF Known, Command
    <3>2. task'[r].pc = "publish" /\ task'[r].second = task[r].second
      BY <1>0, <2>2, <3>1 DEF TypeOK, TaskRec
    <3> QED
      BY <1>0, <2>2, <3>1, <3>2 DEF TypeOK
  <2>3. CASE Ends(r)
    BY <1>0, <2>3, EndsStops
  <2> QED
    BY <2>1, <2>2, <2>3
<1>9. Command(r) = req[r].kind /\ req[r].kind \in {"create", "register"}
  BY <1>0, <1>2, CommandIs
<1>10. LcmGoes(r) /\ Checked(r)
  BY <1>1, <1>2, <1>6, <1>8 DEF LcmGoes, Checked
<1> QED
  BY <1>1, <1>2, <1>7, <1>8, <1>9, <1>10 DEF ClusterEnds

\* Publish.
LEMMA PublishPublishes ==
    ASSUME NEW r \in Request, Known(r), TypeOK', NEW to, Publish(r, to)
    PROVE  LcmGoes(r) /\ Publishes(r)
<1>0. TypeOK
  BY DEF Known
<1>1. Stops(r) /\ \A s \in Request \ {r} : task'[s] = task[s]
  BY <1>0, EndsStops DEF Publish
<1>2. LcmGoes(r)
  BY <1>1 DEF LcmGoes, Publish, extVars, TaskIsLive, TypeOK
<1>3. \A c \in Cluster : old'[c] = old[c] \/ (c = req[r].item /\ old[c] # "none")
  BY <1>0 DEF Publish, TypeOK, Item_
<1> QED
  BY <1>1, <1>2, <1>3 DEF Publishes, Publish, extVars

\* EndDeregister.
LEMMA EndDeregisters ==
    ASSUME NEW r \in Request, Known(r), TypeOK', NEW ok \in BOOLEAN,
           EndDeregister(r, ok)
    PROVE  LcmGoes(r) /\ Deregisters(r)
<1> DEFINE i == req[r].item
           d == items[i]
           e == AfterCheck(r, ok)
<1>0. TypeOK /\ i \in Item /\ OnPath(r) /\ Suits(r) /\ req[r].pc # "free"
  BY DEF Known
<1>1. /\ task[r].pc = "check" /\ There(i) /\ TaskIsLive(r)
      /\ e \in ItemRec /\ e.state = task[r].doc.state
      /\ e.hist[r] \in {"COMPLETED", "FAILED"}
      /\ e.life = d.life /\ e.created = d.created /\ e.inUse = d.inUse
      /\ e.links = CASE Command(r) = "add" -> d.links \cup {req[r].arg}
                     [] Command(r) = "remove" -> d.links \ {req[r].arg}
                     [] Command(r) = "edit" /\ i \in Ksu ->
                          (d.links \ Oka) \cup {req[r].arg}
                     [] OTHER -> d.links
  <2>1. CheckEnds(r, ok)
    BY DEF EndDeregister
  <2> HIDE DEF e, d
  <2> QED
    BY <2>1, CheckedFields DEF e, d
<1>2. /\ Command(r) = "deregister"
      /\ req' = req /\ inbox' = inbox /\ late' = late
      /\ old' = old /\ attached' = attached /\ task'[r] \in TaskRec
  BY DEF EndDeregister, extVars, TypeOK
<1>3. SameShape(e, d)
  <2> HIDE DEF e, d
  <2> QED
    BY <1>1, <1>2 DEF SameShape
<1>4. /\ items' = [items EXCEPT ![i] = e]
      /\ task' = [task EXCEPT ![r] = [NoTask EXCEPT
                                !.pc = "scheduled", !.second = TRUE]]
  BY <1>1 DEF EndDeregister, Item_
<1> HIDE DEF e
<1>5. items'[i] = e /\ \A j \in Item \ {i} : items'[j] = items[j]
  BY <1>0, <1>4 DEF TypeOK
<1>6. /\ task'[r].pc = "scheduled" /\ task'[r].second
      /\ \A s \in Request \ {r} : task'[s] = task[s]
  BY <1>0, <1>4 DEF TypeOK, NoTask
<1>7. Own(r)
  BY <1>1, <1>3, <1>5 DEF Own
<1>8. i \in Cluster
  BY <1>0, <1>2, CommandIs DEF Suits
<1> QED
  BY <1>1, <1>2, <1>5, <1>6, <1>7, <1>8 DEF LcmGoes, Checked, Deregisters

\* The deletes.
LEMMA EndRemoves ==
    ASSUME NEW r \in Request, Known(r), TypeOK', NEW ok \in BOOLEAN,
           \/ EndDelete(r, ok) \/ EndDeleteKsu(r, ok)
           \/ EndDeleteCluster(r, ok)
    PROVE  LcmGoes(r) /\ Removes(r)
<1>0. TypeOK
  BY DEF Known
<1>1. /\ Ends(r) /\ TaskIsLive(r)
      /\ req' = req /\ inbox' = inbox /\ late' = late
  BY DEF EndDelete, EndDeleteKsu, EndDeleteCluster, CheckEnds, TaskIsLive, extVars
<1>2. Stops(r) /\ \A s \in Request \ {r} : task'[s] = task[s]
  BY <1>0, <1>1, EndsStops
<1> QED
  BY <1>1, <1>2 DEF LcmGoes, Removes, TypeOK

\* Every step of a coroutine is one of these.
LcmEffect(r) ==
    \/ Begins(r) \/ Launches(r) \/ Polls(r) \/ Closes(r) \/ Progresses(r)
    \/ Completes(r) \/ ClusterEnds(r) \/ Publishes(r) \/ Deregisters(r)
    \/ Removes(r)

LEMMA LcmStepHasEffect ==
    ASSUME NEW r \in Request, Known(r), TypeOK', Undisturbed',
           LcmStep(r) \/ CheckProgress(r)
    PROVE  LcmGoes(r) /\ LcmEffect(r)
<1>1. CASE Start(r)
  BY <1>1, StartBegins DEF LcmEffect
<1>2. ASSUME NEW ok \in BOOLEAN,
             \/ Launch(r, ok) \/ Poll(r, ok) \/ EndItem(r, ok)
             \/ EndCluster(r, ok) \/ EndDeregister(r, ok) \/ EndDelete(r, ok)
             \/ EndDeleteKsu(r, ok) \/ EndDeleteCluster(r, ok)
      PROVE  LcmGoes(r) /\ LcmEffect(r)
  <2>1. CASE Launch(r, ok)
    BY <2>1, LaunchLaunches DEF LcmEffect
  <2>2. CASE Poll(r, ok)
    BY <2>2, PollPolls DEF LcmEffect
  <2>3. CASE EndItem(r, ok)
    BY <2>3, EndCompletes DEF LcmEffect
  <2>4. CASE EndCluster(r, ok)
    BY <2>4, EndClusterEnds DEF LcmEffect
  <2>5. CASE EndDeregister(r, ok)
    BY <2>5, EndDeregisters DEF LcmEffect
  <2>6. CASE EndDelete(r, ok) \/ EndDeleteKsu(r, ok) \/ EndDeleteCluster(r, ok)
    BY <2>6, EndRemoves DEF LcmEffect
  <2> QED
    BY <1>2, <2>1, <2>2, <2>3, <2>4, <2>5, <2>6
<1>3. CASE Finish(r) \/ EndGetCreds(r)
  BY <1>3, EndCloses DEF LcmEffect
<1>4. CASE \E to \in {"ENABLED", "ERROR"} : Publish(r, to)
  BY <1>4, PublishPublishes DEF LcmEffect
<1>5. CASE CheckProgress(r)
  BY <1>5, CheckProgresses DEF LcmEffect
<1> QED
  BY <1>1, <1>2, <1>3, <1>4, <1>5 DEF LcmStep

-----------------------------------------------------------------------------
(* The steps of LCM keep a careful client's view                            *)

\* A coroutine has a record.
LEMMA LiveThere ==
    ASSUME NEW r \in Request, Known(r), TaskIsLive(r)
    PROVE  There(req[r].item)
<1>1. Asked(r) \/ Working(r) \/ task[r].pc = "publish"
  BY DEF Known, TaskRec, TaskIsLive, Asked, Working
<1> QED
  BY <1>1 DEF Known, Present, There

\* Only one coroutine moves.
LEMMA LcmGoesAlone ==
    ASSUME NEW r \in Request, LcmGoes(r) PROVE Goes(r)
BY DEF LcmGoes, Goes

\* A coroutine that keeps the shape of the records, and whose copies agree.
LEMMA ShapeStepFits ==
    ASSUME NEW r \in Request, Known(r), LcmGoes(r),
           \A j \in Item : /\ SameShape(items'[j], items[j])
                           /\ items'[j] = items[j] \/ There(j),
           \A c \in Cluster : old'[c] = old[c] \/ There(c),
           task'[r].second => req[r].kind = "deregister",
           task'[r].pc = "scheduled" =>
              /\ items'[req[r].item].hist[r] # "absent"
              /\ req[r].kind = "deregister",
           Working(r)' =>
              /\ req[r].with = {} /\ task'[r].doc.hist[r] # "absent"
              /\ SameShape(task'[r].doc, items[req[r].item])
              /\ req[r].item \in Cluster =>
                   SameShape(task'[r].first, items[req[r].item])
    PROVE  Client'
<1> DEFINE q == req[r]
           d == items[q.item]
<1>0. /\ q.pc \notin {"free", "read", "written"} /\ r \notin inbox'
      /\ req' = req /\ q.item \in Item /\ late' = {}
      /\ \A j \in Profile : j \in Item
  BY DEF Known, LcmGoes, Item
<1>1. Goes(r) /\ InOrder /\ RecordsFit /\ Open(r)
  BY LcmGoesAlone DEF Known
<1>2. OnPath(r)' /\ Suits(r)'
  <2>1. Suits(r)'
    BY <1>0 DEF Known, Suits, IsDefault
  <2> QED
    BY <1>0, <2>1 DEF OnPath
<1>3. RecordsFit'
  BY <1>1, HistoryGoesOn, ShapesFit
<1>4. /\ \A j \in Item : There(j)' <=> There(j)
      /\ \A j \in Item : items'[j].links = items[j].links
      /\ \A j \in Item : items'[j].inUse = items[j].inUse
  BY DEF SameShape, There
<1>5. Reading(r)' /\ Fresh(r)'
  BY <1>0 DEF Reading, Fresh
<1>6. There(q.item)
  BY LiveThere DEF LcmGoes
<1>7. Present(r)'
  <2>1. There(q.item)'
    BY <1>0, <1>4, <1>6
  <2>2. Asked(r)' => items'[q.item].hist[r] # "absent"
    BY <1>0 DEF Asked
  <2> QED
    BY <1>0, <2>1, <2>2 DEF Present, There
<1>8. Argued(r)'
  <2>1. Argued(r) /\ Suits(r) /\ Named /\ Open(r)
    BY DEF Known
  <2>2. /\ q.kind \in {"add", "remove", "move"} => q.arg \in Item
        /\ q.kind = "edit" /\ q.item \in Ksu => q.arg \in Item
    BY <1>0, <2>1 DEF Suits, Named, Item
  <2>3. q.kind = "add" => There(q.arg)'
    BY <1>0, <1>4, <2>1, <2>2 DEF Argued
  <2>4. q.kind = "edit" /\ q.item \in Ksu => There(q.arg)'
    BY <1>0, <1>4, <2>1, <2>2 DEF Argued
  <2>5. q.kind = "remove" =>
           q.arg \in items'[q.item].links /\ (IsDefault(q.arg) => ~There(q.arg)')
    BY <1>0, <1>4, <2>1, <2>2 DEF Argued
  <2>6. q.kind = "delete" /\ q.item \in Profile => Listing(q.item)' = {}
    <3>1. \A c \in Cluster : c \in Item
      BY DEF Item
    <3>2. Listing(q.item)' = Listing(q.item)
      BY <1>0, <1>4, <3>1 DEF Listing, There
    <3> QED
      BY <2>1, <3>2 DEF Argued
  <2>7. q.kind = "delete" /\ q.item \in Oka => ~items'[q.item].inUse
    BY <1>0, <1>4, <2>1 DEF Argued
  <2>8. ~(q.kind = "create" /\ Asked(r)')
    BY <1>0 DEF Asked
  <2> QED
    BY <1>0, <2>3, <2>4, <2>5, <2>6, <2>7, <2>8 DEF Argued, IsDefault
<1>9. Holding(r)'
  <2>1. \A e : SameShape(e, d) => SameShape(e, items'[q.item])
    BY <1>0 DEF SameShape
  <2> QED
    BY <1>0, <2>1 DEF Holding
<1>10. StageFits(r)'
  BY <1>5, <1>7, <1>8, <1>9 DEF StageFits
<1> QED
  BY <1>0, <1>1, <1>2, <1>3, <1>10, StepFits

\* The last step of a coroutine, of a command that adds nothing to k8sclusters.
LEMMA EndingFits ==
    ASSUME NEW r \in Request, Known(r), LcmGoes(r), Stops(r),
           req[r].kind \notin {"create", "register"} \/ req[r].item \notin Cluster,
           RecordsFit'
    PROVE  Client'
<1>0. /\ req[r].pc \notin {"free", "read", "written"} /\ r \notin inbox'
      /\ req' = req /\ late' = {} /\ Suits(r) /\ InOrder
      /\ Open(r)
  BY DEF Known, LcmGoes
<1>1. Goes(r)
  BY LcmGoesAlone
<1>2. req[r].pc # "old"
  BY <1>0 DEF Suits
<1>3. ~Open(r)'
  BY <1>0, <1>2 DEF Open, TaskIsLive, Stops
<1>4. StageFits(r)'
  BY <1>3, IdleFits
<1>5. OnPath(r)' /\ Suits(r)'
  <2>1. Suits(r)'
    BY <1>0 DEF Suits, IsDefault
  <2> QED
    BY <1>0, <2>1 DEF OnPath, Stops
<1> QED
  BY <1>0, <1>1, <1>4, <1>5, StepFits

\* A step that changes its own record only.
LEMMA OwnShape ==
    ASSUME NEW r \in Request, Own(r)
    PROVE  /\ \A j \in Item : /\ SameShape(items'[j], items[j])
                              /\ items'[j] = items[j] \/ There(j)
           /\ There(req[r].item)
BY DEF Own, SameShape

\* Start, Launch, Poll, Finish, EndGetCreds, CheckProgress, EndCluster, Publish
\* and EndDeregister keep the shape of all records.
LEMMA ShapeEffectsFit ==
    ASSUME NEW r \in Request, Known(r), LcmGoes(r),
           \/ Begins(r) \/ Launches(r) \/ Polls(r) \/ Closes(r) \/ Progresses(r)
           \/ ClusterEnds(r) \/ Publishes(r) \/ Deregisters(r)
    PROVE  Client'
<1> DEFINE q == req[r]
           d == items[q.item]
           Unshaped == \A j \in Item : /\ SameShape(items'[j], items[j])
                                       /\ items'[j] = items[j] \/ There(j)
           OldFits == \A c \in Cluster : old'[c] = old[c] \/ There(c)
           Copies == Working(r)' =>
                       /\ q.with = {} /\ task'[r].doc.hist[r] # "absent"
                       /\ SameShape(task'[r].doc, d)
                       /\ q.item \in Cluster => SameShape(task'[r].first, d)
<1>0. /\ TaskIsLive(r) /\ OnPath(r) /\ Holding(r)
      /\ task[r].second => q.kind = "deregister"
  BY DEF LcmGoes, Known, OnPath
<1>1. There(q.item)
  BY <1>0, LiveThere
<1>2. Working(r) => /\ q.with = {} /\ task[r].doc.hist[r] # "absent"
                    /\ SameShape(task[r].doc, d)
                    /\ q.item \in Cluster => SameShape(task[r].first, d)
  BY <1>0 DEF Holding
<1>3. items' = items => Unshaped
  BY DEF SameShape
<1>4. Own(r) => Unshaped
  BY OwnShape
<1>5. old' = old => OldFits
  OBVIOUS
<1>6. SUFFICES /\ Unshaped /\ OldFits /\ Copies
               /\ task'[r].second => q.kind = "deregister"
               /\ task'[r].pc = "scheduled" =>
                    /\ items'[q.item].hist[r] # "absent"
                    /\ q.kind = "deregister"
  BY ShapeStepFits
<1>7. CASE Begins(r)
  <2>1. Own(r) /\ old' = old
    BY <1>7 DEF Begins
  <2>2. CASE Stops(r)
    BY <1>4, <1>5, <2>1, <2>2 DEF Stops, Working
  <2>3. CASE /\ task'[r].pc = IF Command(r) = "get_creds" THEN "check" ELSE "launch"
             /\ task'[r].second = task[r].second /\ q.with = {}
             /\ task'[r].doc = items'[q.item]
             /\ q.item \in Cluster => task'[r].first = items'[q.item]
    <3>1. SameShape(items'[q.item], d) /\ items'[q.item].hist[r] # "absent"
      BY <1>7 DEF Begins, Own
    <3> QED
      BY <1>0, <1>4, <1>5, <2>1, <2>3, <3>1
  <2> QED
    BY <1>7, <2>2, <2>3 DEF Begins
<1>8. CASE Launches(r)
  <2>1. Unshaped /\ OldFits
    BY <1>3, <1>4, <1>5, <1>8 DEF Launches
  <2>2. Working(r)
    BY <1>8 DEF Launches, Working
  <2>3. \/ Stops(r)
        \/ GoesOn(r, "poll") /\ task'[r].doc = task[r].doc
    BY <1>8 DEF Launches
  <2> QED
    BY <1>0, <1>2, <2>1, <2>2, <2>3 DEF Stops, GoesOn, Working
<1>9. CASE Polls(r)
  <2> DEFINE e == items'[q.item]
  <2>1. Unshaped /\ OldFits /\ SameShape(e, d)
    BY <1>4, <1>5, <1>9 DEF Polls, Own
  <2>2. Working(r)
    BY <1>9 DEF Polls, Working
  <2>3. \/ Stops(r)
        \/ /\ GoesOn(r, "check") \/ GoesOn(r, "finish")
           /\ task'[r].doc = e /\ e.hist[r] # "absent"
    BY <1>2, <1>9, <2>2 DEF Polls
  <2> HIDE DEF e, d
  <2> QED
    BY <1>0, <1>2, <2>1, <2>2, <2>3 DEF Stops, GoesOn, Working
<1>10. CASE Closes(r)
  BY <1>4, <1>5, <1>10 DEF Closes, Stops, Working
<1>11. CASE Progresses(r)
  <2>1. Unshaped /\ OldFits /\ task' = task /\ Working(r)
        /\ task[r].pc = "check"
    BY <1>4, <1>5, <1>11 DEF Progresses, Working
  <2> QED
    BY <1>0, <1>2, <2>1
<1>12. CASE ClusterEnds(r)
  <2>1. Unshaped /\ OldFits
    BY <1>5, <1>12 DEF ClusterEnds
  <2>2. task'[r].pc \in {"publish", "over"} /\ ~task'[r].second
    BY <1>12 DEF ClusterEnds, Stops
  <2> QED
    BY <2>1, <2>2 DEF Working
<1>13. CASE Publishes(r)
  <2>1. Unshaped /\ OldFits
    BY <1>1, <1>3, <1>13 DEF Publishes
  <2> QED
    BY <1>13, <2>1 DEF Publishes, Stops, Working
<1>14. CASE Deregisters(r)
  <2>1. /\ Unshaped /\ OldFits /\ q.kind = "deregister"
        /\ task'[r].pc = "scheduled"
    BY <1>0, <1>4, <1>5, <1>14, CommandIs DEF Deregisters
  <2>2. items'[q.item].hist[r] # "absent"
    BY <1>14 DEF Deregisters, Checked
  <2> QED
    BY <2>1, <2>2 DEF Working
<1> QED
  BY <1>7, <1>8, <1>9, <1>10, <1>11, <1>12, <1>13, <1>14

\* What is left of a record that is removed.
LEMMA NoLongerFields ==
    ASSUME NEW doc
    PROVE  LET e == NoLonger(doc)
           IN /\ e.life = "gone" /\ e.links = {} /\ ~e.inUse
              /\ e.created = doc.created
<1>1. NoRecord \in [life : {"new"}, state : {"PENDING"},
                    operating : {"PROCESSING"}, resource : {"IN_PROGRESS"},
                    current : {NoRequest}, hist : {NoRecord.hist},
                    links : {{}}, inUse : {FALSE}, created : {FALSE}]
  BY DEF NoRecord
<1> QED
  BY <1>1 DEF NoLonger

\* Records that are removed, as NBI and LCM remove them, leave the others fit.
LEMMA RemovalFits ==
    ASSUME RecordsFit, OwnDefaults' => OwnDefaults, NoForce' => NoForce,
           NEW I \in SUBSET Item,
           \A j \in I : items'[j] = NoLonger(items[j]),
           \A j \in Item \ I :
              /\ items'[j].life = items[j].life
              /\ items'[j].created = items[j].created
              /\ items'[j].links \subseteq items[j].links
              /\ items'[j] = items[j] \/ There(j),
           \A p \in I \cap Profile : There(p),
           KsusOf(I \cap Profile) \subseteq I,
           OwnDefaults' => \A c \in Cluster \ I : items'[c].links \cap I = {},
           \A c \in Cluster \ I :
              There(c) /\ There(Default[c]) /\ Default[c] \notin I =>
                 Default[c] \in items'[c].links,
           \A c \in Cluster : old'[c] = old[c] \/ c \in I \/ There(c),
           NoForce' => \A c \in Cluster \cap I :
              old'[c] = "none" /\ (There(Default[c]) => Default[c] \in I)
    PROVE  RecordsFit'
<1>0. /\ Cluster \subseteq Item /\ Profile \subseteq Item /\ Ksu \subseteq Item
      /\ Cluster \cap Profile = {} /\ Cluster \cap Ksu = {}
      /\ Profile \cap Ksu = {} /\ Profile \cap Oka = {} /\ Ksu \cap Oka = {}
  BY GitOpsAssumption DEF Item
<1>1. /\ NewIsEmpty /\ Linked /\ Listed /\ ListsExist /\ DefaultsListed
      /\ Emptied
  BY DEF RecordsFit
<1>2. \A j \in I : /\ items'[j].life = "gone" /\ items'[j].links = {}
                   /\ ~items'[j].inUse /\ items'[j].created = items[j].created
                   /\ ~There(j)'
  BY NoLongerFields DEF There
<1>3. \A j \in Item \ I : There(j)' <=> There(j)
  BY DEF There
<1>4. NewIsEmpty'
  <2> SUFFICES ASSUME NEW j \in Item, items'[j].life = "new"
               PROVE  items'[j] = NoRecord
    BY DEF NewIsEmpty
  <2>1. j \notin I /\ items[j].life = "new"
    BY <1>2
  <2> QED
    BY <1>1, <2>1 DEF NewIsEmpty, There
<1>5. \A j \in Item : items'[j].links \subseteq items[j].links
  BY <1>2
<1>6. Linked'
  <2>1. \A j \in Item : ~There(j)' => items'[j].links = {} /\ ~items'[j].inUse
    BY <1>1, <1>2, <1>3 DEF Linked
  <2>2. \A c \in Cluster : items'[c].links \subseteq Profile
    BY <1>0, <1>1, <1>5 DEF Linked
  <2>3. \A k \in Ksu : items'[k].links \subseteq Profile \cup Oka
    BY <1>0, <1>1, <1>5 DEF Linked
  <2>4. ASSUME NEW k \in Ksu, NEW p \in items'[k].links \cap Profile
        PROVE  There(p)'
    <3>1. p \in items[k].links \cap Profile /\ There(p) /\ k \in Item
      BY <1>0, <1>1, <1>5 DEF Linked
    <3>2. k \notin I
      BY <1>2
    <3>3. There(k)
      BY <1>1, <3>1 DEF Linked
    <3>4. p \notin I
      BY <3>1, <3>2, <3>3 DEF KsusOf
    <3> QED
      BY <1>0, <1>3, <3>1, <3>4
  <2> QED
    BY <2>1, <2>2, <2>3, <2>4 DEF Linked
<1>7. ListsExist'
  <2> SUFFICES ASSUME OwnDefaults', NEW c \in Cluster, NEW p \in items'[c].links
               PROVE  There(p)' /\ (IsDefault(p) => p = Default[c])
    BY DEF ListsExist, IsDefault
  <2>1. c \in Item /\ c \notin I /\ p \in items[c].links
    BY <1>0, <1>2, <1>5
  <2>2. There(p) /\ (IsDefault(p) => p = Default[c])
    BY <1>1, <2>1 DEF ListsExist
  <2>3. p \in Item /\ p \notin I
    BY <1>0, <1>1, <2>1 DEF Linked
  <2> QED
    BY <1>3, <2>2, <2>3
<1>8. DefaultsListed'
  <2> SUFFICES ASSUME NEW c \in Cluster
               PROVE  /\ There(c)' /\ There(Default[c])' =>
                            Default[c] \in items'[c].links
                      /\ ~items'[c].created => items'[Default[c]].life = "new"
    BY DEF DefaultsListed
  <2>1. c \in Item /\ Default[c] \in Item /\ Default[c] \in Profile
    BY <1>0, DefaultInItem
  <2>2. There(c)' /\ There(Default[c])' => Default[c] \in items'[c].links
    BY <1>2, <1>3, <2>1
  <2>3. items'[c].created = items[c].created
    BY <1>2, <2>1
  <2>4. items[Default[c]].life = "new" => Default[c] \notin I
    BY <2>1 DEF There
  <2>5. items[Default[c]].life = "new" => items'[Default[c]].life = "new"
    BY <2>1, <2>4
  <2> QED
    BY <1>1, <2>2, <2>3, <2>5 DEF DefaultsListed
<1>9. Emptied'
  <2> SUFFICES ASSUME NEW c \in Cluster
               PROVE  /\ items'[c].life = "new" => old'[c] = "none"
                      /\ NoForce' /\ items'[c].life = "gone" =>
                           old'[c] = "none" /\ ~There(Default[c])'
    BY DEF Emptied
  <2>1. c \in Item /\ Default[c] \in Item
    BY <1>0, DefaultInItem
  <2>2. There(Default[c])' => There(Default[c]) /\ Default[c] \notin I
    BY <1>2, <1>3, <2>1
  <2>3. CASE c \in I
    BY <1>2, <2>2, <2>3
  <2>4. CASE c \notin I
    <3>1. items'[c].life = items[c].life
      BY <2>1, <2>4
    <3>2. items[c].life # "there" => old'[c] = old[c]
      BY <2>4 DEF There
    <3> QED
      BY <1>1, <2>2, <3>1, <3>2 DEF Emptied
  <2> QED
    BY <2>3, <2>4
<1>10. Listed'
  <2>1. \A j \in Item : items'[j].life = "new" => items[j].life = "new"
    BY <1>2
  <2> QED
    BY <1>1, <1>5, <2>1 DEF Listed
<1> QED
  BY <1>4, <1>6, <1>7, <1>8, <1>9, <1>10 DEF RecordsFit

\* EndItem keeps the records fit.
LEMMA CompletesFits ==
    ASSUME NEW r \in Request, Known(r), LcmGoes(r), Completes(r)
    PROVE  Client'
<1> DEFINE q == req[r]
           i == q.item
           d == items[i]
           e == items'[i]
<1>0. /\ Cluster \subseteq Item /\ Profile \subseteq Item /\ Ksu \subseteq Item
      /\ Cluster \cap Profile = {} /\ Cluster \cap Ksu = {}
      /\ Profile \cap Ksu = {} /\ Profile \cap Oka = {} /\ Ksu \cap Oka = {}
  BY GitOpsAssumption DEF Item
<1>1. /\ OnPath(r) /\ Suits(r) /\ Argued(r) /\ Named /\ Open(r) /\ InOrder
      /\ RecordsFit /\ i \in Item /\ q.pc # "free"
  BY DEF Known
<1>2. /\ Stops(r) /\ old' = old /\ There(i)
      /\ \A j \in Item \ {i} : items'[j] = items[j]
      /\ e.life = d.life /\ e.created = d.created /\ e.inUse = d.inUse
      /\ e.links = CASE Command(r) = "add" -> d.links \cup {q.arg}
                     [] Command(r) = "remove" -> d.links \ {q.arg}
                     [] Command(r) = "edit" /\ i \in Ksu ->
                          (d.links \ Oka) \cup {q.arg}
                     [] OTHER -> d.links
      /\ \/ Command(r) \in {"edit", "add", "remove", "update"}
         \/ Command(r) = "create" /\ i \notin Cluster
  <2> HIDE DEF d, e
  <2>1. Completes(r)
    OBVIOUS
  <2> QED
    BY <2>1 DEF Completes, Checked, d, e
<1>3. /\ Command(r) = q.kind
      /\ q.kind \notin {"create", "register"} \/ i \notin Cluster
  BY <1>1, <1>2, CommandIs
<1>4. /\ OwnDefaults' => OwnDefaults
      /\ NoForce' => NoForce
  BY <1>1, LcmGoesAlone, HistoryGoesOn
<1>5. RecordsFit'
  <2>1. /\ NewIsEmpty /\ Linked /\ Listed /\ ListsExist /\ DefaultsListed
        /\ Emptied
    BY <1>1 DEF RecordsFit
  <2>2. \A j \in Item : There(j)' <=> There(j)
    BY <1>2 DEF There
  <2>3. \A j \in Item : items'[j].life = items[j].life
                        /\ items'[j].created = items[j].created
                        /\ items'[j].inUse = items[j].inUse
    BY <1>2
  <2>4. CASE Command(r) = "add"
    <3>1. i \in Cluster /\ q.arg \in Profile /\ There(q.arg)
      BY <1>1, <1>3, <2>4 DEF Suits, Argued
    <3>2. e.links = d.links \cup {q.arg}
      BY <1>2, <2>4
    <3>3. OwnDefaults => ~IsDefault(q.arg)
      BY <1>3, <2>4 DEF OwnDefaults
    <3>4. NewIsEmpty'
      BY <1>2, <2>1 DEF NewIsEmpty, There
    <3>5. Linked'
      BY <1>0, <1>2, <2>1, <2>2, <2>3, <3>1, <3>2 DEF Linked
    <3>6. ListsExist'
      <4> SUFFICES ASSUME OwnDefaults', NEW c \in Cluster, NEW p \in items'[c].links
                   PROVE  There(p)' /\ (IsDefault(p) => p = Default[c])
        BY DEF ListsExist, IsDefault
      <4>1. \/ p \in items[c].links
            \/ p = q.arg
        BY <1>0, <1>2, <3>2
      <4>2. There(p) /\ (IsDefault(p) => p = Default[c]) /\ p \in Item
        BY <1>0, <1>4, <2>1, <3>1, <3>3, <4>1 DEF ListsExist, Linked
      <4> QED
        BY <2>2, <4>2
    <3>7. DefaultsListed'
      <4>1. \A c \in Cluster : items[c].links \subseteq items'[c].links
        BY <1>0, <1>2, <3>2
      <4> QED
        BY <1>0, <2>1, <2>2, <2>3, <4>1, DefaultInItem DEF DefaultsListed
    <3>8. Emptied'
      BY <1>0, <1>2, <1>4, <2>1, <2>2, <2>3, DefaultInItem DEF Emptied
    <3>9. Listed'
      <4>1. \A j \in Item : items'[j].links \subseteq items[j].links \cup {q.arg}
        BY <1>2, <3>2
      <4>2. q.arg \in Item /\ items[q.arg].life # "new"
        BY <1>0, <3>1 DEF There, Item
      <4> QED
        BY <2>1, <2>3, <4>1, <4>2 DEF Listed
    <3> QED
      BY <3>4, <3>5, <3>6, <3>7, <3>8, <3>9 DEF RecordsFit
  <2>5. CASE Command(r) = "edit" /\ i \in Ksu
    <3>1. q.arg \in Oka /\ There(q.arg)
      BY <1>1, <1>3, <2>5 DEF Named, Argued
    <3>2. e.links = (d.links \ Oka) \cup {q.arg}
      BY <1>2, <2>5
    <3>3. \A c \in Cluster : items'[c] = items[c]
      BY <1>0, <1>2, <2>5
    <3>4. NewIsEmpty'
      BY <1>2, <2>1 DEF NewIsEmpty, There
    <3>5. Linked'
      <4>1. \A j \in Item : ~There(j)' => items'[j].links = {} /\ ~items'[j].inUse
        BY <1>2, <2>1, <2>2 DEF Linked
      <4>2. \A c \in Cluster : items'[c].links \subseteq Profile
        BY <2>1, <3>3 DEF Linked
      <4>3. \A k \in Ksu : items'[k].links \subseteq Profile \cup Oka
        BY <1>0, <1>2, <2>1, <2>5, <3>1, <3>2 DEF Linked
      <4>4. \A k \in Ksu : items'[k].links \cap Profile \subseteq
                             items[k].links \cap Profile
        BY <1>0, <1>2, <3>1, <3>2
      <4>5. \A k \in Ksu : \A p \in items'[k].links \cap Profile : There(p)'
        BY <1>0, <2>1, <2>2, <4>4 DEF Linked
      <4> QED
        BY <4>1, <4>2, <4>3, <4>5 DEF Linked
    <3>6. ListsExist'
      <4> SUFFICES ASSUME OwnDefaults', NEW c \in Cluster, NEW p \in items'[c].links
                   PROVE  There(p)' /\ (IsDefault(p) => p = Default[c])
        BY DEF ListsExist, IsDefault
      <4>1. p \in items[c].links /\ p \in Item
        BY <1>0, <2>1, <3>3 DEF Linked
      <4> QED
        BY <1>4, <2>1, <2>2, <4>1 DEF ListsExist
    <3>7. DefaultsListed'
      BY <1>0, <2>1, <2>2, <2>3, <3>3, DefaultInItem DEF DefaultsListed
    <3>8. Emptied'
      BY <1>0, <1>2, <1>4, <2>1, <2>2, <2>3, DefaultInItem DEF Emptied
    <3>9. Listed'
      <4>1. \A j \in Item : items'[j].links \subseteq items[j].links \cup {q.arg}
        BY <1>2, <3>2
      <4>2. q.arg \in Item /\ items[q.arg].life # "new"
        BY <1>0, <3>1 DEF There, Item
      <4> QED
        BY <2>1, <2>3, <4>1, <4>2 DEF Listed
    <3> QED
      BY <3>4, <3>5, <3>6, <3>7, <3>8, <3>9 DEF RecordsFit
  <2>6. CASE Command(r) # "add" /\ ~(Command(r) = "edit" /\ i \in Ksu)
    <3>1. e.links = IF Command(r) = "remove" THEN d.links \ {q.arg} ELSE d.links
      BY <1>2, <2>6
    <3>2. ASSUME NEW c \in Cluster, There(Default[c]), There(c)
          PROVE  Default[c] \in items'[c].links
      <4>1. Default[c] \in items[c].links
        BY <2>1, <3>2 DEF DefaultsListed
      <4>2. CASE c # i
        BY <1>0, <1>2, <4>1, <4>2
      <4>3. CASE c = i
        <5>1. Command(r) = "remove" => q.arg # Default[c]
          BY <1>1, <1>3, <3>2 DEF Argued, IsDefault
        <5> QED
          BY <3>1, <4>1, <4>3, <5>1
      <4> QED
        BY <4>2, <4>3
    <3>3. \A j \in Item : items'[j].links \subseteq items[j].links
      BY <1>2, <3>1
    <3>4. \A j \in Item : items'[j] = items[j] \/ There(j)
      BY <1>2
    <3> DEFINE I == {}
    <3>5. I \in SUBSET Item /\ KsusOf(I \cap Profile) \subseteq I
      BY DEF KsusOf
    <3> HIDE DEF d, e
    <3> QED
      BY <1>1, <1>2, <1>4, <2>3, <3>2, <3>3, <3>4, <3>5, RemovalFits
  <2> QED
    BY <2>4, <2>5, <2>6
<1> QED
  BY <1>2, <1>3, <1>5, EndingFits

\* Removing some records, and nothing else.
LEMMA GoneFields ==
    ASSUME NEW I, items' = Gone(I)
    PROVE  /\ \A j \in Item \cap I : items'[j] = NoLonger(items[j])
           /\ \A j \in Item \ I : items'[j] = items[j]
BY DEF Gone

\* EndDelete: a profile and its KSUs, or an OKA.
LEMMA EndDeleteFits ==
    ASSUME NEW r \in Request, Known(r), OwnDefaults' => OwnDefaults,
           NoForce' => NoForce, NEW ok \in BOOLEAN, EndDelete(r, ok)
    PROVE  RecordsFit'
<1> DEFINE i == req[r].item
           I == KsusOf({i} \cap Profile) \cup {i}
<1>0. /\ Cluster \subseteq Item /\ Profile \subseteq Item /\ Ksu \subseteq Item
      /\ Cluster \cap Profile = {} /\ Cluster \cap Ksu = {} /\ Cluster \cap Oka = {}
      /\ Profile \cap Ksu = {} /\ Profile \cap Oka = {} /\ Ksu \cap Oka = {}
  BY GitOpsAssumption DEF Item
<1>1. /\ i \in Item /\ RecordsFit /\ Suits(r) /\ Argued(r) /\ OnPath(r) /\ Open(r)
      /\ req[r].pc # "free"
  BY DEF Known
<1>2. /\ Command(r) = "delete" /\ i \in Profile \cup Oka /\ old' = old
      /\ task[r].pc = "check" /\ TaskIsLive(r)
  BY DEF EndDelete, CheckEnds, Item_, TaskIsLive
<1>3. There(i)
  BY <1>2, LiveThere
<1>4. items' = Gone(I)
  BY <1>3 DEF EndDelete, Item_
<1>5. req[r].kind = "delete"
  BY <1>0, <1>1, <1>2, CommandIs DEF Suits
<1>6. I \subseteq Item /\ I \cap Profile \subseteq {i} /\ I \cap Cluster = {}
  BY <1>0, <1>1, <1>2 DEF KsusOf
<1>7. KsusOf(I \cap Profile) \subseteq I
  BY <1>6 DEF KsusOf
<1>8. I \in SUBSET Item /\ \A p \in I \cap Profile : There(p)
  BY <1>3, <1>6
<1>9. ASSUME NEW c \in Cluster PROVE items[c].links \cap I = {}
  <2>1. c \in Item /\ items[c].links \subseteq Profile
    BY <1>0, <1>1 DEF RecordsFit, Linked
  <2>2. items[c].links \cap I \subseteq {i}
    BY <1>6, <2>1
  <2>3. i \in items[c].links => i \in Profile /\ There(c)
    BY <1>1, <2>1 DEF RecordsFit, Linked
  <2>4. i \in Profile => Listing(i) = {}
    BY <1>1, <1>5 DEF Argued
  <2> QED
    BY <2>2, <2>3, <2>4 DEF Listing
<1> HIDE DEF I
<1>10. /\ \A j \in I : items'[j] = NoLonger(items[j])
       /\ \A j \in Item \ I : items'[j] = items[j]
  BY <1>4, <1>6, GoneFields
<1>11. \A c \in Cluster : c \in Item \ I /\ items'[c] = items[c]
  BY <1>0, <1>6, <1>10
<1>12. \A j \in Item \ I :
          /\ items'[j].life = items[j].life
          /\ items'[j].created = items[j].created
          /\ items'[j].links \subseteq items[j].links
          /\ items'[j] = items[j] \/ There(j)
  BY <1>10
<1>13. \A c \in Cluster \ I :
          There(c) /\ There(Default[c]) /\ Default[c] \notin I =>
             Default[c] \in items'[c].links
  BY <1>1, <1>11 DEF RecordsFit, DefaultsListed
<1>14. \A c \in Cluster \ I : items'[c].links \cap I = {}
  BY <1>9, <1>11
<1>15. \A c \in Cluster : old'[c] = old[c]
  BY <1>2
<1> QED
  BY <1>1, <1>6, <1>7, <1>8, <1>10, <1>12, <1>13, <1>14, <1>15, RemovalFits

\* EndDeleteKsu.
LEMMA EndDeleteKsuFits ==
    ASSUME NEW r \in Request, Known(r), OwnDefaults' => OwnDefaults,
           NoForce' => NoForce, NEW ok \in BOOLEAN, EndDeleteKsu(r, ok)
    PROVE  RecordsFit'
<1>0. /\ Cluster \subseteq Item /\ Profile \subseteq Item /\ Ksu \subseteq Item
      /\ Cluster \cap Profile = {} /\ Cluster \cap Ksu = {} /\ Cluster \cap Oka = {}
      /\ Profile \cap Ksu = {} /\ Profile \cap Oka = {} /\ Ksu \cap Oka = {}
  BY GitOpsAssumption DEF Item
<1>1. req[r].item \in Item /\ RecordsFit
  BY DEF Known
<1>2. PICK I \in SUBSET {req[r].item} : items' = Gone(I)
  <2>1. Gone({}) = items
    BY DEF Gone, Known, TypeOK
  <2>2. items' = items \/ items' = Gone({req[r].item})
    BY DEF EndDeleteKsu, Item_
  <2> QED
    BY <2>1, <2>2
<1>3. req[r].item \in Ksu /\ old' = old
  BY DEF EndDeleteKsu, Item_
<1>4. I \in SUBSET Item /\ I \cap Profile = {} /\ I \cap Cluster = {}
      /\ I \subseteq Ksu
  BY <1>0, <1>1, <1>3
<1>5. KsusOf(I \cap Profile) \subseteq I
  BY <1>4 DEF KsusOf
<1>6. /\ \A j \in I : items'[j] = NoLonger(items[j])
      /\ \A j \in Item \ I : items'[j] = items[j]
  BY <1>2, <1>4, GoneFields
<1>7. \A c \in Cluster : /\ c \in Item \ I /\ items'[c] = items[c]
                         /\ items[c].links \cap I = {}
  BY <1>0, <1>1, <1>4, <1>6 DEF RecordsFit, Linked
<1>8. \A j \in Item \ I :
          /\ items'[j].life = items[j].life
          /\ items'[j].created = items[j].created
          /\ items'[j].links \subseteq items[j].links
          /\ items'[j] = items[j] \/ There(j)
  BY <1>6
<1>9. \A c \in Cluster \ I :
          There(c) /\ There(Default[c]) /\ Default[c] \notin I =>
             Default[c] \in items'[c].links
  BY <1>1, <1>7 DEF RecordsFit, DefaultsListed
<1> QED
  BY <1>1, <1>3, <1>4, <1>5, <1>6, <1>7, <1>8, <1>9, RemovalFits

\* EndDeleteCluster.
LEMMA EndDeleteClusterFits ==
    ASSUME NEW r \in Request, Known(r), TypeOK', OwnDefaults' => OwnDefaults,
           NoForce' => NoForce, req' = req,
           NEW ok \in BOOLEAN, EndDeleteCluster(r, ok)
    PROVE  RecordsFit'
<1> DEFINE c == req[r].item
           d == items[c]
           doc == AfterCheck(r, ok)
           forced == req[r].force /\ ~ok
           I == IF forced THEN {c} ELSE ToRemove(c, doc.links)
<1>0. /\ Cluster \subseteq Item /\ Profile \subseteq Item /\ Ksu \subseteq Item
      /\ Cluster \cap Profile = {} /\ Cluster \cap Ksu = {} /\ Cluster \cap Oka = {}
      /\ Profile \cap Ksu = {} /\ Profile \cap Oka = {} /\ Ksu \cap Oka = {}
  BY GitOpsAssumption DEF Item
<1>1. /\ c \in Item /\ c \in Cluster /\ TypeOK /\ Command(r) = "delete"
      /\ NewIsEmpty /\ Linked /\ ListsExist /\ DefaultsListed /\ Emptied
      /\ RecordsFit
      /\ Default[c] \in Profile /\ Default[c] \in Item
  <2>1. c \in Cluster /\ Command(r) = "delete"
    BY DEF EndDeleteCluster, Item_
  <2> QED
    BY <2>1, DefaultInItem DEF Known, RecordsFit
<1>2. /\ There(c)
      /\ doc.life = d.life /\ doc.created = d.created /\ doc.inUse = d.inUse
      /\ doc.links = d.links
  <2>1. CheckEnds(r, ok)
    BY DEF EndDeleteCluster
  <2> HIDE DEF doc, d, I
  <2> QED
    BY <1>1, <2>1, CheckedFields DEF doc, d
<1>3. PICK S \in SUBSET Detachable(c, d.links) :
         items' = [Gone(I) EXCEPT ![c] = IF c \in I THEN @
                                         ELSE [doc EXCEPT !.links = @ \ S]]
  BY <1>2 DEF EndDeleteCluster, Item_
<1> DEFINE D == d.links \cap {Default[c]}
<1>4. /\ forced => I = {c}
      /\ ~forced /\ (\E p \in D : ~There(p)) => I = {}
      /\ ~forced /\ (\A p \in D : There(p)) =>
            I = D \cup KsusOf(D) \cup IF \A p \in d.links : There(p)
                                        THEN {c} ELSE {}
  BY <1>2 DEF ToRemove
<1>5. doc \in ItemRec
  <2>1. CheckEnds(r, ok)
    BY DEF EndDeleteCluster
  <2> HIDE DEF doc, d, I
  <2> QED
    BY <2>1, CheckedFields DEF doc
<1>6. /\ I \in SUBSET Item /\ I \cap Profile \subseteq D /\ I \cap Cluster \subseteq {c}
      /\ KsusOf(I \cap Profile) \subseteq I
      /\ \A p \in I \cap Profile : There(p)
  <2>1. KsusOf({}) = {} /\ KsusOf(D) \subseteq Ksu
    BY DEF KsusOf
  <2>2. D \subseteq Profile
    BY <1>1
  <2>3. CASE forced \/ \E p \in D : ~There(p)
    <3>1. I \subseteq {c} /\ I \cap Profile = {}
      BY <1>0, <1>1, <1>4, <2>3
    <3> QED
      BY <1>1, <2>1, <3>1
  <2>4. CASE ~forced /\ \A p \in D : There(p)
    <3>1. I = D \cup KsusOf(D) \cup IF \A p \in d.links : There(p)
                                      THEN {c} ELSE {}
      BY <1>4, <2>4
    <3> HIDE DEF I, D
    <3>2. I \cap Profile = D /\ KsusOf(D) \subseteq I
      BY <1>0, <1>1, <2>1, <2>2, <3>1
    <3> QED
      BY <1>0, <1>1, <2>1, <2>2, <2>4, <3>1, <3>2
  <2> QED
    BY <2>3, <2>4
<1>7. c \notin I => \E p \in d.links : ~There(p)
  BY <1>4
<1>8. c \in I /\ ~forced => D \subseteq I /\ \A p \in d.links : There(p)
  <2>1. c \notin D /\ c \notin KsusOf(D)
    BY <1>0, <1>1 DEF KsusOf
  <2> QED
    BY <1>4, <2>1
<1> HIDE DEF I, doc, forced
<1>9. /\ \A j \in I : items'[j] = NoLonger(items[j])
      /\ \A j \in Item \ (I \cup {c}) : items'[j] = items[j]
      /\ c \notin I => items'[c] = [doc EXCEPT !.links = @ \ S]
  BY <1>1, <1>3, <1>6 DEF Gone
<1>10. c \notin I => /\ items'[c].life = d.life /\ items'[c].created = d.created
                     /\ items'[c].links = d.links \ S
  BY <1>2, <1>5, <1>9 DEF ItemRec
<1>11. \A j \in Item \ I :
          /\ items'[j].life = items[j].life
          /\ items'[j].created = items[j].created
          /\ items'[j].links \subseteq items[j].links
          /\ items'[j] = items[j] \/ There(j)
  BY <1>2, <1>9, <1>10
<1>12. OwnDefaults' => \A b \in Cluster \ I : items'[b].links \cap I = {}
  <2> SUFFICES ASSUME OwnDefaults', NEW b \in Cluster \ I, NEW p \in items'[b].links
               PROVE  p \notin I
    OBVIOUS
  <2>1. p \in items[b].links /\ p \in Profile
    BY <1>0, <1>1, <1>11 DEF Linked
  <2>2. There(p) /\ (IsDefault(p) => p = Default[b])
    BY <1>1, <2>1 DEF ListsExist
  <2>3. \A x \in d.links : There(x)
    BY <1>1 DEF ListsExist
  <2>4. c \in I
    BY <1>7, <2>3
  <2>5. Default[b] # Default[c]
    BY <1>1, <2>4, GitOpsAssumption
  <2>6. p # Default[c]
    BY <1>1, <2>2, <2>5 DEF IsDefault
  <2> QED
    BY <1>6, <2>1, <2>6
<1>13. ASSUME NEW b \in Cluster \ I, There(b), There(Default[b]), Default[b] \notin I
       PROVE  Default[b] \in items'[b].links
  <2>1. Default[b] \in items[b].links
    BY <1>1, <1>13 DEF DefaultsListed
  <2>2. CASE b # c
    BY <1>0, <1>9, <2>1, <2>2
  <2>3. CASE b = c
    <3>1. Default[c] \notin S
      BY DEF Detachable
    <3> QED
      BY <1>10, <2>1, <2>3, <3>1
  <2> QED
    BY <2>2, <2>3
<1>14. ASSUME NEW b \in Cluster PROVE old'[b] = old[b] \/ b \in I \/ There(b)
  <2>1. old' = old \/ old' = [old EXCEPT ![c] = "none"]
    BY DEF EndDeleteCluster, Item_
  <2> QED
    BY <1>1, <1>2, <2>1 DEF TypeOK
<1>15. ASSUME NoForce', NEW b \in Cluster \cap I
       PROVE  old'[b] = "none" /\ (There(Default[b]) => Default[b] \in I)
  <2>1. b = c /\ c \in I
    BY <1>6
  <2>2. ~req[r].force
    BY <1>1, <1>15 DEF NoForce
  <2>3. old' = [old EXCEPT ![c] = "none"]
    BY <1>2, <2>1, <2>2 DEF EndDeleteCluster, Item_, I, forced, doc
  <2>4. old'[c] = "none"
    BY <1>1, <2>3 DEF TypeOK
  <2>5. D \subseteq I
    BY <1>8, <2>1, <2>2 DEF forced
  <2>6. There(Default[c]) => Default[c] \in d.links
    BY <1>1, <1>2 DEF DefaultsListed
  <2> QED
    BY <2>1, <2>4, <2>5, <2>6
<1> HIDE DEF d, c
<1> QED
  BY <1>1, <1>6, <1>9, <1>11, <1>12, <1>13, <1>14, <1>15, RemovalFits

\* The deletes keep a careful client's view.
LEMMA RemovesFits ==
    ASSUME NEW r \in Request, Known(r), TypeOK', LcmGoes(r), Removes(r)
    PROVE  Client'
<1>1. /\ InOrder /\ OnPath(r) /\ Suits(r) /\ req' = req /\ req[r].pc # "free"
  BY DEF Known, LcmGoes
<1>2. /\ OwnDefaults' => OwnDefaults
      /\ NoForce' => NoForce
  BY <1>1, LcmGoesAlone, HistoryGoesOn
<1>3. RecordsFit'
  <2>1. PICK ok \in BOOLEAN : \/ EndDelete(r, ok) \/ EndDeleteKsu(r, ok)
                              \/ EndDeleteCluster(r, ok)
    BY DEF Removes
  <2> QED
    BY <1>1, <1>2, <2>1, EndDeleteFits, EndDeleteKsuFits, EndDeleteClusterFits
<1>4. Command(r) = "delete"
  BY DEF Removes, EndDelete, EndDeleteKsu, EndDeleteCluster
<1>5. req[r].kind \notin {"create", "register"}
  BY <1>1, <1>4, CommandIs
<1>6. Stops(r)
  BY DEF Removes
<1> QED
  BY <1>3, <1>5, <1>6, EndingFits

\* A step of a coroutine, in the view of a careful client.
LEMMA LcmKeepsClient ==
    ASSUME NEW r \in Request, Known(r), TypeOK', LcmGoes(r), LcmEffect(r)
    PROVE  Client'
<1>1. CASE Completes(r)
  BY <1>1, CompletesFits
<1>2. CASE Removes(r)
  BY <1>2, RemovesFits
<1>3. CASE \/ Begins(r) \/ Launches(r) \/ Polls(r) \/ Closes(r) \/ Progresses(r)
           \/ ClusterEnds(r) \/ Publishes(r) \/ Deregisters(r)
  BY <1>3, ShapeEffectsFit
<1> QED
  BY <1>1, <1>2, <1>3 DEF LcmEffect

-----------------------------------------------------------------------------
(* The steps of NBI and the bus                                             *)

\* What is known of a request before its step.
Asks(r) ==
    /\ TypeOK /\ Named /\ InOrder /\ RecordsFit /\ late = {}
    /\ OnPath(r) /\ Suits(r)
    /\ Reading(r) /\ Fresh(r) /\ Argued(r) /\ Present(r) /\ Holding(r)
    /\ req[r] \in RequestRec /\ task[r] \in TaskRec

LEMMA ClientAsks ==
    ASSUME GitOpsInv, Client, NEW r \in Request PROVE Asks(r)
<1>1. TypeOK /\ Named
  BY DEF GitOpsInv
<1>2. /\ InOrder /\ RecordsFit /\ late = {} /\ OnPath(r) /\ Suits(r)
      /\ Reading(r) /\ Fresh(r) /\ Argued(r) /\ Present(r) /\ Holding(r)
  BY DEF Client, InOrder, StageFits
<1>3. req[r] \in RequestRec /\ task[r] \in TaskRec
  BY <1>1 DEF TypeOK
<1> QED
  BY <1>1, <1>2, <1>3 DEF Asks

\* A request that goes on while the records stay what they are.
LEMMA StageGoesOn ==
    ASSUME NEW r \in Request, Asks(r), Goes(r), items' = items,
           Open(r), req[r].pc # "free", req'[r].pc \in {"old", "done"},
           Asked(r)' => Asked(r),
           Working(r)' => Working(r) /\ task'[r] = task[r],
           req'[r].pc = "old" \/ task'[r].pc = "publish" =>
              There(req[r].item)
    PROVE  StageFits(r)'
<1>1. /\ req'[r].kind = req[r].kind /\ req'[r].item = req[r].item
      /\ req'[r].with = req[r].with /\ req'[r].arg = req[r].arg
  BY DEF Goes
<1>2. Reading(r)' /\ Fresh(r)'
  BY DEF Reading, Fresh
<1>3. \A i : There(i)' <=> There(i)
  BY DEF There
<1>4. Argued(r)'
  <2>1. Argued(r)
    BY DEF Asks
  <2>2. Listing(req[r].item)' = Listing(req[r].item)
    BY <1>1, <1>3 DEF Listing
  <2> QED
    BY <1>1, <1>3, <2>1, <2>2 DEF Argued, IsDefault
<1>5. Present(r)'
  BY <1>1, <1>3 DEF Asks, Present, There
<1>6. Holding(r)'
  BY <1>1 DEF Asks, Holding
<1> QED
  BY <1>2, <1>4, <1>5, <1>6 DEF StageFits

\* Deliver.
LEMMA DeliverFits ==
    ASSUME NEW r \in Request, Asks(r), Deliver(r) PROVE Client'
<1>1. /\ TypeOK /\ InOrder /\ RecordsFit /\ late = {} /\ OnPath(r) /\ Suits(r)
      /\ Present(r)
  BY DEF Asks
<1>2. /\ r \in inbox /\ inbox' = inbox \ {r} /\ req' = req /\ items' = items
      /\ old' = old /\ late' = late
      /\ task' = [task EXCEPT ![r] = [NoTask EXCEPT !.pc = "scheduled"]]
  BY DEF Deliver, extVars
<1>3. Open(r) /\ Asked(r) /\ req[r].pc \in {"old", "done"}
  BY <1>1, <1>2 DEF Open, Asked, OnPath, Asks, RequestRec
<1>4. /\ task'[r].pc = "scheduled" /\ ~task'[r].second
      /\ \A s \in Request \ {r} : task'[s] = task[s]
  BY <1>1, <1>2 DEF TypeOK, NoTask
<1>5. Goes(r)
  BY <1>2, <1>4 DEF Goes
<1>6. There(req[r].item)
  BY <1>1, <1>3 DEF Present, There
<1>7. StageFits(r)'
  BY <1>2, <1>3, <1>4, <1>5, <1>6, StageGoesOn DEF Working
<1>8. OnPath(r)' /\ Suits(r)'
  BY <1>1, <1>2, <1>3, <1>4 DEF OnPath, Suits, IsDefault
<1>9. RecordsFit'
  BY <1>1, <1>2, <1>5, HistoryGoesOn, ShapesFit DEF SameShape
<1> QED
  BY <1>1, <1>2, <1>3, <1>5, <1>7, <1>8, <1>9, StepFits

\* A step of NBI at its own request.
LEMMA NbiGoes ==
    ASSUME NEW r \in Request, TypeOK, NEW new \in RequestRec, new.pc # "free",
           req' = [req EXCEPT ![r] = new], task' = task,
           inbox' \in {inbox, inbox \cup {r}},
           req[r].pc # "free" =>
              /\ new.kind = req[r].kind /\ new.item = req[r].item
              /\ new.with = req[r].with /\ new.arg = req[r].arg
              /\ new.force = req[r].force
    PROVE  Goes(r) /\ req'[r] = new
BY DEF TypeOK, Goes

\* A request moves to the next place, without its copy.
LEMMA NextPc ==
    ASSUME NEW r \in Request, TypeOK, NEW pc \in {"written", "old", "done"},
           \/ req' = [req EXCEPT ![r].pc = pc]
           \/ req' = [req EXCEPT ![r].pc = pc, ![r].doc = NoRecord],
           req[r].pc # "free", task' = task,
           inbox' \in {inbox, inbox \cup {r}}
    PROVE  Goes(r) /\ req'[r].pc = pc
<1> DEFINE f == [req[r] EXCEPT !.pc = pc]
           g == [req[r] EXCEPT !.pc = pc, !.doc = NoRecord]
<1>1. req[r] \in RequestRec /\ NoRecord \in ItemRec
  BY NoRecordHonest DEF TypeOK, Honest
<1>2. /\ f \in RequestRec /\ f.pc = pc
      /\ f.kind = req[r].kind /\ f.item = req[r].item
      /\ f.with = req[r].with /\ f.arg = req[r].arg /\ f.force = req[r].force
  BY <1>1 DEF RequestRec
<1>3. /\ g \in RequestRec /\ g.pc = pc
      /\ g.kind = req[r].kind /\ g.item = req[r].item
      /\ g.with = req[r].with /\ g.arg = req[r].arg /\ g.force = req[r].force
  BY <1>1 DEF RequestRec
<1>4. req' = [req EXCEPT ![r] = f] \/ req' = [req EXCEPT ![r] = g]
  BY DEF TypeOK
<1> HIDE DEF f, g
<1> QED
  BY <1>2, <1>3, <1>4, NbiGoes

\* NbiSend.
LEMMA NbiSendFits ==
    ASSUME NEW r \in Request, Asks(r), NbiSend(r) PROVE Client'
<1> DEFINE q == req[r]
           pc == IF q.kind \in {"create", "register"} /\ q.item \in Cluster
                   THEN "old" ELSE "done"
<1>1. /\ TypeOK /\ InOrder /\ RecordsFit /\ late = {} /\ OnPath(r) /\ Suits(r)
      /\ Present(r)
  BY DEF Asks
<1>2. /\ q.pc = "written" /\ req' = [req EXCEPT ![r].pc = pc]
      /\ inbox' = inbox \cup {r} /\ task' = task /\ items' = items
      /\ old' = old /\ late' = late
  BY DEF NbiSend, extVars
<1>3. Open(r) /\ Asked(r) /\ task[r].pc = "none"
  BY <1>1, <1>2 DEF Open, Asked, OnPath
<1>4. Goes(r) /\ req'[r].pc = pc
  BY <1>1, <1>2, NextPc
<1>5. There(q.item)
  BY <1>1, <1>3 DEF Present, There
<1>6. StageFits(r)'
  BY <1>2, <1>3, <1>4, <1>5, StageGoesOn DEF Working
<1>7. /\ req'[r].kind = q.kind /\ req'[r].item = q.item
      /\ req'[r].with = q.with /\ req'[r].arg = q.arg
  BY <1>2, <1>4 DEF Goes
<1>8. OnPath(r)' /\ Suits(r)'
  <2>1. OnPath(r)'
    BY <1>1, <1>2, <1>3, <1>4, <1>7 DEF OnPath
  <2>2. Suits(r)'
    BY <1>1, <1>2, <1>4, <1>7 DEF Suits, IsDefault
  <2> QED
    BY <2>1, <2>2
<1>9. RecordsFit'
  BY <1>1, <1>2, <1>4, HistoryGoesOn, ShapesFit DEF SameShape
<1> QED
  BY <1>1, <1>2, <1>3, <1>4, <1>6, <1>8, <1>9, StepFits

\* NbiOld.
LEMMA NbiOldFits ==
    ASSUME NEW r \in Request, Asks(r), NbiOld(r) PROVE Client'
<1> DEFINE q == req[r]
<1>1. /\ TypeOK /\ InOrder /\ RecordsFit /\ late = {} /\ OnPath(r) /\ Suits(r)
      /\ Present(r)
  BY DEF Asks
<1>2. /\ q.pc = "old" /\ req' = [req EXCEPT ![r].pc = "done"]
      /\ inbox' = inbox /\ task' = task /\ items' = items
      /\ old' = [old EXCEPT ![q.item] = "PROCESSING"] /\ late' = late
  BY DEF NbiOld, extVars
<1>3. Open(r) /\ There(q.item)
  BY <1>1, <1>2 DEF Open, Present, There
<1>4. Goes(r) /\ req'[r].pc = "done"
  BY <1>1, <1>2, NextPc
<1>5. StageFits(r)'
  <2>1. Asked(r)' => Asked(r)
    BY <1>2, <1>4 DEF Asked
  <2>2. Working(r)' => Working(r)
    BY <1>2 DEF Working
  <2> QED
    BY <1>2, <1>3, <1>4, <2>1, <2>2, StageGoesOn
<1>6. /\ req'[r].kind = q.kind /\ req'[r].item = q.item
      /\ req'[r].with = q.with /\ req'[r].arg = q.arg
  BY <1>2, <1>4 DEF Goes
<1>7. OnPath(r)' /\ Suits(r)'
  <2>1. OnPath(r)'
    BY <1>1, <1>2, <1>4, <1>6 DEF OnPath
  <2>2. Suits(r)'
    BY <1>1, <1>2, <1>4, <1>6 DEF Suits, IsDefault
  <2> QED
    BY <2>1, <2>2
<1>8. \A c \in Cluster : old'[c] = old[c] \/ There(c)
  BY <1>1, <1>2, <1>3 DEF TypeOK
<1>9. RecordsFit'
  BY <1>1, <1>2, <1>4, <1>8, HistoryGoesOn, ShapesFit DEF SameShape
<1> QED
  BY <1>1, <1>2, <1>3, <1>4, <1>5, <1>7, <1>9, StepFits

\* A request that has just been written.
LEMMA WrittenFits ==
    ASSUME NEW r \in Request, req'[r].pc = "written", r \notin inbox',
           task'[r].pc = "none", There(req[r].item)',
           items'[req'[r].item].life = "there",
           items'[req'[r].item].hist[r] # "absent",
           Fresh(r)', Argued(r)'
    PROVE  StageFits(r)'
BY DEF StageFits, Reading, Present, Holding, Working

\* Rollback of what new created, or nothing.
LEMMA NbiSendFailsFits ==
    ASSUME NEW r \in Request, Asks(r), NbiSendFails(r) PROVE Client'
<1> DEFINE q == req[r]
           i == q.item
           L == IF i \in Cluster THEN items[i].links ELSE {}
           I == IF q.kind \notin {"create", "register"} THEN {}
                ELSE {i} \cup q.with \cup L
<1>0. /\ Cluster \subseteq Item /\ Profile \subseteq Item /\ Ksu \subseteq Item
      /\ Cluster \cap Profile = {} /\ Cluster \cap Ksu = {} /\ Cluster \cap Oka = {}
      /\ Profile \cap Ksu = {} /\ Profile \cap Oka = {} /\ Ksu \cap Oka = {}
  BY GitOpsAssumption DEF Item
<1>1. /\ TypeOK /\ InOrder /\ RecordsFit /\ late = {} /\ OnPath(r) /\ Suits(r)
      /\ Present(r) /\ Fresh(r) /\ q.with \subseteq Ksu
  BY DEF Asks, RequestRec
<1>2. /\ q.pc = "written" /\ req' = [req EXCEPT ![r].pc = "done"]
      /\ inbox' = inbox /\ task' = task /\ old' = old /\ late' = late
  BY DEF NbiSendFails, extVars
<1>3. Open(r) /\ Asked(r) /\ task[r].pc = "none" /\ r \notin inbox
  BY <1>1, <1>2 DEF Open, Asked, OnPath
<1>4. Goes(r) /\ req'[r].pc = "done"
  BY <1>1, <1>2, NextPc
<1>5. There(i) /\ i \in Item
  BY <1>1, <1>2, <1>3 DEF Present, There, Suits
<1>6. /\ req'[r].kind = q.kind /\ req'[r].item = i
      /\ req'[r].with = q.with /\ req'[r].arg = q.arg
  BY <1>2, <1>4 DEF Goes
<1>7. OnPath(r)' /\ Suits(r)'
  <2>1. OnPath(r)'
    BY <1>1, <1>2, <1>3, <1>4, <1>6 DEF OnPath
  <2>2. Suits(r)'
    BY <1>1, <1>2, <1>4, <1>6 DEF Suits, IsDefault
  <2> QED
    BY <2>1, <2>2
<1>8. StageFits(r)'
  BY <1>2, <1>3, <1>4, IdleFits DEF Open, TaskIsLive
<1>9. items' = Gone(I)
  <2>1. Gone({}) = items
    BY <1>1 DEF Gone, TypeOK
  <2> QED
    BY <2>1 DEF NbiSendFails
<1>10. /\ I # {} => /\ i \in Cluster => old[i] = "none"
                    /\ i \in Cluster => L \subseteq {Default[i]}
                    /\ \A p \in L : There(p)
                    /\ \A e \in Item : i \notin items[e].links
                    /\ \A e \in Item \ {i} : L \cap items[e].links = {}
       /\ I \subseteq {i} \cup q.with \cup L
       /\ L \subseteq Profile /\ (i \in Cluster /\ I # {} => L \subseteq I /\ i \in I)
  BY <1>0, <1>1, <1>2 DEF Fresh, RecordsFit, Linked
<1>11. OwnDefaults' => OwnDefaults
  BY <1>1, <1>4, HistoryGoesOn
<1>12. NoForce' => NoForce
  BY <1>1, <1>4, HistoryGoesOn
<1>13. /\ I \in SUBSET Item /\ I \cap Profile \subseteq {i} \cup L
       /\ \A p \in I \cap Profile : There(p)
       /\ I \cap Cluster \subseteq {i}
  BY <1>0, <1>1, <1>5, <1>10
<1>14. \A e \in Item \ {i} : items[e].links \cap Profile \cap I = {}
  BY <1>10, <1>13
<1>15. KsusOf(I \cap Profile) \subseteq I
  <2> SUFFICES ASSUME NEW k \in KsusOf(I \cap Profile) PROVE k \in I
    OBVIOUS
  <2>1. k \in Item /\ k \in Ksu /\ items[k].links \cap (I \cap Profile) # {}
    BY <1>0 DEF KsusOf
  <2>2. k = i
    BY <1>14, <2>1
  <2> QED
    BY <1>0, <2>1, <2>2
<1>16. /\ \A j \in I : items'[j] = NoLonger(items[j])
       /\ \A j \in Item \ I : items'[j] = items[j]
  BY <1>9, <1>13, GoneFields
<1>17. \A j \in Item \ I :
          /\ items'[j].life = items[j].life
          /\ items'[j].created = items[j].created
          /\ items'[j].links \subseteq items[j].links
          /\ items'[j] = items[j] \/ There(j)
  BY <1>16
<1>18. \A c \in Cluster \ I :
          There(c) /\ There(Default[c]) /\ Default[c] \notin I =>
             Default[c] \in items'[c].links
  BY <1>0, <1>1, <1>16 DEF RecordsFit, DefaultsListed
<1>19. \A c \in Cluster \ I : items'[c].links \cap I = {}
  <2> SUFFICES ASSUME NEW c \in Cluster \ I PROVE items[c].links \cap I = {}
    BY <1>0, <1>16
  <2>1. items[c].links \subseteq Profile /\ c \in Item
    BY <1>0, <1>1 DEF RecordsFit, Linked
  <2>2. CASE I = {}
    BY <2>2
  <2>3. CASE I # {}
    <3>1. i \notin items[c].links
      BY <1>10, <2>1, <2>3
    <3>2. c # i => items[c].links \cap L = {}
      BY <1>10, <2>1, <2>3
    <3>3. c # i
      BY <1>10, <2>3
    <3>4. items[c].links \cap q.with = {}
      BY <1>0, <1>1, <2>1
    <3> QED
      BY <1>10, <3>1, <3>2, <3>3, <3>4
  <2> QED
    BY <2>2, <2>3
<1>20. \A c \in Cluster \cap I :
          old'[c] = "none" /\ (There(Default[c]) => Default[c] \in I)
  <2> SUFFICES ASSUME NEW c \in Cluster \cap I
               PROVE  old[c] = "none" /\ (There(Default[c]) => Default[c] \in I)
    BY <1>2
  <2>1. c = i /\ I # {} /\ i \in Cluster /\ old[i] = "none"
    BY <1>10, <1>13
  <2>2. There(Default[i]) => Default[i] \in items[i].links
    BY <1>1, <1>5, <2>1 DEF RecordsFit, DefaultsListed
  <2> QED
    BY <1>10, <2>1, <2>2
<1> HIDE DEF I, L
<1>21. RecordsFit'
  BY <1>1, <1>2, <1>11, <1>12, <1>13, <1>15, <1>16, <1>17, <1>18, <1>19, <1>20,
     RemovalFits
<1> QED
  BY <1>1, <1>2, <1>3, <1>4, <1>7, <1>8, <1>21, StepFits

\* A request that opens is the only one.
LEMMA OpensGoes ==
    ASSUME NEW r \in Request, Asks(r), TypeOK', Undisturbed', MayOpen(r),
           NEW new, Opens(r, new), new.pc \in {"read", "written"},
           task' = task, inbox' = inbox
    PROVE  /\ Goes(r) /\ req'[r] = new /\ OnPath(r)'
           /\ \A s \in Request : ~Open(s)
           /\ req[r].pc = "free" /\ \A s \in 1 .. r - 1 : req[s].pc # "free"
           /\ task'[r].pc = "none" /\ r \notin inbox'
<1>1. TypeOK /\ OnPath(r)
  BY DEF Asks
<1>2. req[r].pc = "free" /\ \A s \in 1 .. r - 1 : req[s].pc # "free"
  BY DEF MayOpen
<1>3. \A s \in Request : ~Open(s)
  BY DEF Opens, Undisturbed
<1>4. req' = [req EXCEPT ![r] = new]
  BY DEF Opens
<1>5. req'[r] = new
  BY <1>1, <1>4 DEF TypeOK
<1>6. new \in RequestRec
  BY <1>5 DEF TypeOK
<1>7. Goes(r)
  BY <1>1, <1>2, <1>4, <1>6, NbiGoes
<1>8. /\ task'[r].pc = "none" /\ r \notin inbox'
      /\ ~task'[r].second \/ req[r].kind = "deregister"
  BY <1>1, <1>2 DEF OnPath
<1>9. ~task'[r].second
  BY <1>1, <1>2, <1>8 DEF OnPath, NoReq
<1>10. OnPath(r)'
  BY <1>5, <1>8, <1>9 DEF OnPath
<1> QED
  BY <1>2, <1>3, <1>5, <1>7, <1>8, <1>10

\* A record as NBI creates it, with its operation.
AsCreated(e, i, kind, r) ==
    /\ e.life = "there" /\ ~e.inUse /\ e.hist[r] = "None"
    /\ e.state = "IN_CREATION" /\ e.operating # "IDLE"
    /\ e.created <=> i \in Cluster /\ kind = "create"
    /\ e.links = IF i \in Cluster /\ kind = "create" THEN {Default[i]} ELSE {}
    /\ \A s \in Request \ {r} : e.hist[s] = "absent"

LEMMA NewRecordFields ==
    ASSUME NEW i \in Item, NEW kind, NEW r \in Request
    PROVE  AsCreated(NewOperation(NewRecord(i, kind), r), i, kind, r)
<1> DEFINE n == NewRecord(i, kind)
           e == NewOperation(n, r)
<1>1. n \in ItemRec
  BY NewRecordHonest DEF Honest
<1>2. /\ n.life = "there" /\ ~n.inUse /\ n.state = "IN_CREATION"
      /\ n.operating # "IDLE"
      /\ n.created <=> i \in Cluster /\ kind = "create"
      /\ n.links = IF i \in Cluster /\ kind = "create" THEN {Default[i]} ELSE {}
      /\ n.hist = [s \in Request |-> "absent"]
  <2>1. NoRecord \in [life : {"new"}, state : {"PENDING"},
                      operating : {"PROCESSING"}, resource : {"IN_PROGRESS"},
                      current : {NoRequest}, hist : {[s \in Request |-> "absent"]},
                      links : {{}}, inUse : {FALSE}, created : {FALSE}]
    BY DEF NoRecord
  <2> QED
    BY <2>1 DEF NewRecord
<1> HIDE DEF n
<1>3. HistoryOnly(e, n, r) /\ e.hist[r] = "None"
  BY <1>1, HistoryFields
<1> HIDE DEF e
<1>4. \A s \in Request \ {r} : e.hist[s] = "absent"
  BY <1>2, <1>3 DEF HistoryOnly
<1> QED
  <2>1. AsCreated(e, i, kind, r)
    BY <1>2, <1>3, <1>4 DEF HistoryOnly, SameShape, AsCreated
  <2> QED
    BY <2>1 DEF e, n

\* NbiNew.
LEMMA NbiNewFits ==
    ASSUME NEW r \in Request, Asks(r), TypeOK', Undisturbed', MayOpen(r),
           NEW i \in Item, NEW kind, NbiNew(r, i, kind)
    PROVE  Client'
<1> DEFINE new == [NoReq EXCEPT !.pc = "written", !.kind = kind, !.item = i]
           D == IF i \in Cluster /\ kind = "create" THEN {Default[i]} ELSE {}
           I == {i} \cup D
<1>0. /\ Cluster \subseteq Item /\ Profile \subseteq Item /\ Ksu \subseteq Item
      /\ Cluster \cap Profile = {} /\ Cluster \cap Ksu = {} /\ Cluster \cap Oka = {}
      /\ Profile \cap Ksu = {} /\ Profile \cap Oka = {} /\ Ksu \cap Oka = {}
  BY GitOpsAssumption DEF Item
<1>1. /\ TypeOK /\ InOrder /\ RecordsFit /\ late = {}
      /\ NewIsEmpty /\ Linked /\ Listed /\ ListsExist /\ DefaultsListed /\ Emptied
  BY DEF Asks, RecordsFit
<1>2. /\ kind \in {"create", "register"} /\ items[i].life = "new" /\ i \notin Ksu
      /\ ~IsDefault(i) /\ (kind = "register" => i \in Cluster)
      /\ items' = [j \in Item |->
                     IF j \in I THEN NewOperation(NewRecord(j, kind), r)
                                ELSE items[j]]
      /\ Opens(r, new) /\ old' = old /\ inbox' = inbox /\ task' = task
      /\ late' = late
  BY DEF NbiNew, extVars
<1>3. /\ new.pc = "written" /\ new.kind = kind /\ new.item = i /\ new.with = {}
      /\ new.arg = NoItem
  BY DEF NoReq
<1> HIDE DEF new
<1>4. /\ Goes(r) /\ req'[r] = new /\ OnPath(r)'
      /\ \A s \in Request : ~Open(s)
      /\ req[r].pc = "free" /\ \A s \in 1 .. r - 1 : req[s].pc # "free"
      /\ task'[r].pc = "none" /\ r \notin inbox'
  BY <1>2, <1>3, OpensGoes
<1>5. Suits(r)'
  BY <1>2, <1>3, <1>4 DEF Suits, IsDefault
<1>6. /\ OwnDefaults' => OwnDefaults
      /\ NoForce' => NoForce
  BY <1>1, <1>4, HistoryGoesOn
<1>7. I \subseteq Item /\ D \subseteq Profile /\ \A j \in I : items[j].life = "new"
  <2>1. i \in Cluster => ~items[i].created
    BY <1>1, <1>2 DEF NewIsEmpty, NoRecord
  <2>2. i \in Cluster => items[Default[i]].life = "new"
    BY <1>1, <2>1 DEF DefaultsListed
  <2> QED
    BY <1>2, <2>2, DefaultInItem
<1>8. \A j \in Item \ I : items'[j] = items[j]
  BY <1>2
<1>9. \A j \in I :
        /\ items'[j].life = "there" /\ ~items'[j].inUse
        /\ items'[j].hist[r] = "None"
        /\ items'[j].created <=> j \in Cluster /\ kind = "create"
        /\ items'[j].links = IF j \in Cluster /\ kind = "create"
                               THEN {Default[j]} ELSE {}
  <2> SUFFICES ASSUME NEW j \in I
               PROVE  /\ items'[j].life = "there" /\ ~items'[j].inUse
                      /\ items'[j].hist[r] = "None"
                      /\ items'[j].created <=> j \in Cluster /\ kind = "create"
                      /\ items'[j].links = IF j \in Cluster /\ kind = "create"
                                             THEN {Default[j]} ELSE {}
    OBVIOUS
  <2> DEFINE e == NewOperation(NewRecord(j, kind), r)
  <2>1. j \in Item /\ items'[j] = e
    BY <1>2, <1>7
  <2> HIDE DEF I, D, e
  <2>2. AsCreated(e, j, kind, r)
    <3>1. j \in Item
      BY <2>1
    <3> QED
      BY <3>1, NewRecordFields DEF e
  <2> QED
    BY <2>1, <2>2 DEF AsCreated
<1>10. \A j \in I : items'[j].links = IF j = i THEN D ELSE {}
  BY <1>0, <1>7, <1>9
<1> HIDE DEF I, D
<1>11. i \in I /\ I \subseteq {i} \cup D /\ D \subseteq I
       /\ (i \in Cluster => D \subseteq {Default[i]})
       /\ (i \in Cluster /\ kind = "create" => D = {Default[i]})
       /\ (i \notin Cluster \/ kind # "create" => D = {})
  BY DEF I, D
<1>12. /\ \A j \in Item : There(j)' <=> There(j) \/ j \in I
       /\ \A j \in I : ~There(j)
  BY <1>7, <1>8, <1>9 DEF There
<1>13. NewIsEmpty'
  BY <1>1, <1>8, <1>9 DEF NewIsEmpty
<1>14. Linked'
  <2>1. \A j \in Item : ~There(j)' => items'[j].links = {} /\ ~items'[j].inUse
    BY <1>1, <1>8, <1>12 DEF Linked
  <2>2. \A c \in Cluster : items'[c].links \subseteq Profile
    BY <1>0, <1>1, <1>7, <1>8, <1>10 DEF Linked
  <2>3. \A k \in Ksu : items'[k] = items[k]
    BY <1>0, <1>2, <1>7, <1>8, <1>11
  <2> QED
    BY <1>0, <1>1, <1>12, <2>1, <2>2, <2>3 DEF Linked
<1>15. Listed'
  <2> SUFFICES ASSUME NEW e \in Item, NEW j \in items'[e].links
               PROVE  j \in Item /\ items'[j].life # "new"
    BY DEF Listed
  <2>1. CASE e \in I
    BY <1>7, <1>9, <1>10, <1>11, <2>1
  <2>2. CASE e \notin I
    <3>1. j \in Item /\ items[j].life # "new"
      BY <1>1, <1>8, <2>2 DEF Listed
    <3> QED
      BY <1>8, <1>9, <3>1
  <2> QED
    BY <2>1, <2>2
<1>16. ListsExist'
  <2> SUFFICES ASSUME OwnDefaults', NEW c \in Cluster, NEW p \in items'[c].links
               PROVE  There(p)' /\ (IsDefault(p) => p = Default[c])
    BY DEF ListsExist, IsDefault
  <2>1. CASE c \in I
    <3>1. p \in D /\ c = i
      BY <1>10, <2>1
    <3> QED
      BY <1>7, <1>11, <1>12, <3>1
  <2>2. CASE c \notin I
    <3>1. p \in items[c].links /\ p \in Item
      BY <1>0, <1>1, <1>8, <2>2 DEF Linked
    <3> QED
      BY <1>1, <1>6, <1>12, <3>1 DEF ListsExist
  <2> QED
    BY <2>1, <2>2
<1>17. ASSUME NEW c \in Cluster
       PROVE  /\ c \in Item /\ Default[c] \in Item
              /\ c # i => c \notin I /\ Default[c] \notin I
              /\ c = i => (Default[c] \in I <=> kind = "create")
  <2>1. Default[c] # i
    BY <1>2 DEF IsDefault
  <2>2. c \in Item /\ Default[c] \in Item /\ Default[c] \in Profile
    BY <1>0, DefaultInItem
  <2>3. c \notin D
    BY <1>0, <1>7
  <2>4. c # i /\ i \in Cluster => Default[c] # Default[i]
    BY GitOpsAssumption
  <2> QED
    BY <1>11, <2>1, <2>2, <2>3, <2>4
<1>18. DefaultsListed'
  <2> SUFFICES ASSUME NEW c \in Cluster
               PROVE  /\ There(c)' /\ There(Default[c])' =>
                            Default[c] \in items'[c].links
                      /\ ~items'[c].created => items'[Default[c]].life = "new"
    BY DEF DefaultsListed
  <2>1. CASE c # i
    <3>1. items'[c] = items[c] /\ items'[Default[c]] = items[Default[c]]
      BY <1>8, <1>17, <2>1
    <3> QED
      BY <1>1, <3>1 DEF DefaultsListed, There
  <2>2. CASE c = i /\ kind = "create"
    <3>1. items'[c].links = {Default[c]} /\ items'[c].created
      BY <1>9, <1>11, <2>2
    <3> QED
      BY <3>1
  <2>3. CASE c = i /\ kind # "create"
    <3>1. Default[c] \notin I
      BY <1>17, <2>3
    <3>2. ~items[c].created
      BY <1>1, <1>2, <2>3 DEF NewIsEmpty, NoRecord
    <3>3. items'[Default[c]].life = "new"
      BY <1>1, <1>8, <1>17, <3>1, <3>2 DEF DefaultsListed
    <3> QED
      BY <3>3 DEF There
  <2> QED
    BY <2>1, <2>2, <2>3
<1>19. Emptied'
  <2> SUFFICES ASSUME NEW c \in Cluster
               PROVE  /\ items'[c].life = "new" => old'[c] = "none"
                      /\ NoForce' /\ items'[c].life = "gone" =>
                           old'[c] = "none" /\ ~There(Default[c])'
    BY DEF Emptied
  <2>1. CASE c # i
    <3>1. items'[c] = items[c] /\ items'[Default[c]] = items[Default[c]]
      BY <1>8, <1>17, <2>1
    <3> QED
      BY <1>1, <1>2, <1>6, <3>1 DEF Emptied, There
  <2>2. CASE c = i
    BY <1>9, <1>11, <2>2
  <2> QED
    BY <2>1, <2>2
<1>20. RecordsFit'
  BY <1>13, <1>14, <1>15, <1>16, <1>18, <1>19 DEF RecordsFit
<1>21. Fresh(r)'
  <2>1. \A e \in Item : \A j \in I : e # i => j \notin items'[e].links
    <3> SUFFICES ASSUME NEW e \in Item, NEW j \in I, e # i
                 PROVE  j \notin items'[e].links
      OBVIOUS
    <3>1. CASE e \in I
      BY <1>10, <3>1
    <3>2. CASE e \notin I
      BY <1>1, <1>7, <1>8, <3>2 DEF Listed
    <3> QED
      BY <3>1, <3>2
  <2>2. items'[i].links = D /\ i \notin D /\ ~items'[i].inUse
    <3>1. i \notin D
      BY <1>0, <1>7, <1>11
    <3> QED
      BY <1>9, <1>10, <1>11, <3>1
  <2>3. \A e \in Item : i \notin items'[e].links
    BY <1>11, <2>1, <2>2
  <2>4. \A p \in items'[i].links : There(p)'
    BY <1>7, <1>11, <1>12, <2>2
  <2>5. i \in Cluster =>
          /\ old'[i] = "none" /\ items'[i].links \subseteq {Default[i]}
          /\ \A e \in Item \ {i} : Default[i] \notin items'[e].links
    <3> SUFFICES ASSUME i \in Cluster
                 PROVE  /\ old'[i] = "none" /\ items'[i].links \subseteq {Default[i]}
                        /\ \A e \in Item \ {i} : Default[i] \notin items'[e].links
      OBVIOUS
    <3>1. old'[i] = "none"
      BY <1>1, <1>2 DEF Emptied
    <3>2. items[Default[i]].life = "new"
      BY <1>1, <1>2 DEF NewIsEmpty, NoRecord, DefaultsListed
    <3>3. \A e \in Item \ {i} : Default[i] \notin items'[e].links
      <4> SUFFICES ASSUME NEW e \in Item \ {i}
                   PROVE  Default[i] \notin items'[e].links
        OBVIOUS
      <4>1. CASE e \in I
        BY <1>10, <4>1
      <4>2. CASE e \notin I
        BY <1>1, <1>8, <3>2, <4>2 DEF Listed
      <4> QED
        BY <4>1, <4>2
    <3> QED
      BY <1>11, <2>2, <3>1, <3>3
  <2> QED
    BY <1>3, <1>4, <2>2, <2>3, <2>4, <2>5 DEF Fresh
<1>22. Argued(r)'
  BY <1>2, <1>3, <1>4 DEF Argued
<1>23. StageFits(r)'
  <2>1. /\ req'[r].pc = "written" /\ req'[r].item = i
        /\ items'[i].life = "there" /\ items'[i].hist[r] # "absent"
    BY <1>3, <1>4, <1>9, <1>11
  <2>2. There(req[r].item)'
    BY <2>1 DEF There
  <2> QED
    BY <1>4, <1>21, <1>22, <2>1, <2>2, WrittenFits
<1> QED
  BY <1>1, <1>2, <1>4, <1>5, <1>20, <1>23, StepFits

\* NbiMarkOka.
LEMMA NbiMarkOkaFits ==
    ASSUME NEW r \in Request, Asks(r), TypeOK', Undisturbed', MayOpen(r),
           NEW k \in Ksu, NEW with \in SUBSET Ksu, NEW p \in Profile, NEW a \in Oka,
           NbiMarkOka(r, k, with, p, a)
    PROVE  Client'
<1> DEFINE doc == [NoRecord EXCEPT !.links = {p, a}]
           new == [NoReq EXCEPT !.pc = "read", !.kind = "create", !.item = k,
                                !.with = with, !.doc = doc]
<1>0. /\ Cluster \subseteq Item /\ Profile \subseteq Item /\ Ksu \subseteq Item
      /\ Oka \subseteq Item
      /\ Cluster \cap Profile = {} /\ Cluster \cap Ksu = {} /\ Cluster \cap Oka = {}
      /\ Profile \cap Ksu = {} /\ Profile \cap Oka = {} /\ Ksu \cap Oka = {}
  BY GitOpsAssumption DEF Item
<1>1. TypeOK /\ InOrder /\ RecordsFit /\ late = {}
  BY DEF Asks
<1>2. /\ \A j \in {k} \cup with : items[j].life = "new"
      /\ There(p) /\ There(a) /\ k \notin with
      /\ items' = [items EXCEPT ![a].inUse = TRUE]
      /\ old' = old /\ inbox' = inbox /\ task' = task /\ late' = late
  BY DEF NbiMarkOka, extVars
<1>3. Opens(r, new)
  <2>1. Opens(r, [NoReq EXCEPT !.pc = "read", !.kind = "create", !.item = k,
                               !.with = with, !.doc.links = {p, a}])
    BY DEF NbiMarkOka
  <2>2. NoReq.doc = NoRecord
    BY DEF NoReq
  <2>3. [NoReq EXCEPT !.pc = "read", !.kind = "create", !.item = k,
                      !.with = with, !.doc.links = {p, a}] = new
    BY <2>2 DEF NoReq
  <2> HIDE DEF new
  <2> QED
    BY <2>1, <2>3
<1>4. doc.links = {p, a}
  BY DEF NoRecord
<1> HIDE DEF doc
<1>5. /\ new.pc = "read" /\ new.kind = "create" /\ new.item = k /\ new.with = with
      /\ new.arg = NoItem /\ new.doc = doc
  BY DEF NoReq
<1> HIDE DEF new
<1>6. /\ Goes(r) /\ req'[r] = new /\ OnPath(r)'
      /\ \A s \in Request : ~Open(s)
      /\ req[r].pc = "free" /\ \A s \in 1 .. r - 1 : req[s].pc # "free"
      /\ task'[r].pc = "none" /\ r \notin inbox'
  BY <1>2, <1>3, <1>5, OpensGoes
<1>7. Suits(r)'
  <2>1. ~IsDefault(k)
    BY <1>0, DefaultInItem DEF IsDefault
  <2> QED
    BY <1>0, <1>2, <1>5, <1>6, <2>1 DEF Suits, IsDefault
<1>8. /\ \A j \in Item \ {a} : items'[j] = items[j]
      /\ items'[a].life = items[a].life /\ items'[a].links = items[a].links
      /\ items'[a].created = items[a].created
  <2>1. items[a] \in ItemRec
    BY <1>0, <1>1 DEF TypeOK
  <2> QED
    BY <1>0, <1>1, <1>2, <2>1 DEF TypeOK, ItemRec
<1>9. RecordsFit'
  <2> DEFINE I == {}
  <2>1. I \in SUBSET Item /\ KsusOf(I \cap Profile) \subseteq I
    BY DEF KsusOf
  <2>2. OwnDefaults' => OwnDefaults
    BY <1>1, <1>6, HistoryGoesOn
  <2>3. NoForce' => NoForce
    BY <1>1, <1>6, HistoryGoesOn
  <2>4. \A j \in Item \ I :
          /\ items'[j].life = items[j].life
          /\ items'[j].created = items[j].created
          /\ items'[j].links \subseteq items[j].links
          /\ items'[j] = items[j] \/ There(j)
    BY <1>2, <1>8
  <2>5. \A c \in Cluster : items'[c] = items[c]
    BY <1>0, <1>8
  <2>6. \A c \in Cluster \ I :
          There(c) /\ There(Default[c]) /\ Default[c] \notin I =>
             Default[c] \in items'[c].links
    BY <1>1, <2>5 DEF RecordsFit, DefaultsListed
  <2> QED
    BY <1>1, <1>2, <2>1, <2>2, <2>3, <2>4, <2>5, <2>6, RemovalFits
<1>10. StageFits(r)'
  <2>1. /\ There(p)' /\ There(a)'
        /\ \A j \in {k} \cup with : items'[j].life = "new"
    BY <1>0, <1>2, <1>8 DEF There
  <2>2. Reading(r)'
    BY <1>0, <1>4, <1>5, <1>6, <2>1 DEF Reading
  <2>3. Fresh(r)'
    BY <1>5, <1>6 DEF Fresh
  <2>4. ~Asked(r)' /\ ~Working(r)'
    BY <1>5, <1>6 DEF Asked, Working
  <2>5. Argued(r)'
    BY <1>5, <1>6, <2>4 DEF Argued
  <2>6. Present(r)' /\ Holding(r)'
    BY <1>5, <1>6, <2>4 DEF Present, Holding
  <2> QED
    BY <2>2, <2>3, <2>5, <2>6 DEF StageFits
<1> QED
  BY <1>1, <1>2, <1>6, <1>7, <1>9, <1>10, StepFits

\* A request that was read and is written, or refused.
LEMMA WritesGoes ==
    ASSUME NEW r \in Request, Asks(r), req[r].pc = "read",
           NEW pc \in {"written", "done"},
           req' = [req EXCEPT ![r].pc = pc, ![r].doc = NoRecord],
           inbox' = inbox, task' = task
    PROVE  /\ Goes(r) /\ req'[r].pc = pc /\ Open(r) /\ OnPath(r)' /\ Suits(r)'
           /\ req'[r].kind = req[r].kind /\ req'[r].item = req[r].item
           /\ req'[r].with = req[r].with /\ req'[r].arg = req[r].arg
           /\ task'[r].pc = "none" /\ r \notin inbox'
           /\ OwnDefaults' => OwnDefaults
           /\ NoForce' => NoForce
<1>1. TypeOK /\ OnPath(r) /\ Suits(r) /\ InOrder
  BY DEF Asks
<1>2. Goes(r) /\ req'[r].pc = pc
  BY <1>1, NextPc
<1>3. /\ req'[r].kind = req[r].kind /\ req'[r].item = req[r].item
      /\ req'[r].with = req[r].with /\ req'[r].arg = req[r].arg
  BY <1>2 DEF Goes
<1>4. task'[r].pc = "none" /\ r \notin inbox' /\ Open(r)
  BY <1>1 DEF OnPath, Open
<1>5. OnPath(r)'
  BY <1>1, <1>2, <1>3, <1>4 DEF OnPath
<1>6. Suits(r)'
  BY <1>1, <1>2, <1>3 DEF Suits, IsDefault
<1>7. OwnDefaults' => OwnDefaults
  BY <1>1, <1>2, HistoryGoesOn
<1>8. NoForce' => NoForce
  BY <1>1, <1>2, HistoryGoesOn
<1> QED
  BY <1>2, <1>3, <1>4, <1>5, <1>6, <1>7, <1>8

\* NbiNewKsus.
LEMMA NbiNewKsusFits ==
    ASSUME NEW r \in Request, Asks(r), NbiNewKsus(r)
    PROVE  Client'
<1> DEFINE q == req[r]
           k == q.item
           K == {k} \cup q.with
           L == q.doc.links
<1>0. /\ Cluster \subseteq Item /\ Profile \subseteq Item /\ Ksu \subseteq Item
      /\ Oka \subseteq Item
      /\ Cluster \cap Profile = {} /\ Cluster \cap Ksu = {} /\ Cluster \cap Oka = {}
      /\ Profile \cap Ksu = {} /\ Profile \cap Oka = {} /\ Ksu \cap Oka = {}
  BY GitOpsAssumption DEF Item
<1>1. /\ TypeOK /\ InOrder /\ RecordsFit /\ late = {} /\ Suits(r) /\ Reading(r)
      /\ q.with \subseteq Ksu
      /\ NewIsEmpty /\ Linked /\ Listed /\ ListsExist /\ DefaultsListed /\ Emptied
  BY DEF Asks, RecordsFit, RequestRec
<1>2. /\ q.pc = "read" /\ q.kind = "create"
      /\ req' = [req EXCEPT ![r].pc = "written", ![r].doc = NoRecord]
      /\ inbox' = inbox /\ task' = task /\ old' = old /\ late' = late
  BY DEF NbiNewKsus, extVars
<1>3. /\ Goes(r) /\ req'[r].pc = "written" /\ Open(r) /\ OnPath(r)' /\ Suits(r)'
      /\ req'[r].kind = q.kind /\ req'[r].item = k
      /\ req'[r].with = q.with /\ req'[r].arg = q.arg
      /\ task'[r].pc = "none" /\ r \notin inbox'
      /\ OwnDefaults' => OwnDefaults
      /\ NoForce' => NoForce
  BY <1>2, WritesGoes
<1>4. /\ \A j \in K : items[j].life = "new"
      /\ L \subseteq Profile \cup Oka /\ \A j \in L : There(j)
  BY <1>1, <1>2 DEF Reading
<1>5. K \subseteq Ksu /\ k \in K
  BY <1>1, <1>2 DEF Suits
<1>6. \A j \in Item \ K : items'[j] = items[j]
  BY DEF NbiNewKsus
<1>7. ASSUME NEW j \in K
      PROVE  /\ items'[j].life = "there" /\ items'[j].links = L
             /\ j = k => items'[j].hist[r] = "None" /\ ~items'[j].inUse
  <2> DEFINE m == NewRecord(j, "create")
             n == [m EXCEPT !.links = L]
             o == NewOperation(n, r)
  <2>1. items'[j] = IF j = k THEN o ELSE n
    BY <1>0, <1>5 DEF NbiNewKsus
  <2>2. m \in ItemRec
    BY <1>0, <1>5, NewRecordHonest DEF Honest
  <2>3. m.life = "there" /\ ~m.inUse
    BY DEF NewRecord, NoRecord
  <2> HIDE DEF m
  <2>4. L \in SUBSET Item
    BY <1>0, <1>4
  <2> HIDE DEF L
  <2>5. n \in ItemRec /\ n.life = "there" /\ n.links = L /\ ~n.inUse
    BY <2>2, <2>3, <2>4 DEF ItemRec
  <2> HIDE DEF n
  <2>6. HistoryOnly(o, n, r) /\ o.hist[r] = "None"
    BY <2>5, HistoryFields
  <2> HIDE DEF o
  <2>7. o.life = "there" /\ o.links = L /\ ~o.inUse
    BY <2>5, <2>6 DEF HistoryOnly, SameShape
  <2> QED
    BY <2>1, <2>5, <2>6, <2>7
<1> HIDE DEF K, L
<1>8. /\ \A j \in Item : There(j)' <=> There(j) \/ j \in K
      /\ \A j \in K : ~There(j)
  BY <1>4, <1>6, <1>7 DEF There
<1>9. /\ \A c \in Cluster : /\ c \in Item /\ items'[c] = items[c]
                            /\ Default[c] \in Item
                            /\ items'[Default[c]] = items[Default[c]]
  <2> SUFFICES ASSUME NEW c \in Cluster
               PROVE  /\ c \in Item /\ items'[c] = items[c] /\ Default[c] \in Item
                      /\ items'[Default[c]] = items[Default[c]]
    OBVIOUS
  <2>1. c \in Item /\ Default[c] \in Item /\ Default[c] \in Profile
    BY <1>0, DefaultInItem
  <2> QED
    BY <1>0, <1>5, <1>6, <2>1
<1>10. NewIsEmpty'
  BY <1>1, <1>6, <1>7 DEF NewIsEmpty
<1>11. Linked'
  <2>1. \A j \in Item : ~There(j)' => items'[j].links = {} /\ ~items'[j].inUse
    BY <1>1, <1>6, <1>8 DEF Linked
  <2>2. \A c \in Cluster : items'[c].links \subseteq Profile
    BY <1>1, <1>9 DEF Linked
  <2>3. ASSUME NEW j \in Ksu
        PROVE  /\ items'[j].links \subseteq Profile \cup Oka
               /\ \A p \in items'[j].links \cap Profile : There(p)'
    <3>1. j \in Item
      BY <1>0
    <3>2. CASE j \in K
      BY <1>0, <1>4, <1>7, <1>8, <3>2
    <3>3. CASE j \notin K
      BY <1>0, <1>1, <1>6, <1>8, <3>1, <3>3 DEF Linked
    <3> QED
      BY <3>2, <3>3
  <2> QED
    BY <2>1, <2>2, <2>3 DEF Linked
<1>12. Listed'
  <2> SUFFICES ASSUME NEW e \in Item, NEW j \in items'[e].links
               PROVE  j \in Item /\ items'[j].life # "new"
    BY DEF Listed
  <2>1. j \in Item /\ items[j].life # "new"
    BY <1>0, <1>1, <1>4, <1>6, <1>7 DEF Listed, There
  <2> QED
    BY <1>6, <1>7, <2>1
<1>13. ListsExist'
  <2> SUFFICES ASSUME OwnDefaults', NEW c \in Cluster, NEW p \in items'[c].links
               PROVE  There(p)' /\ (IsDefault(p) => p = Default[c])
    BY DEF ListsExist, IsDefault
  <2>1. p \in items[c].links /\ p \in Item
    BY <1>1, <1>9 DEF Listed
  <2> QED
    BY <1>1, <1>3, <1>8, <2>1 DEF ListsExist
<1>14. DefaultsListed' /\ Emptied'
  <2>1. \A c \in Cluster : /\ There(c)' <=> There(c)
                           /\ There(Default[c])' <=> There(Default[c])
    BY <1>9 DEF There
  <2>2. DefaultsListed'
    BY <1>1, <1>9, <2>1 DEF DefaultsListed
  <2>3. Emptied'
    BY <1>1, <1>2, <1>3, <1>9, <2>1 DEF Emptied
  <2> QED
    BY <2>2, <2>3
<1>15. RecordsFit'
  BY <1>10, <1>11, <1>12, <1>13, <1>14 DEF RecordsFit
<1>16. Fresh(r)'
  <2>1. \A e \in Item : k \notin items'[e].links
    <3>1. k \notin L
      BY <1>0, <1>4, <1>5
    <3>2. \A e \in Item : k \notin items[e].links
      BY <1>1, <1>4, <1>5 DEF Listed
    <3> QED
      BY <1>6, <1>7, <3>1, <3>2
  <2>2. \A p \in items'[k].links : There(p)'
    BY <1>0, <1>4, <1>5, <1>7, <1>8
  <2>3. k \notin Cluster /\ ~items'[k].inUse
    BY <1>0, <1>5, <1>7
  <2> QED
    BY <1>3, <2>1, <2>2, <2>3 DEF Fresh
<1>17. Argued(r)'
  <2>1. \A j \in items'[k].links : There(j)'
    BY <1>0, <1>4, <1>5, <1>7, <1>8
  <2> QED
    BY <1>2, <1>3, <2>1 DEF Argued
<1>18. StageFits(r)'
  <2>1. /\ items'[req'[r].item].life = "there"
        /\ items'[req'[r].item].hist[r] # "absent"
    BY <1>3, <1>5, <1>7
  <2>2. There(req[r].item)'
    BY <2>1 DEF There
  <2> QED
    BY <1>3, <1>16, <1>17, <2>1, <2>2, WrittenFits
<1> QED
  BY <1>1, <1>2, <1>3, <1>15, <1>18, StepFits

\* NbiRead.
LEMMA NbiReadFits ==
    ASSUME NEW r \in Request, Asks(r), TypeOK', Undisturbed', MayOpen(r),
           NEW kind, NEW i \in Item, NEW x \in Item \cup {NoItem}, NEW force,
           NbiRead(r, kind, i, x, force)
    PROVE  Client'
<1> DEFINE new == [NoReq EXCEPT !.pc = "read", !.kind = kind, !.item = i,
                                !.arg = x, !.force = force, !.doc = items[i]]
           d == items[i]
           detached == kind = "delete" /\ i \in Profile
<1>0. /\ Cluster \subseteq Item /\ Profile \subseteq Item /\ Ksu \subseteq Item
      /\ Oka \subseteq Item
      /\ Cluster \cap Profile = {} /\ Cluster \cap Ksu = {} /\ Cluster \cap Oka = {}
      /\ Profile \cap Ksu = {} /\ Profile \cap Oka = {} /\ Ksu \cap Oka = {}
  BY GitOpsAssumption DEF Item
<1>1. TypeOK /\ InOrder /\ RecordsFit /\ late = {}
  BY DEF Asks
<1>2. /\ There(i) /\ Accepted(kind, i, x) /\ Opens(r, new)
      /\ old' = old /\ inbox' = inbox /\ task' = task /\ late' = late
      /\ items' = IF detached
                    THEN [j \in Item |->
                            IF j \in Listing(i)
                              THEN [items[j] EXCEPT !.links = @ \ {i}]
                              ELSE items[j]]
                    ELSE items
  BY DEF NbiRead, extVars
<1>3. /\ new.pc = "read" /\ new.kind = kind /\ new.item = i /\ new.with = {}
      /\ new.arg = x /\ new.doc = d
  BY DEF NoReq
<1> HIDE DEF new
<1>4. /\ Goes(r) /\ req'[r] = new /\ OnPath(r)'
      /\ \A s \in Request : ~Open(s)
      /\ req[r].pc = "free" /\ \A s \in 1 .. r - 1 : req[s].pc # "free"
      /\ task'[r].pc = "none" /\ r \notin inbox'
  BY <1>2, <1>3, OpensGoes
<1>5. /\ kind \notin {"create", "register"}
      /\ kind = "delete" => /\ i \in Profile => ~IsDefault(i)
                            /\ i \in Oka => ~d.inUse
      /\ kind = "add" => i \in Cluster /\ x \in Profile /\ There(x)
      /\ kind = "remove" => /\ i \in Cluster /\ x \in d.links
                            /\ IsDefault(x) => ~There(x)
      /\ kind \in {"deregister", "update", "get_creds"} => i \in Cluster
      /\ kind = "edit" => \/ i \in Oka
                          \/ i \in Ksu /\ There(x)
      /\ kind = "clone" => i \in Ksu
      /\ kind = "move" => i \in Ksu /\ There(x)
  BY <1>2 DEF Accepted
<1>6. Suits(r)'
  <2>1. kind = "delete" => ~IsDefault(i)
    BY <1>5, DefaultInItem DEF IsDefault
  <2>2. kind = "remove" => x \in Profile
    BY <1>1, <1>5 DEF RecordsFit, Linked
  <2>3. IsDefault(i)' <=> IsDefault(i)
    BY DEF IsDefault
  <2> QED
    BY <1>3, <1>4, <1>5, <2>1, <2>2, <2>3 DEF Suits, IsDefault
<1>7. \A j \in Item :
        /\ items'[j].life = items[j].life
        /\ items'[j].created = items[j].created
        /\ items'[j].inUse = items[j].inUse
        /\ items'[j].links = IF detached /\ j \in Listing(i)
                               THEN items[j].links \ {i} ELSE items[j].links
        /\ items'[j] = items[j] \/ (There(j) /\ j \in Cluster /\ detached)
  <2> SUFFICES ASSUME NEW j \in Item
               PROVE  /\ items'[j].life = items[j].life
                      /\ items'[j].created = items[j].created
                      /\ items'[j].inUse = items[j].inUse
                      /\ items'[j].links = IF detached /\ j \in Listing(i)
                                             THEN items[j].links \ {i}
                                             ELSE items[j].links
                      /\ \/ items'[j] = items[j]
                         \/ There(j) /\ j \in Cluster /\ detached
    OBVIOUS
  <2>1. items[j] \in ItemRec
    BY <1>1 DEF TypeOK
  <2>2. CASE detached /\ j \in Listing(i)
    <3>1. items'[j] = [items[j] EXCEPT !.links = @ \ {i}]
      BY <1>2, <2>2
    <3>2. There(j) /\ j \in Cluster
      BY <2>2 DEF Listing
    <3> QED
      BY <2>1, <2>2, <3>1, <3>2 DEF ItemRec
  <2>3. CASE ~(detached /\ j \in Listing(i))
    <3>1. items'[j] = items[j]
      BY <1>2, <2>3
    <3> QED
      BY <2>3, <3>1
  <2> QED
    BY <2>2, <2>3
<1>8. RecordsFit'
  <2> DEFINE I == {}
  <2>1. I \in SUBSET Item /\ KsusOf(I \cap Profile) \subseteq I
    BY DEF KsusOf
  <2>2. OwnDefaults' => OwnDefaults
    BY <1>1, <1>4, HistoryGoesOn
  <2>3. NoForce' => NoForce
    BY <1>1, <1>4, HistoryGoesOn
  <2>4. \A j \in Item \ I :
          /\ items'[j].life = items[j].life
          /\ items'[j].created = items[j].created
          /\ items'[j].links \subseteq items[j].links
          /\ items'[j] = items[j] \/ There(j)
    BY <1>7
  <2>5. ASSUME NEW c \in Cluster, There(c), There(Default[c])
        PROVE  Default[c] \in items'[c].links
    <3>1. Default[c] \in items[c].links /\ c \in Item
      BY <1>0, <1>1, <2>5 DEF RecordsFit, DefaultsListed
    <3>2. detached => Default[c] # i
      BY <1>5 DEF IsDefault
    <3> QED
      BY <1>7, <3>1, <3>2
  <2> QED
    BY <1>1, <1>2, <2>1, <2>2, <2>3, <2>4, <2>5, RemovalFits
<1>9. \A j \in Item : There(j)' <=> There(j)
  BY <1>7 DEF There
<1>10. StageFits(r)'
  <2>1. items'[i] = d
    BY <1>0, <1>7
  <2>2. Reading(r)'
    <3>1. There(i)'
      BY <1>2, <1>9
    <3>2. req'[r].item = i /\ req'[r].doc = d /\ req'[r].kind = kind
      BY <1>3, <1>4
    <3> QED
      BY <1>5, <2>1, <3>1, <3>2 DEF Reading, There
  <2>3. Fresh(r)'
    BY <1>3, <1>4 DEF Fresh
  <2>4. ~Asked(r)' /\ ~Working(r)'
    BY <1>3, <1>4 DEF Asked, Working
  <2>5. Argued(r)'
    <3>1. /\ kind = "add" => There(x)'
          /\ kind = "edit" /\ i \in Ksu => There(x)'
          /\ kind = "move" => There(x)'
      <4>2. kind = "add" => There(x)'
        BY <1>0, <1>5, <1>9
      <4>3. kind \in {"edit", "move"} => items' = items
        BY <1>2
      <4> QED
        BY <1>0, <1>5, <4>2, <4>3 DEF There
    <3>2. kind = "remove" =>
             x \in items'[i].links /\ (IsDefault(x) => ~There(x)')
      <4>1. kind = "remove" => items' = items
        BY <1>2
      <4> QED
        BY <1>5, <2>1, <4>1 DEF There
    <3>3. kind = "delete" /\ i \in Profile => Listing(i)' = {}
      <4> SUFFICES ASSUME kind = "delete", i \in Profile, NEW c \in Cluster,
                          There(c)'
                   PROVE  i \notin items'[c].links
        BY DEF Listing
      <4>1. c \in Item /\ There(c)
        BY <1>0, <1>9
      <4>2. i \in items[c].links => c \in Listing(i)
        BY <4>1 DEF Listing
      <4> QED
        BY <1>7, <4>1, <4>2
    <3>4. kind = "delete" /\ i \in Oka => ~items'[i].inUse
      BY <1>5, <2>1
    <3>5. /\ req'[r].kind = kind /\ req'[r].item = i /\ req'[r].arg = x
          /\ (Listing(req[r].item)' = {} <=> Listing(i)' = {})
      BY <1>3, <1>4
    <3> QED
      BY <1>5, <2>4, <3>1, <3>2, <3>3, <3>4, <3>5 DEF Argued, There, IsDefault, Listing
  <2>6. Present(r)' /\ Holding(r)'
    BY <1>3, <1>4, <2>4 DEF Present, Holding
  <2> QED
    BY <2>2, <2>3, <2>5, <2>6 DEF StageFits
<1> QED
  BY <1>1, <1>2, <1>4, <1>6, <1>8, <1>10, StepFits

\* NbiWrite.
LEMMA NbiWriteFits ==
    ASSUME NEW r \in Request, Asks(r), TypeOK', NbiWrite(r)
    PROVE  Client'
<1> DEFINE q == req[r]
           i == q.item
           d == items[i]
           e == Marked(q.doc, r)
<1>0. /\ Cluster \subseteq Item /\ Profile \subseteq Item /\ Ksu \subseteq Item
      /\ Oka \subseteq Item
      /\ Cluster \cap Profile = {} /\ Cluster \cap Ksu = {} /\ Cluster \cap Oka = {}
      /\ Profile \cap Ksu = {} /\ Profile \cap Oka = {} /\ Ksu \cap Oka = {}
  BY GitOpsAssumption DEF Item
<1>1. /\ TypeOK /\ Named /\ InOrder /\ RecordsFit /\ late = {} /\ Suits(r)
      /\ Reading(r) /\ Argued(r)
      /\ NewIsEmpty /\ Linked /\ Listed /\ ListsExist /\ DefaultsListed /\ Emptied
  BY DEF Asks, RecordsFit
<1>2. /\ q.pc = "read" /\ q.kind # "create"
      /\ inbox' = inbox /\ task' = task /\ old' = old /\ late' = late
  BY DEF NbiWrite, extVars
<1>3. There(i) /\ q.doc = d /\ i \in Item /\ d \in ItemRec
  BY <1>1, <1>2 DEF Reading, Suits, TypeOK
<1>4. /\ items' = [items EXCEPT ![i] = e]
      /\ req' = [req EXCEPT ![r].pc = "written", ![r].doc = NoRecord]
  BY <1>3 DEF NbiWrite
<1>5. /\ Goes(r) /\ req'[r].pc = "written" /\ Open(r) /\ OnPath(r)' /\ Suits(r)'
      /\ req'[r].kind = q.kind /\ req'[r].item = i
      /\ req'[r].with = q.with /\ req'[r].arg = q.arg
      /\ task'[r].pc = "none" /\ r \notin inbox'
      /\ OwnDefaults' => OwnDefaults
      /\ NoForce' => NoForce
  BY <1>2, <1>4, WritesGoes
<1>6. /\ e \in ItemRec
      /\ e.life = d.life /\ e.created = d.created /\ e.inUse = d.inUse
      /\ e.hist[r] = "None"
      /\ e.links = IF q.kind = "move" THEN (d.links \ Profile) \cup {q.arg}
                   ELSE d.links
  <2>1. q.doc \in ItemRec
    BY <1>3
  <2> HIDE DEF e, d
  <2> QED
    BY <1>1, <1>3, <2>1, MarkedFields DEF e, d
<1> HIDE DEF e
<1>7. items'[i] = e /\ \A j \in Item \ {i} : items'[j] = items[j]
  BY <1>1, <1>3, <1>4 DEF TypeOK
<1>8. /\ \A j \in Item : There(j)' <=> There(j)
      /\ \A j \in Item : items'[j].inUse = items[j].inUse
      /\ \A j \in Item : items'[j] = items[j] \/ There(j)
  BY <1>3, <1>6, <1>7 DEF There
<1>9. RecordsFit'
  <2>1. CASE q.kind # "move"
    <3>1. \A j \in Item : SameShape(items'[j], items[j])
      BY <1>6, <1>7, <2>1 DEF SameShape
    <3> QED
      BY <1>1, <1>2, <1>5, <1>8, <3>1, ShapesFit
  <2>2. CASE q.kind = "move"
    <3>1. i \in Ksu /\ q.arg \in Profile /\ There(q.arg) /\ q.arg \in Item
      BY <1>0, <1>1, <1>2, <1>5, <2>2 DEF Suits, Named, Argued
    <3>2. e.links = (d.links \ Profile) \cup {q.arg}
      BY <1>6, <2>2
    <3>3. \A c \in Cluster : /\ c \in Item /\ items'[c] = items[c]
                             /\ Default[c] \in Item
                             /\ items'[Default[c]] = items[Default[c]]
      <4> SUFFICES ASSUME NEW c \in Cluster
                   PROVE  /\ c \in Item /\ items'[c] = items[c]
                          /\ Default[c] \in Item
                          /\ items'[Default[c]] = items[Default[c]]
        OBVIOUS
      <4>1. c \in Item /\ Default[c] \in Item /\ Default[c] \in Profile
        BY <1>0, DefaultInItem
      <4> QED
        BY <1>0, <1>7, <3>1, <4>1
    <3>4. NewIsEmpty'
      BY <1>1, <1>3, <1>6, <1>7 DEF NewIsEmpty, There
    <3>5. Linked'
      <4>1. \A j \in Item : ~There(j)' => items'[j].links = {} /\ ~items'[j].inUse
        BY <1>1, <1>3, <1>7, <1>8 DEF Linked
      <4>2. \A c \in Cluster : items'[c].links \subseteq Profile
        BY <1>1, <3>3 DEF Linked
      <4>3. ASSUME NEW j \in Ksu
            PROVE  /\ items'[j].links \subseteq Profile \cup Oka
                   /\ \A p \in items'[j].links \cap Profile : There(p)'
        <5>1. CASE j = i
          <6>1. items'[j].links = (items[j].links \ Profile) \cup {q.arg}
            BY <1>7, <3>2, <5>1
          <6> QED
            BY <1>1, <1>8, <3>1, <6>1 DEF Linked
        <5>2. CASE j # i
          BY <1>0, <1>1, <1>7, <1>8, <5>2 DEF Linked
        <5> QED
          BY <5>1, <5>2
      <4> QED
        BY <4>1, <4>2, <4>3 DEF Linked
    <3>6. Listed'
      <4>1. \A j \in Item : items'[j].links \subseteq items[j].links \cup {q.arg}
        BY <1>7, <3>2
      <4>2. q.arg \in Item /\ items[q.arg].life # "new"
        BY <3>1 DEF There
      <4>3. \A j \in Item : items'[j].life = items[j].life
        BY <1>6, <1>7
      <4> QED
        BY <1>1, <4>1, <4>2, <4>3 DEF Listed
    <3>7. ListsExist'
      <4> SUFFICES ASSUME OwnDefaults', NEW c \in Cluster, NEW p \in items'[c].links
                   PROVE  There(p)' /\ (IsDefault(p) => p = Default[c])
        BY DEF ListsExist, IsDefault
      <4>1. p \in items[c].links /\ p \in Item
        BY <1>1, <3>3 DEF Listed
      <4> QED
        BY <1>1, <1>5, <1>8, <4>1 DEF ListsExist
    <3>8. \A c \in Cluster : /\ There(c)' <=> There(c)
                             /\ There(Default[c])' <=> There(Default[c])
      BY <3>3 DEF There
    <3>9. DefaultsListed'
      BY <1>1, <3>3, <3>8 DEF DefaultsListed
    <3>10. Emptied'
      BY <1>1, <1>2, <1>5, <3>3, <3>8 DEF Emptied
    <3> QED
      BY <3>4, <3>5, <3>6, <3>7, <3>9, <3>10 DEF RecordsFit
  <2> QED
    BY <2>1, <2>2
<1>10. Fresh(r)'
  BY <1>1, <1>2, <1>5 DEF Suits, Fresh
<1>11. Argued(r)'
  <2>1. q.kind = "add" => There(q.arg)'
    BY <1>0, <1>1, <1>2, <1>5, <1>8 DEF Argued, Suits
  <2>2. q.kind = "edit" /\ i \in Ksu => There(q.arg)'
    BY <1>0, <1>1, <1>5, <1>8 DEF Argued, Named
  <2>3. q.kind = "remove" =>
           q.arg \in items'[i].links /\ (IsDefault(q.arg) => ~There(q.arg)')
    BY <1>0, <1>1, <1>2, <1>5, <1>6, <1>7, <1>8 DEF Argued, Suits
  <2>4. q.kind = "delete" /\ i \in Profile => Listing(i)' = {}
    <3> SUFFICES ASSUME q.kind = "delete", i \in Profile, NEW c \in Cluster,
                        There(c)'
                 PROVE  i \notin items'[c].links
      BY <1>5 DEF Listing
    <3>1. items'[c] = items[c]
      BY <1>0, <1>7
    <3> QED
      BY <1>1, <1>5, <3>1 DEF Argued, Listing, There
  <2>5. q.kind = "delete" /\ i \in Oka => ~items'[i].inUse
    BY <1>1, <1>3, <1>5, <1>8 DEF Argued
  <2> QED
    BY <1>2, <1>5, <2>1, <2>2, <2>3, <2>4, <2>5 DEF Argued, There, IsDefault, Listing
<1>12. StageFits(r)'
  <2>1. /\ items'[req'[r].item].life = "there"
        /\ items'[req'[r].item].hist[r] # "absent"
    BY <1>3, <1>5, <1>6, <1>7 DEF There
  <2>2. There(req[r].item)'
    BY <2>1 DEF There
  <2> QED
    BY <1>5, <1>10, <1>11, <2>1, <2>2, WrittenFits
<1> QED
  BY <1>1, <1>2, <1>5, <1>9, <1>12, StepFits

\* NbiDeleteKsu.
LEMMA NbiDeleteKsuFits ==
    ASSUME NEW r \in Request, Asks(r), TypeOK', NbiDeleteKsu(r)
    PROVE  Client'
<1> DEFINE q == req[r]
           k == q.item
           d == items[k]
           e == Marked(q.doc, r)
           unused == UnusedAfter(k, q.doc)
           A == IF \A a \in unused : There(a) THEN unused ELSE {}
           pc == IF \A a \in unused : There(a) THEN "written" ELSE "done"
<1>0. /\ Cluster \subseteq Item /\ Profile \subseteq Item /\ Ksu \subseteq Item
      /\ Oka \subseteq Item
      /\ Cluster \cap Profile = {} /\ Cluster \cap Ksu = {} /\ Cluster \cap Oka = {}
      /\ Profile \cap Ksu = {} /\ Profile \cap Oka = {} /\ Ksu \cap Oka = {}
  BY GitOpsAssumption DEF Item
<1>1. /\ TypeOK /\ Named /\ InOrder /\ RecordsFit /\ late = {} /\ Suits(r)
      /\ Reading(r) /\ Argued(r) /\ Linked /\ DefaultsListed
  BY DEF Asks, RecordsFit
<1>2. /\ q.pc = "read" /\ q.kind = "delete" /\ k \in Ksu
      /\ inbox' = inbox /\ task' = task /\ old' = old /\ late' = late
  BY DEF NbiDeleteKsu, extVars
<1>3. There(k) /\ q.doc = d /\ k \in Item /\ d \in ItemRec
  BY <1>1, <1>2 DEF Reading, Suits, TypeOK
<1>4. \A p \in q.doc.links \cap Profile : There(p)
  BY <1>1, <1>2, <1>3 DEF Linked
<1>5. /\ unused \subseteq Oka /\ k \notin unused
      /\ A \subseteq Oka /\ k \notin A /\ \A a \in A : There(a)
  BY <1>0, <1>2 DEF UnusedAfter
<1>6. req' = [req EXCEPT ![r].pc = pc, ![r].doc = NoRecord]
  BY <1>3, <1>4 DEF NbiDeleteKsu, TypeOK
<1>7. /\ items'[k] = e
      /\ \A j \in Item \ {k} :
            items'[j] = IF j \in A THEN [items[j] EXCEPT !.inUse = FALSE]
                        ELSE items[j]
  BY <1>3, <1>4 DEF NbiDeleteKsu
<1> HIDE DEF unused
<1>8. /\ Goes(r) /\ req'[r].pc = pc /\ Open(r) /\ OnPath(r)' /\ Suits(r)'
      /\ req'[r].kind = q.kind /\ req'[r].item = k
      /\ req'[r].with = q.with /\ req'[r].arg = q.arg
      /\ task'[r].pc = "none" /\ r \notin inbox'
      /\ OwnDefaults' => OwnDefaults
      /\ NoForce' => NoForce
  <2>1. pc \in {"written", "done"}
    OBVIOUS
  <2> HIDE DEF pc
  <2> QED
    BY <1>2, <1>6, <2>1, WritesGoes
<1>9. /\ e \in ItemRec /\ e.life = d.life /\ e.created = d.created
      /\ e.links = d.links /\ e.hist[r] = "None"
  <2>1. q.doc \in ItemRec
    BY <1>3
  <2> HIDE DEF e, d, A, pc
  <2>2. /\ e \in ItemRec /\ e.life = d.life /\ e.created = d.created
        /\ e.hist[r] = "None"
        /\ e.links = IF q.kind = "move" THEN (d.links \ Profile) \cup {q.arg}
                     ELSE d.links
    BY <1>1, <1>3, <2>1, MarkedFields DEF e, d
  <2> QED
    BY <1>2, <2>2
<1> HIDE DEF e
<1>10. \A j \in Item : /\ items'[j].life = items[j].life
                       /\ items'[j].created = items[j].created
                       /\ items'[j].links = items[j].links
                       /\ items'[j] = items[j] \/ There(j)
  <2> SUFFICES ASSUME NEW j \in Item
               PROVE  /\ items'[j].life = items[j].life
                      /\ items'[j].created = items[j].created
                      /\ items'[j].links = items[j].links
                      /\ items'[j] = items[j] \/ There(j)
    OBVIOUS
  <2>1. items[j] \in ItemRec
    BY <1>1 DEF TypeOK
  <2>2. CASE j = k
    BY <1>3, <1>7, <1>9, <2>2
  <2>3. CASE j \in A
    BY <1>5, <1>7, <2>1, <2>3 DEF ItemRec
  <2>4. CASE j # k /\ j \notin A
    BY <1>7, <2>4
  <2> QED
    BY <2>2, <2>3, <2>4
<1>11. \A j \in Item : There(j)' <=> There(j)
  BY <1>10 DEF There
<1>12. RecordsFit'
  <2> DEFINE I == {}
  <2>1. /\ I \in SUBSET Item /\ \A j \in I : items'[j] = NoLonger(items[j])
        /\ \A p \in I \cap Profile : There(p)
        /\ KsusOf(I \cap Profile) \subseteq I
    BY DEF KsusOf
  <2>2. \A j \in Item \ I :
              /\ items'[j].life = items[j].life
              /\ items'[j].created = items[j].created
              /\ items'[j].links \subseteq items[j].links
              /\ items'[j] = items[j] \/ There(j)
    BY <1>10
  <2>3. \A c \in Cluster \ I : items'[c].links \cap I = {}
    OBVIOUS
  <2>4. \A c \in Cluster \ I :
              There(c) /\ There(Default[c]) /\ Default[c] \notin I =>
                 Default[c] \in items'[c].links
    BY <1>0, <1>1, <1>10 DEF DefaultsListed
  <2>5. \A c \in Cluster \cap I :
              old'[c] = "none" /\ (There(Default[c]) => Default[c] \in I)
    OBVIOUS
  <2>6. \A c \in Cluster : old'[c] = old[c]
    BY <1>2
  <2> HIDE DEF I
  <2> QED
    BY <1>1, <1>8, <2>1, <2>2, <2>3, <2>4, <2>5, <2>6, RemovalFits
<1>13. CASE pc = "done"
  <2>1. ~Open(r)'
    BY <1>8, <1>13 DEF Open, TaskIsLive
  <2> QED
    BY <1>1, <1>2, <1>8, <1>12, <2>1, IdleFits, StepFits
<1>14. CASE pc = "written"
  <2>1. Fresh(r)'
    BY <1>2, <1>8 DEF Fresh
  <2>2. Argued(r)'
    BY <1>0, <1>2, <1>8 DEF Argued
  <2>3. /\ items'[req'[r].item].life = "there"
        /\ items'[req'[r].item].hist[r] # "absent"
    BY <1>3, <1>7, <1>8, <1>9 DEF There
  <2>4. There(req[r].item)'
    BY <2>3 DEF There
  <2>5. StageFits(r)'
    BY <1>8, <1>14, <2>1, <2>2, <2>3, <2>4, WrittenFits
  <2> QED
    BY <1>1, <1>2, <1>8, <1>12, <2>5, StepFits
<1> QED
  BY <1>13, <1>14

-----------------------------------------------------------------------------
(* The invariant                                                            *)

\* What the records are at the start.
AtFirst(I, L) ==
    /\ I \in {{}, Item \ Ksu, Item}
    /\ L \in [Ksu \cap I -> (Profile \cap I) \X (Oka \cap I)]
    /\ \A i \in Item \ I : items[i] = NoRecord
    /\ \A i \in I :
         /\ items[i].life = "there" /\ items[i].state = "CREATED"
         /\ items[i].created = (i \in Cluster)
         /\ items[i].inUse = (\E k \in DOMAIN L : L[k][2] = i)
         /\ i \in Cluster => items[i].links = {Default[i]}
         /\ i \in Ksu => items[i].links = {L[i][1], L[i][2]}
         /\ i \notin Cluster \cup Ksu => items[i].links = {}
    /\ \A c \in Cluster : /\ old[c] = "none" \/ c \in I
                          /\ c \in I => attached[c] = {Default[c]}

\* Nothing is under way.
Fallow ==
    /\ \A r \in Request : req[r] = NoReq /\ task[r].pc = "none" /\ ~Open(r)
                          /\ ~task[r].second
    /\ inbox = {} /\ late = {} /\ ~overlap

LEMMA InitFields ==
    ASSUME Init PROVE Fallow /\ \E I, L : AtFirst(I, L)
<1>1. Fallow
  <2>1. /\ req = [r \in Request |-> NoReq] /\ task = [r \in Request |-> NoTask]
        /\ inbox = {} /\ late = {} /\ overlap = FALSE
    BY DEF Init
  <2>2. NoTask.pc = "none" /\ ~NoTask.second /\ NoReq.pc = "free"
    BY DEF NoTask, NoReq
  <2> QED
    BY <2>1, <2>2 DEF Fallow, Open, TaskIsLive
<1>2. PICK I \in {{}, Item \ Ksu, Item} :
        \E L \in [Ksu \cap I -> (Profile \cap I) \X (Oka \cap I)] :
          /\ items = [i \in Item |-> IF i \in I THEN Settled(i, L)
                                               ELSE NoRecord]
          /\ old = [c \in Cluster |-> IF c \in I THEN "ENABLED" ELSE "none"]
          /\ repo = I
          /\ attached = [c \in Cluster |->
                            IF c \in I THEN {Default[c]} ELSE {}]
  BY DEF Init
<1>3. PICK L \in [Ksu \cap I -> (Profile \cap I) \X (Oka \cap I)] :
          items = [i \in Item |-> IF i \in I THEN Settled(i, L) ELSE NoRecord]
  BY <1>2, Zenon
<1>4. /\ old = [c \in Cluster |-> IF c \in I THEN "ENABLED" ELSE "none"]
      /\ attached = [c \in Cluster |-> IF c \in I THEN {Default[c]} ELSE {}]
  BY <1>2
<1>5. ASSUME NEW i \in I
      PROVE  /\ items[i].life = "there" /\ items[i].state = "CREATED"
             /\ items[i].created = (i \in Cluster)
             /\ items[i].inUse = (\E k \in DOMAIN L : L[k][2] = i)
             /\ i \in Cluster => items[i].links = {Default[i]}
             /\ i \in Ksu => items[i].links = {L[i][1], L[i][2]}
             /\ i \notin Cluster \cup Ksu => items[i].links = {}
  <2> DEFINE links == IF i \in Cluster THEN {Default[i]}
                      ELSE IF i \in DOMAIN L THEN {L[i][1], L[i][2]} ELSE {}
             used == \E k \in DOMAIN L : L[k][2] = i
             osm == i \in Cluster
  <2>0. Cluster \cap Ksu = {}
    BY GitOpsAssumption
  <2>1. items[i] =
          [NoRecord EXCEPT !.life = "there", !.state = "CREATED",
                           !.operating = "IDLE", !.resource = "READY",
                           !.created = osm, !.inUse = used, !.links = links]
    <3>1. items[i] = Settled(i, L)
      BY <1>3, Item \ Ksu \subseteq Item
    <3> QED
      BY <3>1, Zenon DEF Settled
  <2>2. /\ i \in Cluster => links = {Default[i]}
        /\ i \in Ksu => links = {L[i][1], L[i][2]}
        /\ i \notin Cluster \cup Ksu => links = {}
    BY <2>0
  <2> HIDE DEF links, used, osm
  <2>3. NoRecord \in ItemRec
    BY NoRecordHonest DEF Honest
  <2>4. /\ items[i].life = "there" /\ items[i].state = "CREATED"
        /\ items[i].created = osm /\ items[i].inUse = used
        /\ items[i].links = links
    BY <2>1, <2>3 DEF ItemRec
  <2> QED
    BY <2>2, <2>4 DEF used, osm
<1>6. AtFirst(I, L)
  <2>1. \A i \in Item \ I : items[i] = NoRecord
    BY <1>3
  <2>2. \A c \in Cluster : /\ old[c] = "none" \/ c \in I
                           /\ c \in I => attached[c] = {Default[c]}
    BY <1>4
  <2> QED
    BY <1>5, <2>1, <2>2 DEF AtFirst
<1> QED
  BY <1>1, <1>6

LEMMA InitClient == Init => Client
<1> SUFFICES ASSUME Init PROVE Client
  OBVIOUS
<1>0. /\ Cluster \subseteq Item /\ Profile \subseteq Item /\ Ksu \subseteq Item
      /\ Oka \subseteq Item
      /\ Cluster \cap Profile = {} /\ Cluster \cap Ksu = {} /\ Cluster \cap Oka = {}
      /\ Profile \cap Ksu = {} /\ Profile \cap Oka = {} /\ Ksu \cap Oka = {}
  BY GitOpsAssumption DEF Item
<1>1. Fallow
  BY InitFields
<1>2. PICK I, L : AtFirst(I, L)
  BY InitFields
<1>3. I \in {{}, Item \ Ksu, Item}
  BY <1>2 DEF AtFirst
<1>4. \A i \in I : items[i].life = "there"
  BY <1>2 DEF AtFirst
<1>5. \A i \in Item \ I : items[i] = NoRecord
  BY <1>2 DEF AtFirst
<1>6. /\ NoRecord.life = "new" /\ NoRecord.links = {} /\ ~NoRecord.inUse
      /\ ~NoRecord.created
  BY DEF NoRecord
<1>7. /\ I \subseteq Item
      /\ \A i \in Item : i \in I <=> There(i)
      /\ \A i \in Item : items[i].life # "gone"
  BY <1>3, <1>4, <1>5, <1>6 DEF There
<1>8. \A c \in Cluster :
         IF c \in I
           THEN items[c].links = {Default[c]} /\ Default[c] \in I
                /\ items[c].created
           ELSE items[c].links = {} /\ Default[c] \notin I
  <2> SUFFICES ASSUME NEW c \in Cluster
               PROVE  IF c \in I
                        THEN items[c].links = {Default[c]} /\ Default[c] \in I
                             /\ items[c].created
                        ELSE items[c].links = {} /\ Default[c] \notin I
    OBVIOUS
  <2>1. Default[c] \in Profile /\ c \in Item /\ Default[c] \in Item
    BY <1>0, DefaultInItem
  <2>2. CASE c \in I
    <3>1. items[c].links = {Default[c]} /\ items[c].created
      BY <1>2, <2>2 DEF AtFirst
    <3> QED
      BY <1>0, <1>3, <2>1, <2>2, <3>1
  <2>3. CASE c \notin I
    BY <1>0, <1>3, <1>5, <1>6, <2>1, <2>3
  <2> QED
    BY <2>2, <2>3
<1>9. \A k \in Ksu :
         IF k \in I
           THEN /\ items[k].links = {L[k][1], L[k][2]}
                /\ L[k][1] \in Profile \cap I /\ L[k][2] \in Oka \cap I
           ELSE items[k].links = {}
  <2> SUFFICES ASSUME NEW k \in Ksu
               PROVE  IF k \in I
                        THEN /\ items[k].links = {L[k][1], L[k][2]}
                             /\ L[k][1] \in Profile \cap I
                             /\ L[k][2] \in Oka \cap I
                        ELSE items[k].links = {}
    OBVIOUS
  <2>1. CASE k \in I
    <3>1. items[k].links = {L[k][1], L[k][2]}
      BY <1>2, <2>1 DEF AtFirst
    <3>2. L[k] \in (Profile \cap I) \X (Oka \cap I)
      BY <1>2, <2>1 DEF AtFirst
    <3> QED
      BY <2>1, <3>1, <3>2
  <2>2. CASE k \notin I
    BY <1>0, <1>5, <1>6, <2>2
  <2> QED
    BY <2>1, <2>2
<1>10. \A i \in Item \ (Cluster \cup Ksu) : items[i].links = {}
  <2>1. \A i \in I \ (Cluster \cup Ksu) : items[i].links = {}
    BY <1>2 DEF AtFirst
  <2> QED
    BY <1>5, <1>6, <2>1
<1>11. NewIsEmpty
  BY <1>4, <1>5 DEF NewIsEmpty
<1>12. Linked
  <2>1. \A i \in Item : ~There(i) => items[i].links = {} /\ ~items[i].inUse
    BY <1>5, <1>6, <1>7
  <2>2. \A c \in Cluster : items[c].links \subseteq Profile
    BY <1>8, DefaultInItem
  <2>3. ASSUME NEW k \in Ksu
        PROVE  /\ items[k].links \subseteq Profile \cup Oka
               /\ \A p \in items[k].links \cap Profile : There(p)
    BY <1>0, <1>7, <1>9
  <2> QED
    BY <2>1, <2>2, <2>3 DEF Linked
<1>13. Listed
  <2> SUFFICES ASSUME NEW e \in Item, NEW j \in items[e].links
               PROVE  j \in Item /\ items[j].life # "new"
    BY DEF Listed
  <2>1. j \in I
    BY <1>8, <1>9, <1>10
  <2> QED
    BY <1>4, <1>7, <2>1
<1>14. ListsExist
  BY <1>4, <1>8 DEF ListsExist, There
<1>15. DefaultsListed
  <2> SUFFICES ASSUME NEW c \in Cluster
               PROVE  /\ There(c) /\ There(Default[c]) =>
                           Default[c] \in items[c].links
                      /\ ~items[c].created => items[Default[c]].life = "new"
    BY DEF DefaultsListed
  <2>1. c \in Item /\ Default[c] \in Item
    BY <1>0, DefaultInItem
  <2> QED
    BY <1>5, <1>6, <1>7, <1>8, <2>1
<1>16. Emptied
  <2> SUFFICES ASSUME NEW c \in Cluster
               PROVE  /\ items[c].life = "new" => old[c] = "none"
                      /\ items[c].life # "gone"
    BY DEF Emptied
  <2>1. old[c] = "none" \/ c \in I
    BY <1>2 DEF AtFirst
  <2> QED
    BY <1>0, <1>4, <1>7, <2>1
<1>17. RecordsFit
  BY <1>11, <1>12, <1>13, <1>14, <1>15, <1>16 DEF RecordsFit
<1>18. InOrder
  <2>1. NoReq.pc = "free"
    BY DEF NoReq
  <2>2. Alone /\ InTurn
    BY <1>1, <2>1 DEF Fallow, Alone, InTurn
  <2> QED
    BY <1>1, <2>1, <2>2 DEF Fallow, InOrder, OnPath, Suits
<1>19. ASSUME NEW r \in Request PROVE StageFits(r)
  <2>1. /\ req[r].pc = "free" /\ task[r].pc = "none" /\ r \notin inbox
        /\ ~Open(r)
    BY <1>1 DEF Fallow, NoReq
  <2>2. ~Asked(r) /\ ~Working(r)
    BY <2>1 DEF Asked, Working
  <2> QED
    BY <2>1, <2>2 DEF StageFits, Reading, Fresh, Argued, Present, Holding
<1> QED
  BY <1>1, <1>17, <1>18, <1>19 DEF Client, Fallow

\* What was disturbed stays so.
Grows == (overlap => overlap') /\ faults \subseteq faults'

LEMMA DisturbanceGrows ==
    ASSUME Next PROVE Grows
<1>1. ASSUME NEW r \in Request, NbiRequest(r) PROVE Grows
  <2>1. ASSUME NEW i \in Item, NEW kind \in Kinds, NbiNew(r, i, kind)
        PROVE  Grows
    BY <2>1 DEF NbiNew, Opens, Grows
  <2>2. ASSUME NEW k \in Ksu, NEW with \in SUBSET Ksu, NEW p \in Profile,
               NEW a \in Oka, NbiMarkOka(r, k, with, p, a)
        PROVE  Grows
    BY <2>2 DEF NbiMarkOka, Opens, Grows
  <2>3. ASSUME NEW kind \in Kinds, NEW i \in Item, NEW x \in Item \cup {NoItem},
               NEW force \in BOOLEAN, NbiRead(r, kind, i, x, force)
        PROVE  Grows
    BY <2>3 DEF NbiRead, Opens, Grows
  <2> QED
    BY <1>1, <2>1, <2>2, <2>3 DEF NbiRequest
<1>2. ASSUME NEW r \in Request, NbiStep(r) PROVE Grows
  BY <1>2 DEF NbiStep, NbiNewKsus, NbiWrite, NbiDeleteKsu, NbiSend, NbiOld, Grows
<1>3. ASSUME NEW r \in Request, NbiSendFails(r) \/ Deliver(r)
      PROVE  Grows
  BY <1>3 DEF NbiSendFails, Deliver, Fault, Grows
<1>4. ASSUME NEW r \in Request, LcmStep(r) PROVE Grows
  <2>1. ASSUME NEW ok \in BOOLEAN,
               \/ Launch(r, ok) \/ EndItem(r, ok) \/ EndCluster(r, ok)
               \/ EndDeregister(r, ok) \/ EndDelete(r, ok)
               \/ EndDeleteKsu(r, ok) \/ EndDeleteCluster(r, ok)
        PROVE  Grows
    <3>1. overlap' = overlap /\ faults' = faults
      BY <2>1 DEF Launch, EndItem, EndCluster, EndDeregister, EndDelete,
                  EndDeleteKsu, EndDeleteCluster, CheckEnds
    <3> QED
      BY <3>1 DEF Grows
  <2>2. ASSUME NEW ok \in BOOLEAN, Poll(r, ok) PROVE Grows
    BY <2>2 DEF Poll, Fault, Grows
  <2>3. CASE Start(r) \/ Finish(r) \/ EndGetCreds(r)
    BY <2>3 DEF Start, Finish, EndGetCreds, Grows
  <2>4. CASE \E to \in {"ENABLED", "ERROR"} : Publish(r, to)
    BY <2>4 DEF Publish, Grows
  <2> QED
    BY <1>4, <2>1, <2>2, <2>3, <2>4 DEF LcmStep
<1>5. ASSUME NEW r \in Request, CheckProgress(r) \/ LateEffect(r)
      PROVE  Grows
  BY <1>5 DEF CheckProgress, LateEffect, Grows
<1>6. CASE Crash
  BY <1>6 DEF Crash, Fault, Grows
<1> QED
  BY <1>1, <1>2, <1>3, <1>4, <1>5, <1>6 DEF Next

\* A step of a request that a careful client sees.
LEMMA RequestKeepsClient ==
    ASSUME GitOpsInv, GitOpsInv', Client, Undisturbed', NEW r \in Request,
           \/ NbiRequest(r) \/ NbiStep(r) \/ NbiSendFails(r) \/ Deliver(r)
    PROVE  Client'
<1>1. Asks(r) /\ TypeOK'
  BY ClientAsks DEF GitOpsInv
<1>2. CASE NbiRequest(r)
  <2>1. MayOpen(r)
    BY <1>2 DEF NbiRequest
  <2>2. ASSUME NEW i \in Item, NEW kind \in Kinds, NbiNew(r, i, kind)
        PROVE  Client'
    BY <1>1, <2>1, <2>2, NbiNewFits
  <2>3. ASSUME NEW k \in Ksu, NEW with \in SUBSET Ksu, NEW p \in Profile,
               NEW a \in Oka, NbiMarkOka(r, k, with, p, a)
        PROVE  Client'
    BY <1>1, <2>1, <2>3, NbiMarkOkaFits
  <2>4. ASSUME NEW kind \in Kinds, NEW i \in Item, NEW x \in Item \cup {NoItem},
               NEW force \in BOOLEAN, NbiRead(r, kind, i, x, force)
        PROVE  Client'
    BY <1>1, <2>1, <2>4, NbiReadFits
  <2> QED
    BY <1>2, <2>2, <2>3, <2>4 DEF NbiRequest
<1>3. CASE NbiStep(r)
  BY <1>1, <1>3, NbiNewKsusFits, NbiWriteFits, NbiDeleteKsuFits, NbiSendFits,
     NbiOldFits DEF NbiStep
<1>4. CASE NbiSendFails(r) \/ Deliver(r)
  BY <1>1, <1>4, NbiSendFailsFits, DeliverFits
<1> QED
  BY <1>2, <1>3, <1>4

\* The coroutine that takes a step is known.
LEMMA StepIsLive ==
    ASSUME NEW r \in Request, LcmStep(r) \/ CheckProgress(r)
    PROVE  TaskIsLive(r)
<1>1. task[r].pc \in {"scheduled", "launch", "poll", "check", "finish", "publish"}
  BY DEF LcmStep, Start, Launch, Poll, EndItem, EndCluster, EndDeregister,
         EndDelete, EndDeleteKsu, EndDeleteCluster, CheckEnds, Finish,
         EndGetCreds, Publish, CheckProgress
<1> QED
  BY <1>1 DEF TaskIsLive

LEMMA StutterKeepsClient ==
    ASSUME UNCHANGED vars PROVE Client' = Client /\ Undisturbed' = Undisturbed
<1>1. /\ items' = items /\ old' = old /\ req' = req /\ inbox' = inbox
      /\ task' = task /\ late' = late /\ overlap' = overlap
      /\ faults' = faults
  BY DEF vars, extVars
<1>2. RecordsFit' = RecordsFit
  BY <1>1 DEF RecordsFit, NewIsEmpty, Linked, Listed, ListsExist, DefaultsListed,
              Emptied, OwnDefaults, NoForce, IsDefault, There
<1>3. InOrder' = InOrder
  BY <1>1 DEF InOrder, Alone, InTurn, OnPath, Suits, Open, TaskIsLive, IsDefault
<1>4. \A r : StageFits(r)' = StageFits(r)
  BY <1>1 DEF StageFits, Reading, Fresh, Argued, Present, Holding, Asked,
              Working, Open, TaskIsLive, There, IsDefault, Listing, SameShape
<1> QED
  BY <1>1, <1>2, <1>3, <1>4 DEF Client, Undisturbed

\* Every step keeps the client's view.
LEMMA NextKeepsClient == ClientInv /\ [Next]_vars => ClientInv'
<1> SUFFICES ASSUME ClientInv, [Next]_vars PROVE ClientInv'
  OBVIOUS
<1>1. GitOpsInv'
  BY NextKeeps DEF ClientInv
<1>2. CASE UNCHANGED vars
  BY <1>1, <1>2, StutterKeepsClient DEF ClientInv
<1>3. CASE Next
  <2> SUFFICES ASSUME Undisturbed' PROVE Client'
    BY <1>1 DEF ClientInv
  <2>1. Client /\ GitOpsInv
    BY <1>3, DisturbanceGrows DEF ClientInv, Grows, Undisturbed
  <2>2. ASSUME NEW r \in Request, LcmStep(r) \/ CheckProgress(r)
        PROVE  Client'
    <3>1. Known(r)
      BY <2>1, <2>2, StepIsLive, LiveKnown
    <3>2. TypeOK'
      BY <1>1 DEF GitOpsInv
    <3> QED
      BY <2>2, <3>1, <3>2, LcmStepHasEffect, LcmKeepsClient
  <2>3. ASSUME NEW r \in Request, LateEffect(r) PROVE Client'
    BY <2>1, <2>3 DEF Client, LateEffect
  <2>4. ~Crash
    BY DEF Crash, Fault, Undisturbed
  <2> QED
    BY <1>1, <1>3, <2>1, <2>2, <2>3, <2>4, RequestKeepsClient DEF Next
<1> QED
  BY <1>2, <1>3

-----------------------------------------------------------------------------
(* What a careful client may rely on                                        *)

\* For a client who makes one request at a time, with no slow workflow and no
\* crash, the copies of NBI and LCM are of the record as it is, and the records
\* refer to each other as the handlers mean them to.
THEOREM ClientsView == Spec => []ClientInv
<1>1. Init => ClientInv
  BY InitInv, InitClient DEF ClientInv
<1>2. ClientInv /\ [Next]_vars => ClientInv'
  BY NextKeepsClient
<1> QED
  BY <1>1, <1>2, PTL DEF Spec

\* A cluster that is gone, and not by force, has left nothing: no entry in
\* k8sclusters, no default profile, none of its KSUs (delete_cluster).
THEOREM ClustersLeaveNothing == Spec => []NothingLeftBehind
<1>1. ClientInv => NothingLeftBehind
  <2> SUFFICES ASSUME Client, NoForce, NEW c \in Cluster,
                      items[c].life = "gone"
               PROVE  /\ old[c] = "none" /\ ~There(Default[c])
                      /\ KsusOf({Default[c]}) = {}
    BY DEF ClientInv, NothingLeftBehind, NoForce
  <2>1. old[c] = "none" /\ ~There(Default[c])
    BY DEF Client, RecordsFit, Emptied
  <2>2. Default[c] \in Profile
    BY DefaultInItem
  <2>3. \A k \in Ksu : Default[c] \notin items[k].links
    BY <2>1, <2>2 DEF Client, RecordsFit, Linked
  <2> QED
    BY <2>1, <2>3 DEF KsusOf
<1> QED
  BY <1>1, ClientsView, PTL

-----------------------------------------------------------------------------
(* States, marks, lists and answers                                         *)

BusyKinds == {"create", "register", "delete", "add", "update", "edit", "move"}
BeingDeleted == {"IN_DELETION", "DELETED", "FAILED_DELETION"}

\* The record, and every copy of it, shows that an operation is on its way.
BusyHeld(r) ==
    LET d == items[req[r].item]
        t == task[r]
    IN req[r].kind \in BusyKinds =>
         /\ Asked(r) \/ Working(r) => d.operating # "IDLE"
         /\ Working(r) => /\ t.doc.operating # "IDLE"
                          /\ req[r].item \in Cluster => t.first.operating # "IDLE"

\* No KSU was edited: that does not mark its new OKA.
NoKsuEdit == \A r \in Request : req[r].kind = "edit" => req[r].item \notin Ksu

Deployed(k) == There(k) /\ items[k].state \notin BeingDeleted
UsedAreMarked ==
    NoKsuEdit =>
        \A k \in Ksu : Deployed(k) =>
            \A a \in items[k].links \cap Oka : items[a].inUse

\* The state in the copy is that of the KSU, and a KSU being created is marked.
MarkHeld(r) ==
    LET q == req[r]
        d == items[q.item]
    IN /\ q.pc = "read" /\ q.kind = "create" =>
            \A a \in q.doc.links \cap Oka : items[a].inUse
       /\ q.kind = "create" /\ q.item \in Ksu /\ (Asked(r) \/ Working(r)) =>
            d.state \notin BeingDeleted
       /\ Working(r) /\ q.item \in Ksu => task[r].doc.state = d.state

\* The clusters whose record may be behind the workflow that has just ended.
BeingChecked == {req[r].item : r \in {q \in Request :
                                        task[q].pc \in {"check", "finish"}}}
ListsHold ==
    \A c \in Cluster \ BeingChecked :
        There(c) /\ items[c].state = "CREATED" => items[c].links \subseteq attached[c]

\* The list as the command leaves it.
NewLinks(r) ==
    CASE Command(r) = "add" -> task[r].doc.links \cup {req[r].arg}
      [] Command(r) = "remove" -> task[r].doc.links \ {req[r].arg}
      [] OTHER -> task[r].doc.links

ListHeld(r) ==
    LET c == req[r].item
        d == items[c]
    IN c \in Cluster =>
         /\ Asked(r) \/ Working(r) =>
              /\ req[r].kind = "register" => d.links = {}
              /\ req[r].kind = "create" => d.links \subseteq {Default[c]}
         /\ task[r].pc \in {"launch", "poll"} => task[r].doc.state = d.state
         /\ task[r].pc \in {"check", "finish"} /\ task[r].doc.state = "CREATED" =>
              NewLinks(r) \subseteq attached[c]

\* What the end of a coroutine rests on.
AnswerHeld(r) ==
    LET d == items[req[r].item]
        t == task[r]
    IN /\ t.pc = "finish" => t.doc.hist[r] = "FAILED" /\ req[r].kind = "update"
       /\ t.pc = "publish" => d.hist[r] \in {"COMPLETED", "FAILED"}
       /\ t.pc = "check" /\ req[r].item \in Ksu /\ req[r].kind = "delete" =>
            t.doc.state = "DELETED" /\ d.state = "DELETED"

\* The request is over, and no other one about its record came after it.
Due(r) ==
    /\ task[r].pc = "over" /\ req[r].with = {}
    /\ \A q \in Request : q > r => req[q].item # req[r].item
    /\ req[r].kind \notin {"clone", "move", "get_creds"}
AllAnswered == OwnDefaults => \A r \in Request : Due(r) => Answered(r)

\* What is open is the last request that came.
Latest ==
    \A r \in Request : Open(r) =>
        \A q \in Request : q > r => req[q].pc = "free"

\* Requests are about what the handlers know.
Commands == BusyKinds \cup {"remove", "deregister", "get_creds", "clone"}
KindsKnown == \A r \in Request : req[r].pc # "free" => req[r].kind \in Commands

Held(r) == BusyHeld(r) /\ MarkHeld(r) /\ ListHeld(r) /\ AnswerHeld(r)

Careful ==
    /\ KindsKnown /\ Latest /\ UsedAreMarked /\ ListsHold /\ AllAnswered
    /\ \A r \in Request : Held(r)

CarefulInv == ClientInv /\ (Undisturbed => Careful)

-----------------------------------------------------------------------------
(* What a step does to the records of others                                *)

\* A record that is not the one of the request that moves.
Calm(j, r) ==
    \/ items'[j] = items[j]
    \/ items'[j].life = "gone"
    \/ items[j].life = "new" /\ j \notin Cluster
    \/ /\ There(j) /\ There(j)' /\ items'[j].links \subseteq items[j].links
       /\ \A s \in Request \ {r} : items'[j].hist[s] = items[j].hist[s]
       /\ j \in Cluster \cup Ksu => /\ items'[j].state = items[j].state
                                    /\ items'[j].resource = items[j].resource

\* A KSU that is deployed was so, with its marks, or they are set.
MarksStay ==
    \A k \in Ksu : \A a \in Oka :
        Deployed(k)' /\ a \in items'[k].links =>
           \/ items'[a].inUse
           \/ Deployed(k) /\ a \in items[k].links /\ ~items[a].inUse

\* The list of the cluster, and the answer, of the request that moves.
OwnList(r) ==
    LET c == req'[r].item
    IN /\ c \in Cluster /\ items'[c].life = "there" /\ items'[c].state = "CREATED"
       /\ task'[r].pc \notin {"check", "finish"}
       => items'[c].links \subseteq attached'[c]
OwnAnswer(r) == OwnDefaults' /\ Due(r)' => Answered(r)'

\* Everything a step of r must show.
Moves(r) ==
    /\ \A j \in Item : j # req'[r].item => Calm(j, r)
    /\ \A c \in Cluster : c # req'[r].item => attached'[c] = attached[c]
    /\ NoKsuEdit' => MarksStay
    /\ OwnList(r) /\ OwnAnswer(r) /\ Held(r)'

\* Nothing is held for a request that is not open.
LEMMA IdleHeld ==
    ASSUME NEW r \in Request, ~Open(r)'
    PROVE  Held(r)'
<1>1. /\ req'[r].pc \notin {"read", "written", "old"} /\ r \notin inbox'
      /\ task'[r].pc \in {"none", "over"}
  BY DEF Open, TaskIsLive
<1>2. ~Asked(r)' /\ ~Working(r)'
  BY <1>1 DEF Asked, Working
<1>3. BusyHeld(r)' /\ MarkHeld(r)'
  BY <1>1, <1>2 DEF BusyHeld, MarkHeld
<1>4. ListHeld(r)' /\ AnswerHeld(r)'
  BY <1>1, <1>2 DEF ListHeld, AnswerHeld
<1> QED
  BY <1>3, <1>4 DEF Held

\* An answer stays as others go on.
LEMMA AnswersStay ==
    ASSUME NEW r \in Request, NEW s \in Request \ {r}, TypeOK, Client,
           Goes(r), req[s].pc # "free", req[s].item \in Item,
           Calm(req[s].item, r), Answered(s)
    PROVE  Answered(s)'
<1> DEFINE i == req[s].item
           d == items[i]
           e == items'[i]
<1>1. /\ req'[s] = req[s] /\ i # NoItem
      /\ req[s].kind = "add" => i \in Cluster
      /\ d.life = "new" => d = NoRecord
  BY GitOpsAssumption DEF Goes, Client, InOrder, Suits, RecordsFit, NewIsEmpty
<1>2. \/ d.life = "gone" \/ d.hist[s] \in {"COMPLETED", "FAILED"}
      \/ req[s].kind = "add" /\ d.resource = "ERROR"
      \/ i \in Ksu /\ req[s].kind = "delete" /\ d.state = "DELETED"
  BY <1>1 DEF Answered
<1>3. d.life # "new"
  <2>1. /\ NoRecord.hist[s] = "absent" /\ NoRecord.resource = "IN_PROGRESS"
        /\ NoRecord.state = "PENDING" /\ NoRecord.life = "new"
    BY DEF NoRecord
  <2> QED
    BY <1>1, <1>2, <2>1
<1>4. \/ e.life = "gone" \/ e.hist[s] \in {"COMPLETED", "FAILED"}
      \/ req[s].kind = "add" /\ e.resource = "ERROR"
      \/ i \in Ksu /\ req[s].kind = "delete" /\ e.state = "DELETED"
  BY <1>1, <1>2, <1>3 DEF Calm, There
<1> QED
  BY <1>1, <1>4 DEF Answered

\* A step that shows these things keeps all of it.
LEMMA CarefulFits ==
    ASSUME NEW r \in Request, TypeOK, TypeOK', Client, Client', Careful, Goes(r),
           Open(r) \/ (req[r].pc = "free" /\ \A s \in Request : ~Open(s)),
           req[r].pc = "free" => req'[r].kind \in Commands,
           Moves(r)
    PROVE  Careful'
<1>0. /\ InOrder /\ Latest /\ UsedAreMarked /\ ListsHold /\ AllAnswered
      /\ Cluster \subseteq Item /\ req' \in [Request -> RequestRec]
  BY DEF Client, Careful, TypeOK, Item
<1>1. \A s \in Request \ {r} : ~Open(s) /\ ~Open(s)'
  BY <1>0, OthersAreIdle
<1>2. Latest'
  <2> SUFFICES ASSUME NEW s \in Request, Open(s)', NEW q \in Request, q > s
               PROVE  req'[q].pc = "free"
    BY DEF Latest
  <2>1. s = r
    BY <1>1
  <2>2. q \in Request \ {r} /\ req'[q] = req[q]
    BY <2>1, GitOpsAssumption DEF Goes, Request
  <2>3. CASE Open(r)
    BY <1>0, <2>1, <2>2, <2>3 DEF Latest
  <2>4. CASE req[r].pc = "free"
    BY <1>0, <2>1, <2>2, <2>4, GitOpsAssumption DEF InOrder, InTurn, Request
  <2> QED
    BY <2>3, <2>4
<1>3. UsedAreMarked'
  <2> SUFFICES ASSUME NoKsuEdit', NEW k \in Ksu, Deployed(k)',
                      NEW a \in items'[k].links \cap Oka
               PROVE  items'[a].inUse
    BY DEF UsedAreMarked
  <2>1. NoKsuEdit
    <3> SUFFICES ASSUME NEW s \in Request, req[s].kind = "edit"
                 PROVE  req[s].item \notin Ksu
      BY DEF NoKsuEdit
    <3>1. req[s].pc # "free"
      BY <1>0, HistoryGoesOn
    <3>2. req'[s].kind = req[s].kind /\ req'[s].item = req[s].item
      BY <3>1 DEF Goes
    <3> QED
      BY <3>2 DEF NoKsuEdit
  <2> QED
    BY <1>0, <2>1 DEF Moves, MarksStay, UsedAreMarked
<1>4. ListsHold'
  <2> SUFFICES ASSUME NEW c \in Cluster, c \notin BeingChecked', There(c)',
                      items'[c].state = "CREATED"
               PROVE  items'[c].links \subseteq attached'[c]
    BY DEF ListsHold
  <2>1. CASE c = req'[r].item
    <3>1. task'[r].pc \notin {"check", "finish"}
      BY <2>1 DEF BeingChecked
    <3> QED
      BY <2>1, <3>1 DEF Moves, OwnList, There
  <2>2. CASE c # req'[r].item
    <3>1. Calm(c, r) /\ attached'[c] = attached[c]
      BY <1>0, <2>2 DEF Moves
    <3>2. There(c) /\ items[c].state = "CREATED" /\ items'[c].links \subseteq items[c].links
      BY <3>1 DEF Calm, There
    <3>3. c \notin BeingChecked
      <4> SUFFICES ASSUME NEW s \in Request, task[s].pc \in {"check", "finish"},
                          c = req[s].item
                   PROVE  FALSE
        BY DEF BeingChecked
      <4>1. TaskIsLive(s) /\ Open(s) /\ s = r
        BY <1>1 DEF TaskIsLive, Open
      <4>2. req[r].pc # "free"
        BY <1>0, <4>1 DEF InOrder, OnPath, TaskIsLive
      <4> QED
        BY <2>2, <4>1, <4>2 DEF Goes
    <3> QED
      BY <1>0, <3>1, <3>2, <3>3 DEF ListsHold
  <2> QED
    BY <2>1, <2>2
<1>5. AllAnswered'
  <2> SUFFICES ASSUME OwnDefaults', NEW s \in Request, Due(s)'
               PROVE  Answered(s)'
    BY DEF AllAnswered
  <2>1. CASE s = r
    BY <2>1 DEF Moves, OwnAnswer
  <2>2. CASE s # r
    <3>1. req'[s] = req[s] /\ task'[s] = task[s]
      BY <2>2 DEF Goes
    <3>2. task[s].pc = "over" /\ req[s].pc # "free"
      BY <1>0, <3>1 DEF Due, InOrder, OnPath
    <3>3. req[s].item \in Item
      BY <1>0, <3>2 DEF InOrder, Suits
    <3>4. Due(s)
      <4> SUFFICES ASSUME NEW q \in Request, q > s PROVE req[q].item # req[s].item
        BY <3>1 DEF Due
      <4>1. CASE req[q].pc = "free"
        <5>1. req[q].item = NoItem
          BY <1>0, <4>1, HistoryGoesOn
        <5> QED
          BY <3>3, <5>1, GitOpsAssumption
      <4>2. CASE req[q].pc # "free"
        BY <3>1, <4>2 DEF Goes, Due
      <4> QED
        BY <4>1, <4>2
    <3>5. Answered(s)
      <4>1. OwnDefaults
        BY <1>0, HistoryGoesOn
      <4> QED
        BY <1>0, <3>4, <4>1 DEF AllAnswered
    <3>6. r > s
      <4>1. s < r \/ r < s
        BY <2>2, GitOpsAssumption DEF Request
      <4>2. CASE r < s /\ Open(r)
        BY <1>0, <3>2, <4>2, GitOpsAssumption DEF Latest, Request
      <4>3. CASE r < s /\ req[r].pc = "free"
        BY <1>0, <3>2, <4>3, GitOpsAssumption DEF InOrder, InTurn, Request
      <4> QED
        BY <4>1, <4>2, <4>3, GitOpsAssumption DEF Request
    <3>7. req'[r].item # req[s].item
      BY <3>1, <3>6 DEF Due
    <3>8. Calm(req[s].item, r)
      BY <3>3, <3>7 DEF Moves
    <3> QED
      BY <2>2, <3>2, <3>3, <3>5, <3>8, AnswersStay
  <2> QED
    BY <2>1, <2>2
<1>6. \A s \in Request : Held(s)'
  BY <1>1, IdleHeld DEF Moves
<1>7. KindsKnown'
  <2> SUFFICES ASSUME NEW s \in Request, req'[s].pc # "free"
               PROVE  req'[s].kind \in Commands
    BY DEF KindsKnown, Commands
  <2>1. CASE req[s].pc # "free"
    BY <2>1 DEF Careful, KindsKnown, Goes
  <2>2. CASE req[s].pc = "free"
    <3>1. s = r
      BY <2>2 DEF Goes
    <3> QED
      BY <2>2, <3>1
  <2> QED
    BY <2>1, <2>2
<1> QED
  BY <1>2, <1>3, <1>4, <1>5, <1>6, <1>7 DEF Careful

-----------------------------------------------------------------------------
(* The steps of LCM                                                         *)

LEMMA CarefulHeld ==
    ASSUME Careful, NEW r \in Request
    PROVE  /\ BusyHeld(r) /\ MarkHeld(r) /\ ListHeld(r) /\ AnswerHeld(r)
           /\ ListsHold
BY DEF Careful, Held

\* What is left of a coroutine that has stopped.
LEMMA StopsHeld ==
    ASSUME NEW r \in Request, Known(r), LcmGoes(r), Stops(r)
    PROVE  Held(r)'
<1>1. /\ req'[r].pc \notin {"read", "written"} /\ r \notin inbox'
      /\ task'[r].pc = "over"
  BY DEF Known, LcmGoes, Stops
<1>2. ~Asked(r)' /\ ~Working(r)'
  BY <1>1 DEF Asked, Working
<1> QED
  BY <1>1, <1>2 DEF Held, BusyHeld, MarkHeld, ListHeld, AnswerHeld

\* The cluster of a coroutine that does not check yet is as its list says.
LEMMA NotChecked ==
    ASSUME NEW r \in Request, Known(r), Careful, req[r].item \in Cluster,
           task[r].pc \notin {"check", "finish"}, There(req[r].item),
           items[req[r].item].state = "CREATED"
    PROVE  items[req[r].item].links \subseteq attached[req[r].item]
<1>1. req[r].item \notin BeingChecked
  <2> SUFFICES ASSUME NEW s \in Request, task[s].pc \in {"check", "finish"}
               PROVE  s = r
    BY DEF BeingChecked
  <2>1. Open(s) /\ Open(r) /\ Alone
    BY DEF Open, TaskIsLive, Known, InOrder
  <2> QED
    BY <2>1 DEF Alone
<1> QED
  BY <1>1, CarefulHeld DEF ListsHold

\* A step that leaves all records but its own alone.
LEMMA OwnCalm ==
    ASSUME NEW r \in Request, LcmGoes(r),
           \A j \in Item \ {req[r].item} : items'[j] = items[j]
    PROVE  \A j \in Item : j # req'[r].item => Calm(j, r)
BY DEF LcmGoes, Calm

\* A step that keeps the shape of all records, and deploys no KSU.
LEMMA ShapeMarks ==
    ASSUME NEW i,
           \A j \in Item : SameShape(items'[j], items[j]),
           \A k \in Ksu \ {i} : items'[k].state = items[k].state,
           i \in Ksu /\ items'[i].state \notin BeingDeleted =>
              items[i].state \notin BeingDeleted
    PROVE  MarksStay
<1> SUFFICES ASSUME NEW k \in Ksu, NEW a \in Oka,
                    Deployed(k)', a \in items'[k].links
             PROVE  \/ items'[a].inUse
                    \/ Deployed(k) /\ a \in items[k].links /\ ~items[a].inUse
  BY DEF MarksStay
<1>1. k \in Item /\ a \in Item
  BY DEF Item
<1>2. /\ items'[k].links = items[k].links /\ items'[k].life = items[k].life
      /\ items'[a].inUse = items[a].inUse
  BY <1>1 DEF SameShape
<1>3. items'[k].state \notin BeingDeleted => items[k].state \notin BeingDeleted
  BY DEF BeingDeleted
<1> QED
  BY <1>2, <1>3 DEF Deployed, There

\* A step that changes its own record alone, and not its shape, and no list of
\* the repository.
LEMMA OwnMoves ==
    ASSUME NEW r \in Request, LcmGoes(r), Own(r),
           req[r].item \in Ksu /\ items'[req[r].item].state \notin BeingDeleted =>
              items[req[r].item].state \notin BeingDeleted,
           \A c \in Cluster : c # req[r].item => attached'[c] = attached[c],
           OwnList(r), OwnAnswer(r), Held(r)'
    PROVE  Moves(r)
<1>1. \A j \in Item : j # req'[r].item => Calm(j, r)
  BY OwnCalm DEF Own
<1>2. \A j \in Item : SameShape(items'[j], items[j])
  BY OwnShape
<1>3. \A k \in Ksu \ {req[r].item} : items'[k].state = items[k].state
  BY DEF Own, Item
<1>4. MarksStay
  BY <1>2, <1>3, ShapeMarks
<1> QED
  BY <1>1, <1>4 DEF Moves, LcmGoes

\* The command stays what it is.
LEMMA SameCommand ==
    ASSUME NEW r \in Request, LcmGoes(r), task'[r].second = task[r].second
    PROVE  Command(r)' = Command(r)
BY DEF LcmGoes, Command

\* Start.
LEMMA BeginsMoves ==
    ASSUME NEW r \in Request, Known(r), Careful, LcmGoes(r), Begins(r)
    PROVE  Moves(r)
<1> DEFINE i == req[r].item
           d == items[i]
           e == items'[i]
<1>0. /\ BusyHeld(r) /\ MarkHeld(r) /\ ListHeld(r) /\ AnswerHeld(r)
      /\ InOrder /\ OnPath(r) /\ req' = req /\ r \notin inbox'
      /\ req[r].pc \notin {"free", "read", "written"}
  BY CarefulHeld DEF Known, LcmGoes
<1>1. /\ task[r].pc = "scheduled" /\ Own(r) /\ attached' = attached
      /\ e.state = d.state /\ e.operating = d.operating /\ e.links = d.links
      /\ There(i) /\ Asked(r)
  BY DEF Begins, Own, SameShape, Asked
<1>2. i \in Cluster /\ e.state = "CREATED" => e.links \subseteq attached[i]
  BY <1>1, NotChecked
<1>3. OwnList(r)
  BY <1>0, <1>1, <1>2 DEF OwnList
<1>4. CASE Stops(r) /\ (req[r].with # {} \/ ~OwnDefaults)
  <2>1. OwnAnswer(r)
    <3>1. OwnDefaults' => OwnDefaults
      BY <1>0 DEF OwnDefaults, IsDefault
    <3> QED
      BY <1>0, <1>4, <3>1 DEF OwnAnswer, Due
  <2>2. Held(r)'
    BY <1>4, StopsHeld
  <2> QED
    BY <1>1, <1>3, <2>1, <2>2, OwnMoves
<1>5. CASE /\ task'[r].pc = IF Command(r) = "get_creds" THEN "check" ELSE "launch"
           /\ task'[r].second = task[r].second /\ req[r].with = {}
           /\ task'[r].doc = e /\ (i \in Cluster => task'[r].first = e)
  <2>1. OwnAnswer(r)
    BY <1>5 DEF OwnAnswer, Due
  <2>2. ~Asked(r)' /\ Working(r)'
    BY <1>0, <1>5 DEF Asked, Working
  <2>3. BusyHeld(r)'
    BY <1>0, <1>1, <1>5 DEF BusyHeld
  <2>4. MarkHeld(r)'
    BY <1>0, <1>1, <1>5 DEF MarkHeld
  <2>5. ListHeld(r)'
    <3>1. Command(r)' = Command(r)
      BY <1>5, SameCommand
    <3>2. Command(r) = "get_creds" => NewLinks(r)' = e.links
      BY <1>5, <3>1 DEF NewLinks
    <3>3. /\ i \in Cluster /\ req[r].kind = "register" => d.links = {}
          /\ i \in Cluster /\ req[r].kind = "create" => d.links \subseteq {Default[i]}
      BY <1>0, <1>1 DEF ListHeld
    <3> QED
      BY <1>0, <1>1, <1>2, <1>5, <3>2, <3>3 DEF ListHeld
  <2>6. AnswerHeld(r)'
    <3>1. Command(r) = "get_creds" => req[r].kind = "get_creds"
      BY <1>0, CommandIs
    <3> QED
      BY <1>0, <1>5, <3>1 DEF AnswerHeld
  <2>7. Held(r)'
    BY <2>3, <2>4, <2>5, <2>6 DEF Held
  <2> QED
    BY <1>1, <1>3, <2>1, <2>7, OwnMoves
<1> QED
  BY <1>4, <1>5 DEF Begins

\* Launch.
LEMMA LaunchesMoves ==
    ASSUME NEW r \in Request, Known(r), Careful, LcmGoes(r), Launches(r)
    PROVE  Moves(r)
<1> DEFINE i == req[r].item
           d == items[i]
           e == items'[i]
           c == task[r].doc
<1>0. /\ BusyHeld(r) /\ MarkHeld(r) /\ ListHeld(r) /\ AnswerHeld(r)
      /\ req' = req /\ r \notin inbox' /\ i \in Item /\ i # NoItem
      /\ req[r].pc \notin {"free", "read", "written"}
  BY CarefulHeld, GitOpsAssumption DEF Known, LcmGoes
<1>1. /\ task[r].pc = "launch" /\ attached' = attached /\ Working(r)
      /\ i \in Cluster => c.state = d.state
  BY <1>0 DEF Launches, Working, ListHeld
<1>2. There(i) /\ c.links = d.links
  BY <1>1, CopyFits DEF SameShape
<1>3. i \in Cluster /\ d.state = "CREATED" => d.links \subseteq attached[i]
  BY <1>1, <1>2, NotChecked
<1>4. ASSUME items' = items PROVE Own(r) /\ OwnList(r)
  <2>1. Own(r)
    BY <1>2, <1>4 DEF Own, SameShape, Known
  <2>2. OwnList(r)
    BY <1>0, <1>1, <1>3, <1>4 DEF OwnList
  <2> QED
    BY <2>1, <2>2
<1>5. CASE Stops(r) /\ items' = items /\ req[r].kind \in {"clone", "move"}
  <2>1. OwnAnswer(r)
    BY <1>0, <1>5 DEF OwnAnswer, Due
  <2>2. Held(r)'
    BY <1>5, StopsHeld
  <2> QED
    BY <1>1, <1>4, <1>5, <2>1, <2>2, OwnMoves
<1>6. CASE GoesOn(r, "poll") /\ task'[r].doc = c /\ items' = items
  <2>1. OwnAnswer(r)
    BY <1>6 DEF OwnAnswer, Due, GoesOn
  <2>2. /\ ~Asked(r)' /\ Working(r)' /\ task'[r].pc = "poll"
        /\ task'[r].first = task[r].first
    BY <1>0, <1>6 DEF Asked, Working, GoesOn
  <2>3. BusyHeld(r)' /\ MarkHeld(r)'
    BY <1>0, <1>1, <1>6, <2>2 DEF BusyHeld, MarkHeld
  <2>4. ListHeld(r)' /\ AnswerHeld(r)'
    BY <1>0, <1>1, <1>6, <2>2 DEF ListHeld, AnswerHeld
  <2>5. Held(r)'
    BY <2>3, <2>4 DEF Held
  <2> QED
    BY <1>1, <1>4, <1>6, <2>1, <2>5, OwnMoves
<1>7. CASE /\ Stops(r) /\ Own(r) /\ i \in Cluster
           /\ e.state \in {c.state, "FAILED_CREATION", "FAILED_DELETION"}
           /\ \/ e.hist[r] = "FAILED"
              \/ req[r].kind = "add" /\ e.resource = "ERROR"
  <2>1. OwnAnswer(r)
    BY <1>0, <1>7 DEF OwnAnswer, Answered
  <2>2. Held(r)'
    BY <1>7, StopsHeld
  <2>3. e.links = d.links
    BY <1>7 DEF Own, SameShape
  <2>4. OwnList(r)
    BY <1>0, <1>1, <1>3, <1>7, <2>3 DEF OwnList
  <2>5. i \notin Ksu
    BY <1>7, GitOpsAssumption
  <2> QED
    BY <1>1, <1>7, <2>1, <2>2, <2>4, <2>5, OwnMoves
<1> QED
  BY <1>5, <1>6, <1>7 DEF Launches

\* What a workflow gives a cluster is what its record will say.
LEMMA EffectLists ==
    ASSUME NEW r \in Request, Known(r), Effect(r), req[r].item \in Cluster
    PROVE  LET c == req[r].item
           IN attached'[c] =
                CASE Command(r) = "create" -> {Default[c]}
                  [] Command(r) = "delete" -> {}
                  [] Command(r) = "add" -> attached[c] \cup {req[r].arg}
                  [] Command(r) = "remove" -> attached[c] \ {req[r].arg}
                  [] OTHER -> attached[c]
<1>1. TypeOK
  BY DEF Known
<1> QED
  BY <1>1 DEF Effect, Item_, TypeOK

LEMMA EffectElsewhere ==
    ASSUME NEW r \in Request, Known(r), Effect(r)
    PROVE  \A c \in Cluster : c # req[r].item => attached'[c] = attached[c]
<1>1. TypeOK
  BY DEF Known
<1> QED
  BY <1>1 DEF Effect, Item_, TypeOK

\* Poll.
LEMMA PollsMoves ==
    ASSUME NEW r \in Request, Known(r), Careful, LcmGoes(r), Polls(r)
    PROVE  Moves(r)
<1> DEFINE i == req[r].item
           d == items[i]
           e == items'[i]
           c == task[r].doc
<1>0. /\ BusyHeld(r) /\ MarkHeld(r) /\ ListHeld(r) /\ AnswerHeld(r)
      /\ req' = req /\ r \notin inbox' /\ i \in Item /\ i # NoItem
      /\ OnPath(r) /\ Suits(r)
      /\ req[r].pc \notin {"free", "read", "written"}
  BY CarefulHeld, GitOpsAssumption DEF Known, LcmGoes
<1>1. /\ task[r].pc = "poll" /\ Own(r) /\ Working(r) /\ e.links = d.links
      /\ e.operating = c.operating
  BY DEF Polls, Working, Own, SameShape
<1>2. /\ i \in Cluster \cup Ksu => c.state = d.state
      /\ req[r].kind = "create" /\ i \in Ksu => d.state \notin BeingDeleted
      /\ i \in Cluster /\ req[r].kind = "register" => d.links = {}
      /\ i \in Cluster /\ req[r].kind = "create" => d.links \subseteq {Default[i]}
  BY <1>0, <1>1 DEF MarkHeld, ListHeld
<1>3. There(i) /\ c.links = d.links
  BY <1>1, CopyFits DEF SameShape
<1>4. i \in Cluster /\ d.state = "CREATED" => d.links \subseteq attached[i]
  BY <1>1, <1>3, NotChecked
<1>5. ASSUME NEW ok \in BOOLEAN, e.state = PolledState(r, ok, c.state)
      PROVE  /\ i \in Ksu /\ e.state \notin BeingDeleted => d.state \notin BeingDeleted
             /\ Command(r) \notin {"create", "register"} /\ e.state = "CREATED"
                /\ i \in Cluster => d.state = "CREATED"
             /\ Command(r) = "create" => e.state \notin BeingDeleted
  <2>1. Command(r) \in {"create", "register"} => req[r].kind = Command(r)
    BY <1>0, CommandIs
  <2>2. Command(r) = "register" => i \notin Ksu
    BY <1>0, <2>1, GitOpsAssumption DEF Suits
  <2>3. CASE Command(r) = "create"
    BY <1>2, <1>5, <2>1, <2>3 DEF PolledState, BeingDeleted
  <2>4. CASE Command(r) = "register"
    BY <1>5, <2>2, <2>4 DEF PolledState
  <2>5. CASE Command(r) = "delete"
    BY <1>5, <2>5 DEF PolledState, BeingDeleted
  <2>6. CASE Command(r) \notin {"create", "register", "delete"}
    <3>1. e.state = c.state \/ e.state = "FAILED_DELETION"
      BY <1>5, <2>6 DEF PolledState
    <3> QED
      BY <1>2, <2>6, <3>1 DEF BeingDeleted
  <2> QED
    BY <2>3, <2>4, <2>5, <2>6
<1>6. CASE /\ e.state = PolledState(r, TRUE, c.state)
           /\ e.hist[r] = c.hist[r] /\ Effect(r)
           /\ GoesOn(r, "check") /\ task'[r].doc = e
  <2>1. /\ i \in Ksu /\ e.state \notin BeingDeleted => d.state \notin BeingDeleted
        /\ Command(r) \notin {"create", "register"} /\ e.state = "CREATED"
           /\ i \in Cluster => d.state = "CREATED"
        /\ Command(r) = "create" => e.state \notin BeingDeleted
    BY <1>5, <1>6
  <2>2. OwnAnswer(r) /\ OwnList(r)
    BY <1>6 DEF OwnAnswer, OwnList, Due, GoesOn
  <2>3. /\ ~Asked(r)' /\ Working(r)' /\ task'[r].pc = "check"
        /\ task'[r].first = task[r].first /\ Command(r)' = Command(r)
    BY <1>0, <1>6, SameCommand DEF Asked, Working, GoesOn
  <2>4. BusyHeld(r)'
    BY <1>0, <1>1, <1>6, <2>3 DEF BusyHeld
  <2>5. MarkHeld(r)'
    <3>1. req[r].kind = "create" => Command(r) = "create"
      BY <1>0, CommandIs
    <3> QED
      BY <1>0, <1>6, <2>1, <2>3, <3>1 DEF MarkHeld
  <2>6. ListHeld(r)'
    <3> SUFFICES ASSUME i \in Cluster, e.state = "CREATED"
                 PROVE  NewLinks(r)' \subseteq attached'[i]
      BY <1>0, <1>1, <1>2, <1>6, <2>3 DEF ListHeld
    <3>1. attached'[i] =
            CASE Command(r) = "create" -> {Default[i]}
              [] Command(r) = "delete" -> {}
              [] Command(r) = "add" -> attached[i] \cup {req[r].arg}
              [] Command(r) = "remove" -> attached[i] \ {req[r].arg}
              [] OTHER -> attached[i]
      BY <1>6, EffectLists
    <3>2. NewLinks(r)' = CASE Command(r) = "add" -> d.links \cup {req[r].arg}
                           [] Command(r) = "remove" -> d.links \ {req[r].arg}
                           [] OTHER -> d.links
      BY <1>0, <1>1, <1>6, <2>3 DEF NewLinks
    <3>3. Command(r) \in {"create", "register"} => req[r].kind = Command(r)
      BY <1>0, CommandIs
    <3>4. CASE Command(r) = "create"
      BY <1>2, <3>1, <3>2, <3>3, <3>4
    <3>5. CASE Command(r) = "register"
      BY <1>2, <3>2, <3>3, <3>5
    <3>6. CASE Command(r) = "delete"
      BY <1>6, <3>6 DEF PolledState
    <3>7. CASE Command(r) \notin {"create", "register", "delete"}
      <4>1. d.links \subseteq attached[i]
        BY <1>4, <2>1, <3>7
      <4> QED
        BY <3>1, <3>2, <3>7, <4>1
    <3> QED
      BY <3>4, <3>5, <3>6, <3>7
  <2>7. AnswerHeld(r)'
    <3> SUFFICES ASSUME i \in Ksu, req[r].kind = "delete" PROVE e.state = "DELETED"
      BY <1>0, <1>6, <2>3 DEF AnswerHeld
    <3>1. Command(r) = "delete"
      BY <1>0, CommandIs
    <3> QED
      BY <1>6, <3>1 DEF PolledState
  <2>8. Held(r)'
    BY <2>4, <2>5, <2>6, <2>7 DEF Held
  <2>9. \A k \in Cluster : k # i => attached'[k] = attached[k]
    BY <1>6, EffectElsewhere
  <2> QED
    BY <1>1, <2>1, <2>2, <2>8, <2>9, OwnMoves
<1>7. CASE /\ e.state = PolledState(r, FALSE, c.state)
           /\ e.hist[r] = "FAILED" /\ attached' = attached
           /\ \/ Stops(r)
              \/ /\ GoesOn(r, "finish") /\ task'[r].doc = e
                 /\ Command(r) = "update"
  <2>1. /\ i \in Ksu /\ e.state \notin BeingDeleted => d.state \notin BeingDeleted
        /\ e.state = "CREATED" /\ i \in Cluster => d.state = "CREATED"
    <3>1. Command(r) \in {"create", "register"} => e.state # "CREATED"
      BY <1>7 DEF PolledState
    <3> QED
      BY <1>5, <1>7, <3>1
  <2>2. i \in Cluster /\ e.state = "CREATED" => e.links \subseteq attached'[i]
    BY <1>1, <1>4, <1>7, <2>1
  <2>3. OwnList(r)
    BY <1>0, <2>2 DEF OwnList
  <2>4. OwnAnswer(r)
    BY <1>0, <1>7 DEF OwnAnswer, Answered
  <2>5. CASE Stops(r)
    BY <1>1, <1>7, <2>1, <2>3, <2>4, <2>5, StopsHeld, OwnMoves
  <2>6. CASE GoesOn(r, "finish") /\ task'[r].doc = e /\ Command(r) = "update"
    <3>1. /\ ~Asked(r)' /\ Working(r)' /\ task'[r].pc = "finish"
          /\ task'[r].first = task[r].first /\ Command(r)' = Command(r)
      BY <1>0, <2>6, SameCommand DEF Asked, Working, GoesOn
    <3>2. req[r].kind = "update"
      BY <1>0, <2>6, CommandIs
    <3>3. i \in Cluster
      BY <1>0, <3>2 DEF Suits
    <3>4. BusyHeld(r)'
      BY <1>0, <1>1, <2>6, <3>1 DEF BusyHeld
    <3>5. MarkHeld(r)'
      BY <1>0, <2>6, <3>1, <3>2 DEF MarkHeld
    <3>6. ListHeld(r)'
      <4>1. NewLinks(r)' = e.links
        BY <2>6, <3>1 DEF NewLinks
      <4> QED
        BY <1>0, <2>2, <2>6, <3>1, <3>2, <4>1 DEF ListHeld
    <3>7. AnswerHeld(r)'
      BY <1>0, <1>7, <2>6, <3>1, <3>2 DEF AnswerHeld
    <3>8. Held(r)'
      BY <3>4, <3>5, <3>6, <3>7 DEF Held
    <3> QED
      BY <1>1, <1>7, <2>1, <2>3, <2>4, <3>8, OwnMoves
  <2> QED
    BY <1>7, <2>5, <2>6
<1> QED
  BY <1>6, <1>7 DEF Polls

\* Finish and EndGetCreds.
LEMMA ClosesMoves ==
    ASSUME NEW r \in Request, Known(r), Careful, LcmGoes(r), Closes(r)
    PROVE  Moves(r)
<1> DEFINE i == req[r].item
           d == items[i]
           e == items'[i]
           c == task[r].doc
<1>0. /\ MarkHeld(r) /\ ListHeld(r) /\ AnswerHeld(r)
      /\ req' = req /\ OnPath(r) /\ i \in Item /\ i # NoItem
  BY CarefulHeld, GitOpsAssumption DEF Known, LcmGoes
<1>1. /\ Own(r) /\ Stops(r) /\ attached' = attached /\ Working(r)
      /\ e.links = d.links /\ e.state = c.state /\ e.hist[r] = c.hist[r]
      /\ \/ task[r].pc = "finish"
         \/ task[r].pc = "check" /\ Command(r) = "get_creds"
  BY DEF Closes, Working, Own, SameShape
<1>2. c.links = d.links
  BY <1>1, CopyFits DEF SameShape
<1>3. task[r].pc = "finish" => req[r].kind = "update" /\ c.hist[r] = "FAILED"
  BY <1>0 DEF AnswerHeld
<1>4. Command(r) \notin {"add", "remove"}
  BY <1>0, <1>1, <1>3, CommandIs
<1>5. OwnList(r)
  <2>1. NewLinks(r) = c.links
    BY <1>4 DEF NewLinks
  <2>2. i \in Cluster /\ e.state = "CREATED" => e.links \subseteq attached[i]
    BY <1>0, <1>1, <1>2, <2>1 DEF ListHeld
  <2> QED
    BY <1>0, <1>1, <2>2 DEF OwnList
<1>6. OwnAnswer(r)
  <2>1. CASE task[r].pc = "finish"
    BY <1>0, <1>1, <1>3, <2>1 DEF OwnAnswer, Answered
  <2>2. CASE Command(r) = "get_creds"
    BY <1>0, <2>2, CommandIs DEF OwnAnswer, Due
  <2> QED
    BY <1>1, <2>1, <2>2
<1>7. i \in Ksu /\ e.state \notin BeingDeleted => d.state \notin BeingDeleted
  BY <1>0, <1>1 DEF MarkHeld
<1> QED
  BY <1>1, <1>5, <1>6, <1>7, StopsHeld, OwnMoves

\* CheckProgress.
LEMMA ProgressesMoves ==
    ASSUME NEW r \in Request, Known(r), Careful, LcmGoes(r), Progresses(r)
    PROVE  Moves(r)
<1> DEFINE i == req[r].item
           d == items[i]
           e == items'[i]
           c == IF i \in Cluster THEN task[r].first ELSE task[r].doc
<1>0. /\ BusyHeld(r) /\ MarkHeld(r) /\ ListHeld(r) /\ AnswerHeld(r)
      /\ req' = req /\ r \notin inbox' /\ i \in Item /\ i # NoItem
      /\ req[r].pc \notin {"free", "read", "written"}
      /\ Cluster \cap Ksu = {}
  BY CarefulHeld, GitOpsAssumption DEF Known, LcmGoes
<1>1. /\ task[r].pc = "check" /\ task' = task /\ Own(r) /\ attached' = attached
      /\ e.state = c.state /\ e.operating = c.operating /\ e.links = d.links
      /\ Working(r) /\ Working(r)' /\ ~Asked(r)' /\ Command(r)' = Command(r)
  BY <1>0 DEF Progresses, Working, Own, SameShape, Asked, Command
<1>2. OwnList(r) /\ OwnAnswer(r)
  BY <1>1 DEF OwnList, OwnAnswer, Due
<1>3. i \in Ksu => e.state = d.state /\ e.state = task[r].doc.state
  BY <1>0, <1>1 DEF MarkHeld
<1>4. BusyHeld(r)'
  BY <1>0, <1>1 DEF BusyHeld
<1>5. MarkHeld(r)'
  BY <1>0, <1>1, <1>3 DEF MarkHeld
<1>6. ListHeld(r)'
  <2>1. NewLinks(r)' = NewLinks(r)
    BY <1>0, <1>1 DEF NewLinks
  <2> QED
    BY <1>0, <1>1, <2>1 DEF ListHeld
<1>7. AnswerHeld(r)'
  BY <1>0, <1>1, <1>3 DEF AnswerHeld
<1>8. Held(r)'
  BY <1>4, <1>5, <1>6, <1>7 DEF Held
<1> QED
  BY <1>1, <1>2, <1>3, <1>8, OwnMoves

\* EndItem.
LEMMA CompletesMoves ==
    ASSUME NEW r \in Request, Known(r), Careful, LcmGoes(r), Completes(r)
    PROVE  Moves(r)
<1> DEFINE i == req[r].item
           d == items[i]
           e == items'[i]
           c == task[r].doc
<1>0. /\ MarkHeld(r) /\ ListHeld(r) /\ req' = req /\ OnPath(r) /\ Suits(r)
      /\ i \in Item /\ i # NoItem /\ req[r].pc # "free"
      /\ Cluster \cap Ksu = {} /\ Oka \cap Ksu = {} /\ Ksu \subseteq Item
      /\ Oka \subseteq Item
  BY CarefulHeld, GitOpsAssumption DEF Known, LcmGoes, Item
<1>1. /\ task[r].pc = "check" /\ Stops(r) /\ attached' = attached /\ There(i)
      /\ Working(r) /\ e.state = c.state /\ e.hist[r] \in {"COMPLETED", "FAILED"}
      /\ \A j \in Item \ {i} : items'[j] = items[j]
      /\ e.life = d.life /\ e.inUse = d.inUse
      /\ e.links = CASE Command(r) = "add" -> d.links \cup {req[r].arg}
                     [] Command(r) = "remove" -> d.links \ {req[r].arg}
                     [] Command(r) = "edit" /\ i \in Ksu ->
                          (d.links \ Oka) \cup {req[r].arg}
                     [] OTHER -> d.links
  BY DEF Completes, Checked, Working
<1>2. c.links = d.links
  BY <1>1, CopyFits DEF SameShape
<1>3. OwnList(r)
  <2> SUFFICES ASSUME i \in Cluster, e.state = "CREATED"
               PROVE  e.links \subseteq attached[i]
    BY <1>0, <1>1 DEF OwnList
  <2>1. e.links = NewLinks(r)
    BY <1>0, <1>1, <1>2 DEF NewLinks
  <2> QED
    BY <1>0, <1>1, <2>1 DEF ListHeld
<1>4. OwnAnswer(r)
  BY <1>0, <1>1 DEF OwnAnswer, Answered
<1>5. NoKsuEdit' => MarksStay
  <2> SUFFICES ASSUME NoKsuEdit', NEW k \in Ksu, NEW a \in Oka,
                      Deployed(k)', a \in items'[k].links
               PROVE  \/ items'[a].inUse
                      \/ Deployed(k) /\ a \in items[k].links /\ ~items[a].inUse
    BY DEF MarksStay
  <2>1. items'[a].inUse = items[a].inUse
    BY <1>0, <1>1
  <2>2. CASE k # i
    <3>1. items'[k] = items[k]
      BY <1>0, <1>1, <2>2
    <3> QED
      BY <2>1, <3>1 DEF Deployed, There
  <2>3. CASE k = i
    <3>1. ~(Command(r) = "edit")
      BY <1>0, <2>3, CommandIs DEF NoKsuEdit
    <3>2. Command(r) \notin {"add", "remove"}
      BY <1>0, <2>3, CommandIs DEF Suits
    <3>3. e.links = d.links
      BY <1>1, <3>1, <3>2
    <3>4. c.state = d.state
      BY <1>0, <1>1, <2>3 DEF MarkHeld
    <3> QED
      BY <1>1, <2>1, <2>3, <3>3, <3>4 DEF Deployed, There
  <2> QED
    BY <2>2, <2>3
<1>6. \A j \in Item : j # req'[r].item => Calm(j, r)
  BY <1>1, OwnCalm
<1> QED
  BY <1>1, <1>3, <1>4, <1>5, <1>6, StopsHeld DEF Moves

\* EndCluster.
LEMMA ClusterEndsMoves ==
    ASSUME NEW r \in Request, Known(r), Careful, LcmGoes(r), ClusterEnds(r)
    PROVE  Moves(r)
<1> DEFINE i == req[r].item
           d == items[i]
           e == items'[i]
           c == task[r].doc
<1>0. /\ ListHeld(r) /\ req' = req /\ RecordsFit /\ Linked /\ r \notin inbox'
      /\ i \in Item /\ i # NoItem /\ req[r].pc \notin {"read", "written"}
      /\ Cluster \cap Ksu = {} /\ Cluster \cap Profile = {}
      /\ Profile \cap Ksu = {} /\ Ksu \subseteq Item
  BY CarefulHeld, GitOpsAssumption DEF Known, LcmGoes, Item, RecordsFit
<1>1. /\ task[r].pc = "check" /\ attached' = attached /\ There(i) /\ i \in Cluster
      /\ Working(r) /\ e.state = c.state /\ e.hist[r] \in {"COMPLETED", "FAILED"}
      /\ Command(r) \in {"create", "register"}
  BY DEF ClusterEnds, Checked, Working
<1>2. \A j \in Item :
            /\ SameShape(items'[j], items[j])
            /\ items'[j] = items[j] \/ There(j)
            /\ \A s \in Request \ {r} :
                 j # i => items'[j].hist[s] = items[j].hist[s]
            /\ j # i /\ items'[j] # items[j] => j \in d.links
  BY DEF ClusterEnds
<1>3. c.links = d.links /\ e.links = d.links
  BY <1>0, <1>1, <1>2, CopyFits DEF SameShape
<1>4. OwnList(r)
  <2>1. NewLinks(r) = c.links
    BY <1>1 DEF NewLinks
  <2>2. e.state = "CREATED" => e.links \subseteq attached[i]
    BY <1>0, <1>1, <1>3, <2>1 DEF ListHeld
  <2> QED
    BY <1>0, <1>1, <2>2 DEF OwnList
<1>5. OwnAnswer(r)
  BY <1>0, <1>1 DEF OwnAnswer, Answered
<1>6. \A j \in Item : j # req'[r].item => Calm(j, r)
  <2> SUFFICES ASSUME NEW j \in Item, j # i, items'[j] # items[j]
               PROVE  Calm(j, r)
    BY <1>0 DEF Calm
  <2>1. j \in Profile
    BY <1>0, <1>1, <1>2 DEF Linked
  <2>2. j \notin Cluster \cup Ksu
    BY <1>0, <2>1
  <2> QED
    BY <1>2, <2>2 DEF Calm, There, SameShape
<1>7. MarksStay
  <2>1. \A k \in Ksu \ {i} : items'[k].state = items[k].state
    BY <1>0, <1>1, <1>2 DEF Linked
  <2> QED
    BY <1>0, <1>1, <1>2, <2>1, ShapeMarks
<1>8. Held(r)'
  <2>1. CASE task'[r].pc = "publish"
    <3>1. ~Asked(r)' /\ ~Working(r)'
      BY <1>0, <2>1 DEF Asked, Working
    <3> QED
      BY <1>0, <1>1, <2>1, <3>1 DEF Held, BusyHeld, MarkHeld, ListHeld, AnswerHeld
  <2>2. CASE Stops(r)
    BY <2>2, StopsHeld
  <2> QED
    BY <2>1, <2>2 DEF ClusterEnds
<1> QED
  BY <1>1, <1>4, <1>5, <1>6, <1>7, <1>8 DEF Moves

\* Publish.
LEMMA PublishesMoves ==
    ASSUME NEW r \in Request, Known(r), Careful, LcmGoes(r), Publishes(r)
    PROVE  Moves(r)
<1> DEFINE i == req[r].item
           d == items[i]
<1>0. /\ AnswerHeld(r) /\ req' = req /\ i \in Item /\ i # NoItem
  BY CarefulHeld, GitOpsAssumption DEF Known, LcmGoes
<1>1. /\ task[r].pc = "publish" /\ Stops(r) /\ items' = items
      /\ attached' = attached
  BY DEF Publishes
<1>2. There(i) /\ d.hist[r] \in {"COMPLETED", "FAILED"}
  BY <1>0, <1>1, LiveThere DEF AnswerHeld, LcmGoes
<1>3. OwnList(r)
  <2>1. i \in Cluster /\ d.state = "CREATED" => d.links \subseteq attached[i]
    BY <1>1, <1>2, NotChecked
  <2> QED
    BY <1>0, <1>1, <2>1 DEF OwnList
<1>4. OwnAnswer(r)
  BY <1>0, <1>1, <1>2 DEF OwnAnswer, Answered
<1>5. Own(r)
  BY <1>1, <1>2 DEF Own, SameShape, Known
<1> QED
  BY <1>1, <1>3, <1>4, <1>5, StopsHeld, OwnMoves

\* EndDeregister.
LEMMA DeregistersMoves ==
    ASSUME NEW r \in Request, Known(r), Careful, LcmGoes(r), Deregisters(r)
    PROVE  Moves(r)
<1> DEFINE i == req[r].item
           d == items[i]
           e == items'[i]
           c == task[r].doc
<1>0. /\ ListHeld(r) /\ req' = req /\ i \in Item /\ OnPath(r)
      /\ Cluster \cap Ksu = {}
  BY CarefulHeld, GitOpsAssumption DEF Known, LcmGoes
<1>1. /\ task[r].pc = "check" /\ attached' = attached /\ Own(r) /\ i \in Cluster
      /\ Working(r) /\ e.state = c.state /\ e.links = d.links
      /\ Command(r) = "deregister" /\ task'[r].pc = "scheduled"
  BY DEF Deregisters, Checked, Working, Own, SameShape
<1>2. c.links = d.links
  BY <1>1, CopyFits DEF SameShape
<1>3. OwnList(r)
  <2>1. NewLinks(r) = c.links
    BY <1>1 DEF NewLinks
  <2>2. e.state = "CREATED" => e.links \subseteq attached[i]
    BY <1>0, <1>1, <1>2, <2>1 DEF ListHeld
  <2> QED
    BY <1>0, <1>1, <2>2 DEF OwnList
<1>4. OwnAnswer(r)
  BY <1>1 DEF OwnAnswer, Due
<1>5. Held(r)'
  <2>1. req[r].kind = "deregister" /\ req[r].pc # "read" /\ i \notin Ksu
    BY <1>0, <1>1, CommandIs DEF Known
  <2>2. ~Working(r)'
    BY <1>1 DEF Working
  <2> QED
    BY <1>0, <1>1, <2>1, <2>2
       DEF Held, BusyHeld, BusyKinds, MarkHeld, ListHeld, AnswerHeld
<1> QED
  BY <1>0, <1>1, <1>3, <1>4, <1>5, OwnMoves

\* Records that are removed leave no KSU with an OKA that is not marked.
LEMMA RemovalMarks ==
    ASSUME \A k \in Ksu : items'[k] = items[k] \/ items'[k].life = "gone",
           \A a \in Oka : items'[a] = items[a] \/ ~items[a].inUse
    PROVE  MarksStay
BY DEF MarksStay, Deployed, There

\* EndDelete.
LEMMA EndDeleteMoves ==
    ASSUME NEW r \in Request, Known(r), Careful, LcmGoes(r), Stops(r),
           NEW ok \in BOOLEAN, EndDelete(r, ok)
    PROVE  Moves(r)
<1> DEFINE i == req[r].item
           I == KsusOf({i} \cap Profile) \cup {i}
<1>0. /\ Cluster \subseteq Item /\ Ksu \subseteq Item /\ Oka \subseteq Item
      /\ Cluster \cap Profile = {} /\ Cluster \cap Ksu = {} /\ Cluster \cap Oka = {}
      /\ Profile \cap Ksu = {} /\ Profile \cap Oka = {} /\ Ksu \cap Oka = {}
      /\ NoItem \notin Item
  BY GitOpsAssumption DEF Item
<1>1. /\ i \in Item /\ Suits(r) /\ Argued(r) /\ OnPath(r) /\ Open(r)
      /\ req[r].pc # "free" /\ req' = req
  BY DEF Known, LcmGoes
<1>2. /\ Command(r) = "delete" /\ i \in Profile \cup Oka /\ attached' = attached
      /\ task[r].pc = "check" /\ TaskIsLive(r)
  BY DEF EndDelete, CheckEnds, Item_, TaskIsLive, extVars
<1>3. There(i)
  BY <1>2, LiveThere
<1>4. items' = Gone(I)
  BY <1>3 DEF EndDelete, Item_
<1>5. req[r].kind = "delete"
  BY <1>0, <1>1, <1>2, CommandIs DEF Suits
<1>6. /\ I \subseteq Item /\ i \in I /\ I \subseteq Ksu \cup {i}
  BY <1>0, <1>1 DEF KsusOf
<1> HIDE DEF I
<1>7. /\ \A j \in I : items'[j].life = "gone"
      /\ \A j \in Item \ I : items'[j] = items[j]
  BY <1>4, <1>6, GoneFields, NoLongerFields
<1>8. \A j \in Item : j # req'[r].item => Calm(j, r)
  BY <1>7 DEF Calm
<1>9. MarksStay
  <2>1. \A k \in Ksu : items'[k] = items[k] \/ items'[k].life = "gone"
    BY <1>0, <1>7
  <2>2. \A a \in Oka : items'[a] = items[a] \/ ~items[a].inUse
    BY <1>0, <1>1, <1>5, <1>6, <1>7 DEF Argued
  <2> QED
    BY <2>1, <2>2, RemovalMarks
<1>10. OwnAnswer(r)
  BY <1>0, <1>1, <1>6, <1>7 DEF OwnAnswer, Answered
<1>11. OwnList(r)
  BY <1>0, <1>1, <1>2 DEF OwnList
<1> QED
  BY <1>1, <1>2, <1>8, <1>9, <1>10, <1>11, StopsHeld DEF Moves

\* EndDeleteKsu.
LEMMA EndDeleteKsuMoves ==
    ASSUME NEW r \in Request, Known(r), Careful, LcmGoes(r), Stops(r),
           NEW ok \in BOOLEAN, EndDeleteKsu(r, ok)
    PROVE  Moves(r)
<1> DEFINE i == req[r].item
           d == items[i]
<1>0. /\ Cluster \subseteq Item /\ Ksu \subseteq Item /\ Oka \subseteq Item
      /\ Cluster \cap Ksu = {} /\ Ksu \cap Oka = {}
      /\ NoItem \notin Item
  BY GitOpsAssumption DEF Item
<1>1. /\ i \in Item /\ Suits(r) /\ OnPath(r) /\ AnswerHeld(r) /\ TypeOK
      /\ req[r].pc # "free" /\ req' = req
  BY CarefulHeld DEF Known, LcmGoes
<1>2. /\ Command(r) = "delete" /\ i \in Ksu /\ attached' = attached
      /\ task[r].pc = "check"
  BY DEF EndDeleteKsu, CheckEnds, Item_, extVars
<1>3. req[r].kind = "delete"
  BY <1>0, <1>1, <1>2, CommandIs DEF Suits
<1>4. d.state = "DELETED"
  BY <1>1, <1>2, <1>3 DEF AnswerHeld
<1>5. items' = items \/ items' = Gone({i})
  BY DEF EndDeleteKsu, Item_
<1>6. /\ \A j \in Item \ {i} : items'[j] = items[j]
      /\ items'[i].life = "gone" \/ items'[i] = d
  BY <1>1, <1>5, GoneFields, NoLongerFields
<1>7. \A j \in Item : j # req'[r].item => Calm(j, r)
  BY <1>6, OwnCalm
<1>8. MarksStay
  BY <1>0, <1>2, <1>6, RemovalMarks
<1>9. OwnAnswer(r)
  BY <1>0, <1>1, <1>2, <1>3, <1>4, <1>6 DEF OwnAnswer, Answered
<1>10. OwnList(r)
  BY <1>0, <1>1, <1>2 DEF OwnList
<1> QED
  BY <1>1, <1>2, <1>7, <1>8, <1>9, <1>10, StopsHeld DEF Moves

\* EndDeleteCluster.
LEMMA EndDeleteClusterMoves ==
    ASSUME NEW r \in Request, Known(r), Careful, LcmGoes(r), Stops(r),
           NEW ok \in BOOLEAN, EndDeleteCluster(r, ok)
    PROVE  Moves(r)
<1> DEFINE c == req[r].item
           d == items[c]
           doc == AfterCheck(r, ok)
           I == IF req[r].force /\ ~ok THEN {c} ELSE ToRemove(c, doc.links)
<1>0. /\ Cluster \subseteq Item /\ Profile \subseteq Item /\ Ksu \subseteq Item
      /\ Oka \subseteq Item /\ NoItem \notin Item
      /\ Cluster \cap Profile = {} /\ Cluster \cap Ksu = {} /\ Cluster \cap Oka = {}
      /\ Profile \cap Ksu = {} /\ Profile \cap Oka = {} /\ Ksu \cap Oka = {}
  BY GitOpsAssumption DEF Item
<1>1. /\ c \in Item /\ TypeOK /\ ListHeld(r) /\ req' = req
  BY CarefulHeld DEF Known, LcmGoes
<1>2. /\ c \in Cluster /\ Command(r) = "delete" /\ attached' = attached
      /\ task[r].pc = "check" /\ Working(r)
      /\ Default[c] \in Profile /\ Default[c] \in Item
  <2>1. /\ c \in Cluster /\ Command(r) = "delete" /\ attached' = attached
        /\ task[r].pc = "check"
    BY DEF EndDeleteCluster, CheckEnds, Item_, extVars
  <2> QED
    BY <2>1, DefaultInItem DEF Working
<1>3. /\ There(c) /\ doc \in ItemRec /\ doc.links = d.links
      /\ doc.state = task[r].doc.state /\ doc.hist[r] \in {"COMPLETED", "FAILED"}
  <2>1. CheckEnds(r, ok)
    BY DEF EndDeleteCluster
  <2> HIDE DEF doc, d, I
  <2> QED
    BY <1>2, <2>1, CheckedFields DEF doc, d
<1>4. PICK S \in SUBSET Detachable(c, doc.links) :
         items' = [Gone(I) EXCEPT ![c] = IF c \in I THEN @
                                         ELSE [doc EXCEPT !.links = @ \ S]]
  BY <1>3 DEF EndDeleteCluster, Item_
<1>5. I \subseteq Item /\ I \subseteq Profile \cup Ksu \cup {c}
  BY <1>0, <1>1, <1>2 DEF ToRemove, KsusOf
<1> HIDE DEF I, doc
<1>6. /\ \A j \in I : j # c => items'[j].life = "gone"
      /\ \A j \in Item \ I : j # c => items'[j] = items[j]
  <2>1. \A j \in Item \ {c} : items'[j] = Gone(I)[j]
    BY <1>4 DEF Gone
  <2> QED
    BY <1>5, <2>1, NoLongerFields DEF Gone
<1>7. \/ items'[c].life = "gone"
      \/ /\ items'[c].state = doc.state /\ items'[c].hist = doc.hist
         /\ items'[c].links \subseteq doc.links
  <2>1. items'[c] = IF c \in I THEN NoLonger(d) ELSE [doc EXCEPT !.links = @ \ S]
    BY <1>1, <1>4 DEF Gone
  <2>2. CASE c \in I
    BY <2>1, <2>2, NoLongerFields
  <2>3. CASE c \notin I
    BY <1>3, <2>1, <2>3 DEF ItemRec
  <2> QED
    BY <2>2, <2>3
<1>8. \A j \in Item : j # req'[r].item => Calm(j, r)
  BY <1>1, <1>6 DEF Calm
<1>9. MarksStay
  <2>1. \A k \in Ksu : items'[k] = items[k] \/ items'[k].life = "gone"
    BY <1>0, <1>2, <1>6
  <2>2. \A a \in Oka : items'[a] = items[a]
    BY <1>0, <1>2, <1>5, <1>6
  <2> QED
    BY <2>1, <2>2, RemovalMarks
<1>10. OwnAnswer(r)
  BY <1>0, <1>1, <1>3, <1>7 DEF OwnAnswer, Answered
<1>11. OwnList(r)
  <2> SUFFICES ASSUME items'[c].life = "there", items'[c].state = "CREATED"
               PROVE  items'[c].links \subseteq attached[c]
    BY <1>1, <1>2 DEF OwnList
  <2>1. task[r].doc.state = "CREATED" /\ items'[c].links \subseteq d.links
    BY <1>3, <1>7
  <2>2. NewLinks(r) = d.links
    BY <1>2, CopyFits DEF NewLinks, SameShape
  <2> QED
    BY <1>1, <1>2, <2>1, <2>2 DEF ListHeld
<1> QED
  BY <1>1, <1>2, <1>8, <1>9, <1>10, <1>11, StopsHeld DEF Moves

\* Every step of a coroutine.
LEMMA LcmMoves ==
    ASSUME NEW r \in Request, Known(r), Careful, LcmGoes(r), LcmEffect(r)
    PROVE  Moves(r)
<1>1. CASE Removes(r)
  BY <1>1, EndDeleteMoves, EndDeleteKsuMoves, EndDeleteClusterMoves DEF Removes
<1>2. CASE Begins(r) \/ Launches(r) \/ Polls(r)
  BY <1>2, BeginsMoves, LaunchesMoves, PollsMoves
<1>3. CASE Closes(r) \/ Progresses(r) \/ Completes(r)
  BY <1>3, ClosesMoves, ProgressesMoves, CompletesMoves
<1>4. CASE ClusterEnds(r) \/ Publishes(r) \/ Deregisters(r)
  BY <1>4, ClusterEndsMoves, PublishesMoves, DeregistersMoves
<1> QED
  BY <1>1, <1>2, <1>3, <1>4 DEF LcmEffect

-----------------------------------------------------------------------------
(* The steps of NBI                                                         *)

\* The list of a cluster that no coroutine checks is as the repository has it.
LEMMA ListStands ==
    ASSUME NEW r \in Request, Careful, \A s \in Request \ {r} : ~Open(s),
           task[r].pc \notin {"check", "finish"},
           NEW c \in Cluster, There(c), items[c].state = "CREATED"
    PROVE  items[c].links \subseteq attached[c]
<1>1. c \notin BeingChecked
  <2> SUFFICES ASSUME NEW s \in Request, task[s].pc \in {"check", "finish"}
               PROVE  s = r
    BY DEF BeingChecked
  <2>1. Open(s)
    BY DEF Open, TaskIsLive
  <2> QED
    BY <2>1
<1> QED
  BY <1>1 DEF Careful, ListsHold

\* What is kept for a request that LCM does not know yet.
LEMMA NewlyHeld ==
    ASSUME NEW r \in Request, task'[r].pc = "none", r \notin inbox',
           req'[r].pc = "written" /\ req'[r].kind \in BusyKinds =>
              items'[req'[r].item].operating # "IDLE",
           req'[r].pc = "read" /\ req'[r].kind = "create" =>
              \A a \in req'[r].doc.links \cap Oka : items'[a].inUse,
           req'[r].pc = "written" /\ req'[r].kind = "create"
              /\ req'[r].item \in Ksu =>
              items'[req'[r].item].state \notin BeingDeleted,
           req'[r].pc = "written" /\ req'[r].kind \in {"create", "register"}
              /\ req'[r].item \in Cluster =>
              items'[req'[r].item].links =
                IF req'[r].kind = "create" THEN {Default[req'[r].item]} ELSE {}
    PROVE  Held(r)' /\ OwnAnswer(r)
<1>1. /\ ~Working(r)'
      /\ Asked(r)' => req'[r].pc = "written"
  BY DEF Working, Asked
<1>2. BusyHeld(r)'
  BY <1>1 DEF BusyHeld
<1>3. MarkHeld(r)'
  BY <1>1 DEF MarkHeld
<1>4. ListHeld(r)'
  BY <1>1 DEF ListHeld
<1>5. AnswerHeld(r)'
  BY DEF AnswerHeld
<1>6. OwnAnswer(r)
  BY DEF OwnAnswer, Due
<1> QED
  BY <1>2, <1>3, <1>4, <1>5, <1>6 DEF Held

\* A step that only moves the request.
LEMMA StillMoves ==
    ASSUME NEW r \in Request, Asks(r), Careful, Goes(r), Open(r),
           req[r].pc # "free", req'[r].pc \in {"old", "done"},
           items' = items, attached' = attached,
           \/ task'[r] = task[r]
           \/ task[r].pc = "none" /\ task'[r].pc = "scheduled",
           Asked(r)' => Asked(r)
    PROVE  Moves(r)
<1> DEFINE i == req[r].item
           d == items[i]
<1>1. /\ req'[r].kind = req[r].kind /\ req'[r].item = i
      /\ req'[r].with = req[r].with /\ req'[r].arg = req[r].arg
  BY DEF Goes
<1>2. /\ InOrder /\ Suits(r) /\ BusyHeld(r) /\ MarkHeld(r) /\ ListHeld(r)
      /\ AnswerHeld(r) /\ AllAnswered /\ i \in Item /\ i # NoItem
  BY GitOpsAssumption, CarefulHeld DEF Asks, Careful, Suits
<1>3. \A s \in Request \ {r} : ~Open(s)
  BY <1>2, OthersAreIdle
<1>4. Working(r)' => Working(r) /\ task'[r] = task[r]
  BY DEF Working
<1>5. Held(r)'
  <2>1. BusyHeld(r)'
    BY <1>1, <1>2, <1>4 DEF BusyHeld
  <2>2. MarkHeld(r)'
    BY <1>1, <1>2, <1>4 DEF MarkHeld
  <2>3. task'[r] = task[r] => NewLinks(r)' = NewLinks(r)
    BY <1>1 DEF NewLinks, Command
  <2>4. ListHeld(r)'
    BY <1>1, <1>2, <1>4, <2>3 DEF ListHeld
  <2>5. AnswerHeld(r)'
    BY <1>1, <1>2 DEF AnswerHeld
  <2> QED
    BY <2>1, <2>2, <2>4, <2>5 DEF Held
<1>6. OwnAnswer(r)
  <2> SUFFICES ASSUME OwnDefaults', Due(r)' PROVE Answered(r)'
    BY DEF OwnAnswer
  <2>1. OwnDefaults
    BY <1>2, HistoryGoesOn
  <2>2. task'[r] = task[r] /\ task[r].pc = "over"
    BY DEF Due
  <2>3. \A q \in Request : q > r => req[q].item # i
    <3> SUFFICES ASSUME NEW q \in Request, q > r PROVE req[q].item # i
      OBVIOUS
    <3>1. q # r
      BY GitOpsAssumption DEF Request
    <3> QED
      BY <1>1, <3>1 DEF Due, Goes
  <2>4. Due(r)
    BY <1>1, <2>2, <2>3 DEF Due
  <2>5. Answered(r)
    BY <1>2, <2>1, <2>4 DEF AllAnswered
  <2> QED
    BY <1>1, <2>5 DEF Answered
<1>7. OwnList(r)
  <2> SUFFICES ASSUME i \in Cluster, d.life = "there", d.state = "CREATED",
                      task'[r].pc \notin {"check", "finish"}
               PROVE  d.links \subseteq attached[i]
    BY <1>1 DEF OwnList
  <2>1. task[r].pc \notin {"check", "finish"} /\ There(i)
    BY DEF There
  <2> QED
    BY <1>3, <2>1, ListStands
<1>8. MarksStay
  BY DEF MarksStay, Deployed, There
<1> QED
  BY <1>5, <1>6, <1>7, <1>8 DEF Moves, Calm

\* It is the turn of r, and only r moves.
OnTurn(r) ==
    /\ Goes(r)
    /\ Open(r) \/ (req[r].pc = "free" /\ \A s \in Request : ~Open(s))
    /\ req[r].pc = "free" => req'[r].kind \in Commands

LEMMA NbiSendMoves ==
    ASSUME NEW r \in Request, Asks(r), Careful, NbiSend(r)
    PROVE  OnTurn(r) /\ Moves(r)
<1> DEFINE q == req[r]
           pc == IF q.kind \in {"create", "register"} /\ q.item \in Cluster
                   THEN "old" ELSE "done"
<1>1. TypeOK /\ OnPath(r)
  BY DEF Asks
<1>2. /\ q.pc = "written" /\ req' = [req EXCEPT ![r].pc = pc]
      /\ inbox' = inbox \cup {r} /\ task' = task /\ items' = items
      /\ attached' = attached
  BY DEF NbiSend, extVars
<1>3. Open(r) /\ Asked(r)
  BY <1>2 DEF Open, Asked
<1>4. Goes(r) /\ req'[r].pc = pc
  BY <1>1, <1>2, NextPc
<1> QED
  BY <1>2, <1>3, <1>4, StillMoves DEF OnTurn

LEMMA NbiOldMoves ==
    ASSUME NEW r \in Request, Asks(r), Careful, NbiOld(r)
    PROVE  OnTurn(r) /\ Moves(r)
<1>1. TypeOK
  BY DEF Asks
<1>2. /\ req[r].pc = "old" /\ req' = [req EXCEPT ![r].pc = "done"]
      /\ inbox' = inbox /\ task' = task /\ items' = items /\ attached' = attached
  BY DEF NbiOld, extVars
<1>3. Open(r)
  BY <1>2 DEF Open
<1>4. Goes(r) /\ req'[r].pc = "done"
  BY <1>1, <1>2, NextPc
<1>5. Asked(r)' => Asked(r)
  BY <1>2, <1>4 DEF Asked
<1> QED
  BY <1>2, <1>3, <1>4, <1>5, StillMoves DEF OnTurn

LEMMA DeliverMoves ==
    ASSUME NEW r \in Request, Asks(r), Careful, Deliver(r)
    PROVE  OnTurn(r) /\ Moves(r)
<1>1. TypeOK /\ OnPath(r)
  BY DEF Asks
<1>2. /\ r \in inbox /\ inbox' = inbox \ {r} /\ req' = req /\ items' = items
      /\ attached' = attached
      /\ task' = [task EXCEPT ![r] = [NoTask EXCEPT !.pc = "scheduled"]]
  BY DEF Deliver, extVars
<1>3. /\ Open(r) /\ Asked(r) /\ req[r].pc \in {"old", "done"}
      /\ task[r].pc = "none"
  BY <1>1, <1>2 DEF Open, Asked, OnPath, Asks, RequestRec
<1>4. /\ task'[r].pc = "scheduled"
      /\ \A s \in Request \ {r} : task'[s] = task[s]
  BY <1>1, <1>2 DEF TypeOK, NoTask
<1>5. Goes(r)
  BY <1>2, <1>4 DEF Goes
<1> QED
  BY <1>2, <1>3, <1>4, <1>5, StillMoves DEF OnTurn

LEMMA NbiNewMoves ==
    ASSUME NEW r \in Request, Asks(r), TypeOK', Undisturbed', MayOpen(r), Careful,
           NEW i \in Item, NEW kind, NbiNew(r, i, kind)
    PROVE  OnTurn(r) /\ Moves(r)
<1> DEFINE new == [NoReq EXCEPT !.pc = "written", !.kind = kind, !.item = i]
           D == IF i \in Cluster /\ kind = "create" THEN {Default[i]} ELSE {}
           I == {i} \cup D
           e == NewOperation(NewRecord(i, kind), r)
<1>0. /\ Cluster \subseteq Item /\ Ksu \subseteq Item /\ Oka \subseteq Item
      /\ Cluster \cap Profile = {} /\ Profile \cap Ksu = {} /\ Profile \cap Oka = {}
  BY GitOpsAssumption DEF Item
<1>1. TypeOK /\ NewIsEmpty /\ Linked /\ DefaultsListed
  BY DEF Asks, RecordsFit
<1>2. /\ kind \in {"create", "register"} /\ items[i].life = "new" /\ i \notin Ksu
      /\ items' = [j \in Item |->
                     IF j \in I THEN NewOperation(NewRecord(j, kind), r)
                                ELSE items[j]]
      /\ Opens(r, new) /\ attached' = attached /\ inbox' = inbox /\ task' = task
  BY DEF NbiNew, extVars
<1>3. new.pc = "written" /\ new.kind = kind /\ new.item = i
  BY DEF NoReq
<1> HIDE DEF new
<1>4. /\ req[r].pc = "free" /\ \A s \in Request : ~Open(s)
      /\ Goes(r) /\ req'[r] = new /\ task'[r].pc = "none" /\ r \notin inbox'
  BY <1>2, <1>3, OpensGoes
<1>5. /\ D \subseteq Profile /\ i \in I /\ I \subseteq {i} \cup D
      /\ \A j \in I : items[j].life = "new"
  <2>1. i \in Cluster => ~items[i].created
    BY <1>1, <1>2 DEF NewIsEmpty, NoRecord
  <2>2. i \in Cluster => items[Default[i]].life = "new"
    BY <1>1, <2>1 DEF DefaultsListed
  <2> QED
    BY <1>2, <2>2, DefaultInItem
<1>6. items'[i] = e /\ \A j \in Item \ I : items'[j] = items[j]
  BY <1>2
<1> HIDE DEF I, D
<1>7. AsCreated(e, i, kind, r)
  BY NewRecordFields
<1> HIDE DEF e
<1>8. \A j \in Item : j # req'[r].item => Calm(j, r)
  BY <1>0, <1>3, <1>4, <1>5, <1>6 DEF Calm
<1>9. MarksStay
  <2>1. \A k \in Ksu : items'[k] = items[k]
    BY <1>0, <1>2, <1>5, <1>6
  <2>2. \A a \in Oka : items'[a] = items[a] \/ ~items[a].inUse
    BY <1>0, <1>1, <1>5, <1>6 DEF Linked, There
  <2> QED
    BY <2>1, <2>2, RemovalMarks
<1>10. /\ items'[i].operating # "IDLE" /\ items'[i].state = "IN_CREATION"
       /\ items'[i].links = IF i \in Cluster /\ kind = "create"
                              THEN {Default[i]} ELSE {}
  BY <1>6, <1>7 DEF AsCreated
<1>11. Held(r)' /\ OwnAnswer(r)
  BY <1>2, <1>3, <1>4, <1>10, NewlyHeld
<1>12. OwnList(r)
  BY <1>3, <1>4, <1>10 DEF OwnList
<1>13. kind \in Commands
  BY <1>2 DEF Commands, BusyKinds
<1> QED
  BY <1>2, <1>3, <1>4, <1>8, <1>9, <1>11, <1>12, <1>13 DEF Moves, OnTurn

LEMMA NbiMarkOkaMoves ==
    ASSUME NEW r \in Request, Asks(r), TypeOK', Undisturbed', MayOpen(r), Careful,
           NEW k \in Ksu, NEW with \in SUBSET Ksu, NEW p \in Profile, NEW a \in Oka,
           NbiMarkOka(r, k, with, p, a)
    PROVE  OnTurn(r) /\ Moves(r)
<1> DEFINE doc == [NoRecord EXCEPT !.links = {p, a}]
           new == [NoReq EXCEPT !.pc = "read", !.kind = "create", !.item = k,
                                !.with = with, !.doc = doc]
<1>0. /\ Oka \subseteq Item /\ Cluster \cap Ksu = {} /\ Cluster \cap Oka = {}
      /\ Ksu \cap Oka = {} /\ Profile \cap Oka = {}
  BY GitOpsAssumption DEF Item
<1>1. TypeOK
  BY DEF Asks
<1>2. /\ There(a) /\ items' = [items EXCEPT ![a].inUse = TRUE]
      /\ attached' = attached /\ inbox' = inbox /\ task' = task
  BY DEF NbiMarkOka, extVars
<1>3. Opens(r, new)
  <2>1. Opens(r, [NoReq EXCEPT !.pc = "read", !.kind = "create", !.item = k,
                               !.with = with, !.doc.links = {p, a}])
    BY DEF NbiMarkOka
  <2>2. NoReq.doc = NoRecord
    BY DEF NoReq
  <2>3. [NoReq EXCEPT !.pc = "read", !.kind = "create", !.item = k,
                      !.with = with, !.doc.links = {p, a}] = new
    BY <2>2 DEF NoReq
  <2> HIDE DEF new
  <2> QED
    BY <2>1, <2>3
<1>4. doc.links = {p, a}
  BY DEF NoRecord
<1> HIDE DEF doc
<1>5. /\ new.pc = "read" /\ new.kind = "create" /\ new.item = k
      /\ new.doc = doc
  BY DEF NoReq
<1> HIDE DEF new
<1>6. /\ req[r].pc = "free" /\ \A s \in Request : ~Open(s)
      /\ Goes(r) /\ req'[r] = new /\ task'[r].pc = "none" /\ r \notin inbox'
  BY <1>2, <1>3, <1>5, OpensGoes
<1>7. /\ \A j \in Item \ {a} : items'[j] = items[j]
      /\ items'[a].inUse /\ items'[a].life = items[a].life
      /\ items'[a].links = items[a].links /\ items'[a].hist = items[a].hist
  <2>1. items[a] \in ItemRec
    BY <1>0, <1>1 DEF TypeOK
  <2> QED
    BY <1>0, <1>1, <1>2, <2>1 DEF TypeOK, ItemRec
<1>8. \A j \in Item : Calm(j, r)
  BY <1>0, <1>2, <1>7 DEF Calm, There
<1>9. MarksStay
  <2> SUFFICES ASSUME NEW j \in Ksu, NEW b \in Oka,
                      Deployed(j)', b \in items'[j].links
               PROVE  \/ items'[b].inUse
                      \/ Deployed(j) /\ b \in items[j].links /\ ~items[b].inUse
    BY DEF MarksStay
  <2>1. items'[j] = items[j] /\ (items'[b].inUse <=> items[b].inUse \/ b = a)
    BY <1>0, <1>7 DEF Item
  <2> QED
    BY <2>1 DEF Deployed, There
<1>10. Held(r)' /\ OwnAnswer(r)
  BY <1>0, <1>4, <1>5, <1>6, <1>7, NewlyHeld
<1>11. OwnList(r)
  BY <1>0, <1>5, <1>6 DEF OwnList
<1>12. "create" \in Commands
  BY DEF Commands, BusyKinds
<1> QED
  BY <1>2, <1>5, <1>6, <1>8, <1>9, <1>10, <1>11, <1>12 DEF Moves, OnTurn

LEMMA NbiNewKsusMoves ==
    ASSUME NEW r \in Request, Asks(r), Careful, NbiNewKsus(r)
    PROVE  OnTurn(r) /\ Moves(r)
<1> DEFINE q == req[r]
           k == q.item
           K == {k} \cup q.with
           L == q.doc.links
           n == [NewRecord(k, "create") EXCEPT !.links = L]
           o == NewOperation(n, r)
<1>0. /\ Ksu \subseteq Item /\ Oka \subseteq Item /\ Cluster \cap Ksu = {}
      /\ Profile \cap Ksu = {} /\ Ksu \cap Oka = {} /\ Profile \subseteq Item
  BY GitOpsAssumption DEF Item
<1>1. /\ TypeOK /\ Suits(r) /\ Reading(r) /\ q.with \subseteq Ksu /\ MarkHeld(r)
  BY CarefulHeld DEF Asks, RequestRec
<1>2. /\ q.pc = "read" /\ q.kind = "create"
      /\ req' = [req EXCEPT ![r].pc = "written", ![r].doc = NoRecord]
      /\ inbox' = inbox /\ task' = task /\ attached' = attached
  BY DEF NbiNewKsus, extVars
<1>3. /\ Open(r) /\ Goes(r) /\ req'[r].pc = "written"
      /\ req'[r].kind = q.kind /\ req'[r].item = k
      /\ task'[r].pc = "none" /\ r \notin inbox'
  BY <1>2, WritesGoes
<1>4. /\ \A j \in K : items[j].life = "new"
      /\ L \subseteq Item
  BY <1>0, <1>1, <1>2 DEF Reading
<1>5. K \subseteq Ksu /\ k \in K
  BY <1>1, <1>2 DEF Suits
<1>6. /\ \A j \in Item \ K : items'[j] = items[j]
      /\ items'[k] = o
      /\ \A j \in K \ {k} : items'[j] =
            [NewRecord(j, "create") EXCEPT !.links = L]
  BY <1>0, <1>5 DEF NbiNewKsus
<1>7. \A a \in L \cap Oka : items[a].inUse
  BY <1>1, <1>2 DEF MarkHeld
<1>8. \A j \in K : items'[j].links = L
  <2> SUFFICES ASSUME NEW j \in K PROVE items'[j].links = L
    OBVIOUS
  <2> DEFINE m == NewRecord(j, "create")
             x == [m EXCEPT !.links = L]
  <2>1. m \in ItemRec
    BY <1>0, <1>5, NewRecordHonest DEF Honest
  <2> HIDE DEF m
  <2>2. x \in ItemRec /\ x.links = L
    BY <1>4, <2>1 DEF ItemRec
  <2>3. CASE j # k
    BY <1>6, <2>2, <2>3 DEF m
  <2>4. CASE j = k
    <3> HIDE DEF x
    <3>1. HistoryOnly(NewOperation(x, r), x, r)
      BY <2>2, HistoryFields
    <3>2. NewOperation(x, r).links = L
      BY <2>2, <3>1 DEF HistoryOnly, SameShape
    <3> QED
      BY <1>6, <2>4, <3>2 DEF x, m
  <2> QED
    BY <2>3, <2>4
<1>9. items'[k].state = "IN_CREATION" /\ items'[k].operating = "PROCESSING"
  <2> DEFINE m == NewRecord(k, "create")
  <2>1. m \in ItemRec
    BY <1>0, <1>5, NewRecordHonest DEF Honest
  <2>2. m.state = "IN_CREATION" /\ m.operating = "PROCESSING"
    <3>1. NoRecord \in [life : {"new"}, state : {"PENDING"},
                        operating : {"PROCESSING"}, resource : {"IN_PROGRESS"},
                        current : {NoRequest}, hist : {[s \in Request |-> "absent"]},
                        links : {{}}, inUse : {FALSE}, created : {FALSE}]
      BY DEF NoRecord
    <3>2. k \notin Profile /\ k \notin Cluster
      BY <1>0, <1>5
    <3> QED
      BY <3>1, <3>2 DEF NewRecord
  <2> HIDE DEF m
  <2>3. /\ n = [m EXCEPT !.links = L]
    BY DEF m
  <2> HIDE DEF n
  <2>4. n \in ItemRec /\ n.state = "IN_CREATION" /\ n.operating = "PROCESSING"
    BY <1>4, <2>1, <2>2, <2>3 DEF ItemRec
  <2>5. HistoryOnly(o, n, r)
    BY <2>4, HistoryFields
  <2> HIDE DEF o
  <2> QED
    BY <1>6, <2>4, <2>5 DEF HistoryOnly
<1> HIDE DEF K, L, n, o
<1>10. \A j \in Item : j # req'[r].item => Calm(j, r)
  BY <1>0, <1>4, <1>5, <1>6 DEF Calm
<1>11. MarksStay
  <2> SUFFICES ASSUME NEW j \in Ksu, NEW a \in Oka,
                      Deployed(j)', a \in items'[j].links
               PROVE  \/ items'[a].inUse
                      \/ Deployed(j) /\ a \in items[j].links /\ ~items[a].inUse
    BY DEF MarksStay
  <2>1. items'[a] = items[a]
    BY <1>0, <1>5, <1>6
  <2>2. CASE j \in K
    BY <1>7, <1>8, <2>1, <2>2
  <2>3. CASE j \notin K
    <3>1. items'[j] = items[j]
      BY <1>0, <1>6, <2>3
    <3> QED
      BY <2>1, <3>1 DEF Deployed, There
  <2> QED
    BY <2>2, <2>3
<1>12. Held(r)' /\ OwnAnswer(r)
  <2>1. items'[k].state \notin BeingDeleted
    BY <1>9 DEF BeingDeleted
  <2>2. k \notin Cluster
    BY <1>0, <1>5
  <2> QED
    BY <1>3, <1>9, <2>1, <2>2, NewlyHeld
<1>13. OwnList(r)
  BY <1>0, <1>3, <1>5 DEF OwnList
<1> QED
  BY <1>2, <1>3, <1>10, <1>11, <1>12, <1>13 DEF Moves, OnTurn

LEMMA NbiReadMoves ==
    ASSUME NEW r \in Request, Asks(r), TypeOK', Undisturbed', MayOpen(r), Careful,
           NEW kind, NEW i \in Item, NEW x \in Item \cup {NoItem}, NEW force,
           NbiRead(r, kind, i, x, force)
    PROVE  OnTurn(r) /\ Moves(r)
<1> DEFINE new == [NoReq EXCEPT !.pc = "read", !.kind = kind, !.item = i,
                                !.arg = x, !.force = force, !.doc = items[i]]
           d == items[i]
           detached == kind = "delete" /\ i \in Profile
<1>0. /\ Cluster \subseteq Item /\ Ksu \subseteq Item /\ Oka \subseteq Item
      /\ Cluster \cap Profile = {} /\ Cluster \cap Ksu = {} /\ Cluster \cap Oka = {}
      /\ Profile \cap Ksu = {} /\ Profile \cap Oka = {} /\ Ksu \cap Oka = {}
  BY GitOpsAssumption DEF Item
<1>1. TypeOK /\ InOrder
  BY DEF Asks
<1>2. /\ Accepted(kind, i, x) /\ Opens(r, new) /\ There(i)
      /\ attached' = attached /\ inbox' = inbox /\ task' = task
      /\ items' = IF detached
                    THEN [j \in Item |->
                            IF j \in Listing(i)
                              THEN [items[j] EXCEPT !.links = @ \ {i}]
                              ELSE items[j]]
                    ELSE items
  BY DEF NbiRead, extVars
<1>3. new.pc = "read" /\ new.kind = kind /\ new.item = i
  BY DEF NoReq
<1> HIDE DEF new
<1>4. /\ Goes(r) /\ req'[r] = new /\ req[r].pc = "free"
      /\ \A s \in Request : ~Open(s)
      /\ task'[r].pc = "none" /\ r \notin inbox'
  BY <1>2, <1>3, OpensGoes
<1>5. kind # "create"
  BY <1>2 DEF Accepted
<1>6. \A j \in Item :
        \/ items'[j] = items[j]
        \/ /\ j \in Cluster /\ detached /\ There(j)
           /\ items'[j].life = items[j].life
           /\ items'[j].links \subseteq items[j].links
           /\ items'[j].hist = items[j].hist
           /\ items'[j].state = items[j].state
           /\ items'[j].resource = items[j].resource
  <2> SUFFICES ASSUME NEW j \in Item, items'[j] # items[j]
               PROVE  /\ j \in Cluster /\ detached /\ There(j)
                      /\ items'[j].life = items[j].life
                      /\ items'[j].links \subseteq items[j].links
                      /\ items'[j].hist = items[j].hist
                      /\ items'[j].state = items[j].state
                      /\ items'[j].resource = items[j].resource
    OBVIOUS
  <2>1. items[j] \in ItemRec
    BY <1>1 DEF TypeOK
  <2>2. detached /\ j \in Listing(i)
    BY <1>2
  <2>3. items'[j] = [items[j] EXCEPT !.links = @ \ {i}]
    BY <1>2, <2>2
  <2>4. j \in Cluster /\ There(j)
    BY <2>2 DEF Listing
  <2> QED
    BY <2>1, <2>2, <2>3, <2>4 DEF ItemRec
<1> HIDE DEF detached
<1>7. \A j \in Item : Calm(j, r)
  BY <1>6 DEF Calm, There
<1>8. MarksStay
  <2>1. \A k \in Ksu : items'[k] = items[k]
    BY <1>0, <1>6
  <2>2. \A a \in Oka : items'[a] = items[a]
    BY <1>0, <1>6
  <2> QED
    BY <2>1, <2>2, RemovalMarks
<1>9. Held(r)' /\ OwnAnswer(r)
  BY <1>3, <1>4, <1>5, NewlyHeld
<1>10. OwnList(r)
  <2> SUFFICES ASSUME i \in Cluster, items'[i].state = "CREATED"
               PROVE  items'[i].links \subseteq attached[i]
    BY <1>2, <1>3, <1>4 DEF OwnList
  <2>1. items'[i] = d
    BY <1>0, <1>6 DEF detached
  <2>2. task[r].pc = "none"
    BY <1>2, <1>4
  <2>3. d.links \subseteq attached[i]
    BY <1>2, <1>4, <2>1, <2>2, ListStands
  <2> QED
    BY <2>1, <2>3
<1>11. kind \in Commands
  BY <1>2 DEF Accepted, Commands, BusyKinds
<1> QED
  BY <1>2, <1>3, <1>4, <1>7, <1>8, <1>9, <1>10, <1>11 DEF Moves, OnTurn

LEMMA NbiWriteMoves ==
    ASSUME NEW r \in Request, Asks(r), Careful, NbiWrite(r)
    PROVE  OnTurn(r) /\ Moves(r)
<1> DEFINE q == req[r]
           i == q.item
           d == items[i]
           e == Marked(q.doc, r)
<1>0. /\ Ksu \subseteq Item /\ Oka \subseteq Item /\ Cluster \subseteq Item
      /\ Profile \cap Oka = {} /\ Cluster \cap Ksu = {} /\ Ksu \cap Oka = {}
  BY GitOpsAssumption DEF Item
<1>1. /\ TypeOK /\ Named /\ InOrder /\ Suits(r) /\ Reading(r)
  BY DEF Asks
<1>2. /\ q.pc = "read" /\ q.kind # "create"
      /\ q.kind = "delete" => i \notin Ksu
      /\ inbox' = inbox /\ task' = task /\ attached' = attached
  BY DEF NbiWrite, extVars
<1>3. There(i) /\ q.doc = d /\ i \in Item /\ d \in ItemRec
  BY <1>1, <1>2 DEF Reading, Suits, TypeOK
<1>4. /\ items' = [items EXCEPT ![i] = e]
      /\ req' = [req EXCEPT ![r].pc = "written", ![r].doc = NoRecord]
  BY <1>3 DEF NbiWrite
<1>5. /\ Goes(r) /\ req'[r].pc = "written" /\ Open(r)
      /\ req'[r].kind = q.kind /\ req'[r].item = i
      /\ task'[r].pc = "none" /\ r \notin inbox'
  BY <1>2, <1>4, WritesGoes
<1>6. /\ e \in ItemRec
      /\ e.life = d.life /\ e.inUse = d.inUse
      /\ e.state = IF q.kind = "delete" THEN "IN_DELETION" ELSE d.state
      /\ q.kind \in {"delete", "add", "update", "edit", "move"} =>
            e.operating = "PROCESSING"
      /\ e.links = IF q.kind = "move" THEN (d.links \ Profile) \cup {q.arg}
                   ELSE d.links
  <2>1. q.doc \in ItemRec
    BY <1>3
  <2> HIDE DEF e, d
  <2>2. /\ e \in ItemRec
        /\ e.life = q.doc.life /\ e.created = q.doc.created
        /\ e.inUse = q.doc.inUse
        /\ e.state = IF req[r].kind = "delete" THEN "IN_DELETION"
                     ELSE q.doc.state
        /\ e.hist[r] = "None"
        /\ \A s \in Request \ {r} : e.hist[s] = q.doc.hist[s]
        /\ req[r].kind \in {"delete", "add", "update", "edit", "move"} =>
              e.operating = "PROCESSING"
        /\ e.links = IF req[r].kind = "move"
                       THEN (q.doc.links \ Profile) \cup {req[r].arg}
                     ELSE q.doc.links
    BY <1>1, <2>1, MarkedFields DEF e
  <2> QED
    BY <1>3, <2>2
<1> HIDE DEF e
<1>7. items'[i] = e /\ \A j \in Item \ {i} : items'[j] = items[j]
  BY <1>1, <1>3, <1>4 DEF TypeOK
<1>8. \A j \in Item : j # req'[r].item => Calm(j, r)
  BY <1>5, <1>7 DEF Calm
<1>9. MarksStay
  <2> SUFFICES ASSUME NEW k \in Ksu, NEW a \in Oka,
                      Deployed(k)', a \in items'[k].links
               PROVE  \/ items'[a].inUse
                      \/ Deployed(k) /\ a \in items[k].links /\ ~items[a].inUse
    BY DEF MarksStay
  <2>1. items'[a].inUse <=> items[a].inUse
    BY <1>0, <1>6, <1>7
  <2>2. /\ items'[k].life = items[k].life /\ items'[k].state = items[k].state
        /\ a \in items[k].links
    <3>1. CASE k # i
      BY <1>0, <1>7, <3>1
    <3>2. CASE k = i
      <4>1. q.kind # "delete" /\ (q.kind = "move" => q.arg \in Profile)
        BY <1>1, <1>2, <1>3, <3>2 DEF Named, Asks
      <4> QED
        BY <1>0, <1>6, <1>7, <3>2, <4>1
    <3> QED
      BY <3>1, <3>2
  <2> QED
    BY <2>1, <2>2 DEF Deployed, There
<1>10. Held(r)' /\ OwnAnswer(r)
  <2>1. q.kind # "register"
    BY <1>1, <1>2 DEF Suits
  <2>2. q.kind \in BusyKinds => items'[i].operating # "IDLE"
    BY <1>2, <1>6, <1>7, <2>1 DEF BusyKinds
  <2> QED
    BY <1>2, <1>5, <2>1, <2>2, NewlyHeld
<1>11. OwnList(r)
  <2> SUFFICES ASSUME i \in Cluster, e.state = "CREATED"
               PROVE  e.links \subseteq attached[i]
    BY <1>2, <1>5, <1>7 DEF OwnList
  <2>1. q.kind # "delete" /\ q.kind # "move" /\ d.state = "CREATED"
    BY <1>0, <1>1, <1>2, <1>6 DEF Suits
  <2>2. task[r].pc = "none" /\ \A s \in Request \ {r} : ~Open(s)
    BY <1>1, <1>2, <1>5, OthersAreIdle
  <2>3. d.links \subseteq attached[i]
    BY <1>3, <2>1, <2>2, ListStands
  <2> QED
    BY <1>6, <2>1, <2>3
<1> QED
  BY <1>2, <1>5, <1>8, <1>9, <1>10, <1>11 DEF Moves, OnTurn

\* The copy NBI writes for a delete.
LEMMA MarkedDeletion ==
    ASSUME Named, NEW r \in Request, NEW d \in ItemRec, req[r].kind = "delete"
    PROVE  /\ Marked(d, r).state = "IN_DELETION"
           /\ Marked(d, r).operating = "PROCESSING"
<1> DEFINE e == Marked(d, r)
<1>1. /\ e.state = IF req[r].kind = "delete" THEN "IN_DELETION" ELSE d.state
      /\ req[r].kind \in {"delete", "add", "update", "edit", "move"} =>
            e.operating = "PROCESSING"
  BY MarkedFields
<1> HIDE DEF e
<1> QED
  BY <1>1 DEF e

LEMMA NbiDeleteKsuMoves ==
    ASSUME NEW r \in Request, Asks(r), Careful, NbiDeleteKsu(r)
    PROVE  OnTurn(r) /\ Moves(r)
<1> DEFINE q == req[r]
           k == q.item
           d == items[k]
           e == Marked(q.doc, r)
           unused == UnusedAfter(k, q.doc)
           A == IF \A a \in unused : There(a) THEN unused ELSE {}
           pc == IF \A a \in unused : There(a) THEN "written" ELSE "done"
<1>0. /\ Cluster \subseteq Item /\ Ksu \subseteq Item /\ Oka \subseteq Item
      /\ Cluster \cap Ksu = {} /\ Cluster \cap Oka = {} /\ Ksu \cap Oka = {}
  BY GitOpsAssumption DEF Item
<1>1. TypeOK /\ Named /\ Suits(r) /\ Reading(r) /\ Linked
  BY DEF Asks, RecordsFit
<1>2. /\ q.pc = "read" /\ q.kind = "delete" /\ k \in Ksu
      /\ inbox' = inbox /\ task' = task /\ attached' = attached
  BY DEF NbiDeleteKsu, extVars
<1>3. There(k) /\ q.doc = d /\ k \in Item /\ d \in ItemRec
  BY <1>1, <1>2 DEF Reading, Suits, TypeOK
<1>4. \A p \in q.doc.links \cap Profile : There(p)
  BY <1>1, <1>2, <1>3 DEF Linked
<1>5. /\ A \subseteq Oka /\ k \notin A /\ \A a \in A : There(a)
      /\ \A a \in A : \A j \in Ksu \ {k} : There(j) => a \notin items[j].links
  BY <1>0, <1>2 DEF UnusedAfter
<1>6. req' = [req EXCEPT ![r].pc = pc, ![r].doc = NoRecord]
  BY <1>3, <1>4 DEF NbiDeleteKsu, TypeOK
<1>7. /\ items'[k] = e
      /\ \A j \in Item \ {k} :
            items'[j] = IF j \in A THEN [items[j] EXCEPT !.inUse = FALSE]
                        ELSE items[j]
  BY <1>3, <1>4 DEF NbiDeleteKsu
<1> HIDE DEF unused, A
<1>8. /\ Open(r) /\ Goes(r) /\ req'[r].kind = q.kind /\ req'[r].item = k
      /\ task'[r].pc = "none" /\ r \notin inbox'
  <2>1. pc \in {"written", "done"}
    OBVIOUS
  <2> HIDE DEF pc
  <2> QED
    BY <1>2, <1>6, <2>1, WritesGoes
<1>9. e.state = "IN_DELETION" /\ e.operating = "PROCESSING"
  <2>1. q.doc \in ItemRec
    BY <1>3
  <2> HIDE DEF pc, d
  <2> QED
    BY <1>1, <1>2, <2>1, MarkedDeletion
<1> HIDE DEF e
<1>10. \A j \in Item \ {k} :
         \/ items'[j] = items[j]
         \/ /\ j \in A /\ There(j) /\ items'[j].life = items[j].life
            /\ items'[j].links = items[j].links
            /\ items'[j].hist = items[j].hist
  <2> SUFFICES ASSUME NEW j \in Item \ {k}, j \in A
               PROVE  /\ There(j) /\ items'[j].life = items[j].life
                      /\ items'[j].links = items[j].links
                      /\ items'[j].hist = items[j].hist
    BY <1>7
  <2>1. items[j] \in ItemRec
    BY <1>1 DEF TypeOK
  <2>2. items'[j] = [items[j] EXCEPT !.inUse = FALSE]
    BY <1>7
  <2> QED
    BY <1>5, <2>1, <2>2 DEF ItemRec
<1>11. \A j \in Item : j # req'[r].item => Calm(j, r)
  BY <1>0, <1>5, <1>8, <1>10 DEF Calm, There
<1>12. MarksStay
  <2> SUFFICES ASSUME NEW j \in Ksu, NEW a \in Oka,
                      Deployed(j)', a \in items'[j].links
               PROVE  \/ items'[a].inUse
                      \/ Deployed(j) /\ a \in items[j].links /\ ~items[a].inUse
    BY DEF MarksStay
  <2>1. j # k
    BY <1>7, <1>9 DEF Deployed, BeingDeleted
  <2>2. items'[j] = items[j]
    BY <1>0, <1>5, <1>10, <2>1
  <2>3. There(j) /\ Deployed(j)
    BY <2>2 DEF Deployed, There
  <2>4. a \notin A
    BY <1>5, <2>1, <2>2, <2>3
  <2>5. items'[a] = items[a]
    BY <1>0, <1>2, <1>10, <2>4
  <2> QED
    BY <2>2, <2>3, <2>5
<1>13. Held(r)' /\ OwnAnswer(r)
  <2>1. /\ req'[r].kind = "delete" /\ items'[req'[r].item].operating # "IDLE"
    BY <1>2, <1>7, <1>8, <1>9
  <2> QED
    BY <1>8, <2>1, NewlyHeld
<1>14. OwnList(r)
  BY <1>0, <1>2, <1>8 DEF OwnList
<1> QED
  BY <1>2, <1>8, <1>11, <1>12, <1>13, <1>14 DEF Moves, OnTurn

LEMMA NbiSendFailsMoves ==
    ASSUME NEW r \in Request, Asks(r), Careful, NbiSendFails(r)
    PROVE  OnTurn(r) /\ Moves(r)
<1> DEFINE q == req[r]
           i == q.item
           I == IF q.kind \notin {"create", "register"} THEN {}
                ELSE {i} \cup q.with
                     \cup IF i \in Cluster THEN items[i].links ELSE {}
<1>0. /\ Cluster \subseteq Item /\ Profile \subseteq Item /\ Ksu \subseteq Item
      /\ Oka \subseteq Item /\ Profile \cap Oka = {} /\ Ksu \cap Oka = {}
  BY GitOpsAssumption DEF Item
<1>1. /\ TypeOK /\ InOrder /\ OnPath(r) /\ Suits(r) /\ Fresh(r) /\ Linked
      /\ q.with \subseteq Ksu
  BY DEF Asks, RequestRec, RecordsFit
<1>2. /\ q.pc = "written" /\ req' = [req EXCEPT ![r].pc = "done"]
      /\ inbox' = inbox /\ task' = task /\ attached' = attached
  BY DEF NbiSendFails, extVars
<1>3. Open(r) /\ task[r].pc = "none" /\ r \notin inbox /\ i \in Item
  BY <1>1, <1>2 DEF Open, OnPath, Suits
<1>4. Goes(r) /\ req'[r].pc = "done"
  BY <1>1, <1>2, NextPc
<1>5. req'[r].item = i
  BY <1>2, <1>4 DEF Goes
<1>6. items' = Gone(I)
  <2>1. Gone({}) = items
    BY <1>1 DEF Gone, TypeOK
  <2> QED
    BY <2>1 DEF NbiSendFails
<1>7. /\ I \in SUBSET Item
      /\ \A a \in Oka \cap I : ~items[a].inUse
      /\ i \in I \/ I = {}
  BY <1>0, <1>1, <1>2, <1>3 DEF Fresh, Linked
<1> HIDE DEF I
<1>8. /\ \A j \in I : items'[j].life = "gone"
      /\ \A j \in Item \ I : items'[j] = items[j]
  BY <1>6, <1>7, GoneFields, NoLongerFields
<1>9. \A j \in Item : Calm(j, r)
  BY <1>8 DEF Calm
<1>10. MarksStay
  <2>1. \A k \in Ksu : items'[k] = items[k] \/ items'[k].life = "gone"
    BY <1>0, <1>8
  <2>2. \A a \in Oka : items'[a] = items[a] \/ ~items[a].inUse
    BY <1>0, <1>7, <1>8
  <2> QED
    BY <2>1, <2>2, RemovalMarks
<1>11. Held(r)' /\ OwnAnswer(r)
  BY <1>2, <1>3, <1>4, NewlyHeld
<1>12. OwnList(r)
  <2> SUFFICES ASSUME i \in Cluster, items'[i].life = "there",
                      items'[i].state = "CREATED"
               PROVE  items'[i].links \subseteq attached[i]
    BY <1>2, <1>5 DEF OwnList
  <2>1. items'[i] = items[i]
    BY <1>3, <1>7, <1>8
  <2>2. There(i) /\ \A s \in Request \ {r} : ~Open(s)
    BY <1>1, <1>3, <1>4, <2>1, OthersAreIdle DEF There
  <2>3. items[i].links \subseteq attached[i]
    BY <1>3, <2>1, <2>2, ListStands
  <2> QED
    BY <2>1, <2>3
<1> QED
  BY <1>2, <1>3, <1>4, <1>9, <1>10, <1>11, <1>12 DEF Moves, OnTurn

-----------------------------------------------------------------------------
(* The invariant of states, marks, lists and answers                        *)

LEMMA InitCareful == Init => Careful
<1> SUFFICES ASSUME Init PROVE Careful
  OBVIOUS
<1>0. /\ Ksu \subseteq Item /\ Oka \subseteq Item /\ Cluster \subseteq Item
      /\ Profile \cap Oka = {}
  BY GitOpsAssumption DEF Item
<1>1. Fallow
  BY InitFields
<1>2. PICK I, L : AtFirst(I, L)
  BY InitFields
<1>3. \A i \in Item : There(i) => i \in I
  <2>1. NoRecord.life = "new"
    BY DEF NoRecord
  <2> QED
    BY <1>2, <2>1 DEF AtFirst, There
<1>4. ASSUME NEW r \in Request PROVE Held(r)
  <2>1. /\ req[r].pc = "free" /\ task[r].pc = "none" /\ r \notin inbox
    BY <1>1 DEF Fallow, NoReq
  <2>2. ~Asked(r) /\ ~Working(r)
    BY <2>1 DEF Asked, Working
  <2> QED
    BY <2>1, <2>2 DEF Held, BusyHeld, MarkHeld, ListHeld, AnswerHeld
<1>5. KindsKnown /\ Latest /\ AllAnswered
  <2>1. NoReq.pc = "free"
    BY DEF NoReq
  <2> QED
    BY <1>1, <2>1 DEF KindsKnown, Latest, AllAnswered, Due, Fallow
<1>6. UsedAreMarked
  <2> SUFFICES ASSUME NEW k \in Ksu, There(k), NEW a \in items[k].links \cap Oka
               PROVE  items[a].inUse
    BY DEF UsedAreMarked, Deployed
  <2>1. k \in Ksu \cap I
    BY <1>0, <1>3
  <2>2. /\ items[k].links = {L[k][1], L[k][2]}
        /\ L[k][1] \in Profile \cap I /\ L[k][2] \in Oka \cap I /\ k \in DOMAIN L
    <3>1. items[k].links = {L[k][1], L[k][2]}
      BY <1>2, <2>1 DEF AtFirst
    <3>2. L[k] \in (Profile \cap I) \X (Oka \cap I) /\ k \in DOMAIN L
      BY <1>2, <2>1 DEF AtFirst
    <3> QED
      BY <3>1, <3>2
  <2>3. a = L[k][2] /\ a \in I
    BY <1>0, <2>2
  <2>4. items[a].inUse = (\E j \in DOMAIN L : L[j][2] = a)
    BY <1>2, <2>3 DEF AtFirst
  <2>5. \E j \in DOMAIN L : L[j][2] = a
    BY <2>2, <2>3
  <2> QED
    BY <2>4, <2>5
<1>7. ListsHold
  <2> SUFFICES ASSUME NEW c \in Cluster, There(c)
               PROVE  items[c].links \subseteq attached[c]
    BY DEF ListsHold
  <2>1. c \in I
    BY <1>0, <1>3
  <2>2. items[c].links = {Default[c]} /\ attached[c] = {Default[c]}
    BY <1>2, <2>1 DEF AtFirst
  <2> QED
    BY <2>2
<1> QED
  BY <1>4, <1>5, <1>6, <1>7 DEF Careful

LEMMA StutterKeepsCareful ==
    ASSUME UNCHANGED vars PROVE Careful' = Careful
<1>1. /\ items' = items /\ req' = req /\ inbox' = inbox /\ task' = task
      /\ attached' = attached
  BY DEF vars, extVars
<1>2. Latest' = Latest /\ KindsKnown' = KindsKnown
  BY <1>1 DEF Latest, KindsKnown, Commands, Open, TaskIsLive
<1>3. UsedAreMarked' = UsedAreMarked
  BY <1>1 DEF UsedAreMarked, NoKsuEdit, Deployed, There
<1>4. ListsHold' = ListsHold
  BY <1>1 DEF ListsHold, BeingChecked, There
<1>5. AllAnswered' = AllAnswered
  BY <1>1 DEF AllAnswered, OwnDefaults, IsDefault, Due, Answered
<1>6. \A r : Held(r)' = Held(r)
  BY <1>1 DEF Held, BusyHeld, MarkHeld, ListHeld, AnswerHeld, Asked, Working,
              NewLinks, Command
<1> QED
  BY <1>2, <1>3, <1>4, <1>5, <1>6 DEF Careful

\* A step of NBI or of the bus.
LEMMA RequestMoves ==
    ASSUME NEW r \in Request, Asks(r), TypeOK', Undisturbed', Careful,
           \/ NbiRequest(r) \/ NbiStep(r) \/ NbiSendFails(r) \/ Deliver(r)
    PROVE  OnTurn(r) /\ Moves(r)
<1>1. CASE NbiRequest(r)
  <2>1. MayOpen(r)
    BY <1>1 DEF NbiRequest
  <2>2. ASSUME NEW i \in Item, NEW kind \in Kinds, NbiNew(r, i, kind)
        PROVE  OnTurn(r) /\ Moves(r)
    BY <2>1, <2>2, NbiNewMoves
  <2>3. ASSUME NEW k \in Ksu, NEW with \in SUBSET Ksu, NEW p \in Profile,
               NEW a \in Oka, NbiMarkOka(r, k, with, p, a)
        PROVE  OnTurn(r) /\ Moves(r)
    BY <2>1, <2>3, NbiMarkOkaMoves
  <2>4. ASSUME NEW kind \in Kinds, NEW i \in Item, NEW x \in Item \cup {NoItem},
               NEW force \in BOOLEAN, NbiRead(r, kind, i, x, force)
        PROVE  OnTurn(r) /\ Moves(r)
    BY <2>1, <2>4, NbiReadMoves
  <2> QED
    BY <1>1, <2>2, <2>3, <2>4 DEF NbiRequest
<1>2. CASE NbiStep(r)
  BY <1>2, NbiNewKsusMoves, NbiWriteMoves, NbiDeleteKsuMoves, NbiSendMoves,
     NbiOldMoves DEF NbiStep
<1>3. CASE NbiSendFails(r) \/ Deliver(r)
  BY <1>3, NbiSendFailsMoves, DeliverMoves
<1> QED
  BY <1>1, <1>2, <1>3

LEMMA NextKeepsCareful == CarefulInv /\ [Next]_vars => CarefulInv'
<1> SUFFICES ASSUME CarefulInv, [Next]_vars PROVE CarefulInv'
  OBVIOUS
<1>1. ClientInv /\ ClientInv' /\ GitOpsInv /\ TypeOK /\ TypeOK'
  BY NextKeepsClient DEF CarefulInv, ClientInv, GitOpsInv
<1>2. CASE UNCHANGED vars
  <2>1. Careful' = Careful /\ Undisturbed' = Undisturbed
    BY <1>2, StutterKeepsCareful, StutterKeepsClient
  <2> QED
    BY <1>1, <2>1 DEF CarefulInv
<1>3. CASE Next
  <2> SUFFICES ASSUME Undisturbed' PROVE Careful'
    BY <1>1 DEF CarefulInv
  <2>1. Client' /\ Client /\ Careful
    BY <1>1, <1>3, DisturbanceGrows DEF CarefulInv, ClientInv, Grows, Undisturbed
  <2>2. ASSUME NEW r \in Request, LcmStep(r) \/ CheckProgress(r)
        PROVE  Careful'
    <3>1. Known(r)
      BY <1>1, <2>1, <2>2, StepIsLive, LiveKnown
    <3>2. LcmGoes(r) /\ LcmEffect(r)
      BY <1>1, <2>2, <3>1, LcmStepHasEffect
    <3>3. Goes(r) /\ Moves(r)
      BY <2>1, <3>1, <3>2, LcmGoesAlone, LcmMoves
    <3>4. Open(r) /\ req[r].pc # "free"
      BY <3>1 DEF Known
    <3> QED
      BY <1>1, <2>1, <3>3, <3>4, CarefulFits
  <2>3. ASSUME NEW r \in Request,
               \/ NbiRequest(r) \/ NbiStep(r) \/ NbiSendFails(r) \/ Deliver(r)
        PROVE  Careful'
    <3>1. Asks(r)
      BY <1>1, <2>1, ClientAsks
    <3>2. OnTurn(r) /\ Moves(r)
      BY <1>1, <2>1, <2>3, <3>1, RequestMoves
    <3> QED
      BY <1>1, <2>1, <3>2, CarefulFits DEF OnTurn
  <2>4. ASSUME NEW r \in Request, LateEffect(r) PROVE FALSE
    BY <2>1, <2>4 DEF Client, LateEffect
  <2>5. ~Crash
    BY DEF Crash, Fault, Undisturbed
  <2> QED
    BY <1>3, <2>2, <2>3, <2>4, <2>5 DEF Next
<1> QED
  BY <1>2, <1>3

\* For a client who makes one request at a time the states, the marks of the
\* OKAs, the lists of the clusters and the answers are as the commands mean them.
THEOREM CarefulView == Spec => []CarefulInv
<1>1. Init => CarefulInv
  BY InitInv, InitClient, InitCareful DEF CarefulInv, ClientInv
<1>2. CarefulInv /\ [Next]_vars => CarefulInv'
  BY NextKeepsCareful
<1> QED
  BY <1>1, <1>2, PTL DEF Spec

\* The lists of a cluster agree with the repository when nothing is under way,
\* and name profiles that exist (attach_profile, detach_profile, detach).
THEOREM ListsAgree == Spec => []ListsAreAccurate
<1>1. CarefulInv => ListsAreAccurate
  <2> SUFFICES ASSUME Client, Careful, OwnDefaults, Quiet,
                      NEW c \in Cluster, There(c), items[c].state = "CREATED",
                      NEW p \in items[c].links
               PROVE  There(p) /\ p \in attached[c]
    BY DEF CarefulInv, ClientInv, ListsAreAccurate
  <2>1. There(p)
    BY DEF Client, RecordsFit, ListsExist
  <2>2. BeingChecked = {}
    BY DEF Quiet, Open, TaskIsLive, BeingChecked
  <2>3. items[c].links \subseteq attached[c]
    BY <2>2 DEF Careful, ListsHold
  <2> QED
    BY <2>1, <2>3
<1> QED
  BY <1>1, CarefulView, PTL

\* A record whose workflow is on its way is not shown as IDLE (operatingState).
THEOREM WorkIsBusy == Spec => []BusyIsShown
<1>1. CarefulInv => BusyIsShown
  <2> SUFFICES ASSUME TypeOK, Client, Careful, NEW r \in Request,
                      task[r].pc \in {"launch", "poll", "check"},
                      req[r].kind \notin {"remove", "deregister", "get_creds",
                                          "clone"}
               PROVE  items[req[r].item].operating # "IDLE"
    BY DEF CarefulInv, ClientInv, GitOpsInv, BusyIsShown
  <2>1. Working(r) /\ BusyHeld(r)
    BY CarefulHeld DEF Working
  <2>2. req[r].kind \in BusyKinds
    <3>1. req[r].pc # "free"
      BY DEF Client, InOrder, OnPath
    <3> QED
      BY <3>1 DEF Careful, KindsKnown, Commands
  <2> QED
    BY <2>1, <2>2 DEF BusyHeld
<1> QED
  BY <1>1, CarefulView, PTL

\* The OKAs of a KSU that is deployed are marked as in use, which is what keeps
\* them from being deleted (update_usage_state).
THEOREM UsedOkasStay == Spec => []UsedOkaIsMarked
<1>1. CarefulInv => UsedOkaIsMarked
  <2> SUFFICES ASSUME Careful, NoKsuEdit, NEW k \in Ksu, There(k),
                      items[k].state \in {"IN_CREATION", "CREATED"},
                      NEW a \in items[k].links \cap Oka
               PROVE  items[a].inUse
    BY DEF CarefulInv, UsedOkaIsMarked, NoKsuEdit
  <2>1. Deployed(k)
    BY DEF Deployed, BeingDeleted
  <2> QED
    BY <2>1 DEF Careful, UsedAreMarked
<1> QED
  BY <1>1, CarefulView, PTL

\* Every request whose coroutine is over has an answer the client can see.
THEOREM EveryEndAnswers == Spec => []EndedIsAnswered
<1>1. CarefulInv => EndedIsAnswered
  BY DEF CarefulInv, EndedIsAnswered, Careful, AllAnswered, Due
<1> QED
  BY <1>1, CarefulView, PTL
=============================================================================
