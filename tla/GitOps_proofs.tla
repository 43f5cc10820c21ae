--------------------------- MODULE GitOps_proofs ---------------------------
(***************************************************************************)
(* Theorems about GitOps, for every set of records, every bound and every  *)
(* combination of faults.                                                  *)
(***************************************************************************)
EXTENDS GitOps, TLAPS

-----------------------------------------------------------------------------
(* The invariant                                                            *)

\* A copy of a record that shows only operations of S as COMPLETED.
Honest(doc, S) ==
    /\ doc \in ItemRec
    /\ \A q \in Request : doc.hist[q] = "COMPLETED" => q \in S

\* Records, and every copy somebody may write back.
AllHonest ==
    /\ \A i \in Item : Honest(items[i], applied)
    /\ \A r \in Request : /\ Honest(req[r].doc, applied)
                          /\ Honest(task[r].doc, applied)
                          /\ Honest(task[r].first, applied)

\* What is under way names a record, and the arguments its command needs.
Named ==
    \A r \in Request :
        /\ req[r].pc # "free" => req[r].item \in Item
        /\ r \in inbox \/ r \in late \/ TaskIsLive(r) => req[r].pc # "free"
        /\ req[r].kind = "add" => req[r].arg \in Profile
        /\ req[r].kind = "move" => req[r].arg \in Profile
        /\ req[r].kind = "edit" /\ req[r].item \in Ksu => req[r].arg \in Oka

GitOpsInv == TypeOK /\ AllHonest /\ Named

-----------------------------------------------------------------------------
(* Copies of records                                                        *)

\* The record of something that does not exist shows no operation.
LEMMA NoRecordHonest == ASSUME NEW S PROVE Honest(NoRecord, S)
BY DEF Honest, NoRecord, ItemRec, OpStates, NoRequest

\* An operation that is completed stays so as others are.
LEMMA HonestGrows ==
    ASSUME NEW S, NEW T, NEW doc, Honest(doc, S), S \subseteq T
    PROVE  Honest(doc, T)
BY DEF Honest

\* A record that is removed shows nothing.
LEMMA NoLongerHonest ==
    ASSUME NEW S, NEW doc, Honest(doc, S)
    PROVE  Honest(NoLonger(doc), S)
BY DEF Honest, NoLonger, NoRecord, ItemRec, OpStates, NoRequest

\* A new operation is not completed.
LEMMA NewOperationHonest ==
    ASSUME NEW S, NEW doc, Honest(doc, S), NEW r \in Request
    PROVE  Honest(NewOperation(doc, r), S)
<1>1. [doc.hist EXCEPT ![r] = "None"] \in [Request -> OpStates]
  BY DEF Honest, ItemRec, OpStates
<1>2. NewOperation(doc, r) = [doc EXCEPT !.hist = [doc.hist EXCEPT ![r] = "None"]]
  BY DEF NewOperation
<1> QED
  BY <1>1, <1>2 DEF Honest, ItemRec

\* The end of a workflow completes nothing.
LEMMA WorkflowEndsHonest ==
    ASSUME NEW S, NEW doc, Honest(doc, S), NEW r \in Request, NEW ok \in BOOLEAN
    PROVE  Honest(WorkflowEnds(doc, r, ok), S)
<1>1. [doc.hist EXCEPT ![r] = "FAILED"] \in [Request -> OpStates]
  BY DEF Honest, ItemRec, OpStates
<1>2. Honest([doc EXCEPT !.hist = [doc.hist EXCEPT ![r] = "FAILED"]], S)
  BY <1>1 DEF Honest, ItemRec
<1> QED
  BY <1>2 DEF WorkflowEnds

\* The end of the resource check completes its own operation, if it succeeded.
LEMMA ResourceEndsHonest ==
    ASSUME NEW S, NEW doc, Honest(doc, S), NEW r \in Request,
           NEW ok \in BOOLEAN, ok => r \in S
    PROVE  Honest(ResourceEnds(doc, r, ok), S)
<1> DEFINE end == IF ok THEN "COMPLETED" ELSE "FAILED"
           hist == [doc.hist EXCEPT ![r] = end]
<1>1. hist \in [Request -> OpStates]
  BY DEF Honest, ItemRec, OpStates
<1>2. \A q \in Request : hist[q] = "COMPLETED" => q \in S
  BY DEF Honest, ItemRec
<1>3. Honest([doc EXCEPT !.hist = hist], S)
  <2> HIDE DEF hist
  <2> QED
    BY <1>1, <1>2 DEF Honest, ItemRec
<1> QED
  BY <1>3 DEF ResourceEnds

\* Only the history of a copy matters.
LEMMA SameHistory ==
    ASSUME NEW S, NEW doc, Honest(doc, S), NEW new \in ItemRec,
           new.hist = doc.hist
    PROVE  Honest(new, S)
BY DEF Honest

\* The lists of a record hold records: a default profile, for instance.
LEMMA DefaultInItem ==
    ASSUME NEW c \in Cluster PROVE Default[c] \in Profile /\ Default[c] \in Item
BY GitOpsAssumption DEF Item

\* NBI's new record shows no operation.
LEMMA NewRecordHonest ==
    ASSUME NEW S, NEW i \in Item, NEW kind
    PROVE  Honest(NewRecord(i, kind), S)
<1>1. NoRecord \in ItemRec
  BY NoRecordHonest DEF Honest
<1>2. NewRecord(i, kind) \in ItemRec
  <2>1. (IF i \in Cluster /\ kind = "create" THEN {Default[i]} ELSE {})
          \in SUBSET Item
    BY DefaultInItem
  <2>2. (i \in Cluster /\ kind = "create") \in BOOLEAN
    OBVIOUS
  <2> QED
    BY <1>1, <2>1, <2>2 DEF NewRecord, ItemRec
<1>3. NewRecord(i, kind).hist = NoRecord.hist
  BY <1>1 DEF NewRecord, ItemRec
<1> QED
  BY <1>2, <1>3, NoRecordHonest, SameHistory

\* What NBI writes for a request completes nothing.
LEMMA MarkedHonest ==
    ASSUME NEW S, NEW doc, Honest(doc, S), NEW r \in Request, Named
    PROVE  Honest(Marked(doc, r), S)
<1> DEFINE new == NewOperation(doc, r)
<1>1. Honest(new, S)
  BY NewOperationHonest
<1>2. new \in ItemRec
  BY <1>1 DEF Honest
<1> HIDE DEF new
<1>3. CASE req[r].kind = "delete"
  <2> DEFINE m == [new EXCEPT !.state = "IN_DELETION",
                     !.operating = "PROCESSING",
                     !.current = IF req[r].item \in Cluster \cup Profile
                                   THEN NoRequest ELSE @,
                     !.resource = IF req[r].item \in Ksu THEN "IN_PROGRESS"
                                                         ELSE @]
  <2>1. m \in ItemRec /\ m.hist = new.hist
    BY <1>2 DEF ItemRec
  <2>2. Marked(doc, r) = m
    BY <1>3 DEF Marked, new
  <2> QED
    BY <2>1, <2>2, <1>1, SameHistory
<1>4. CASE req[r].kind = "add"
  <2>1. Marked(doc, r) = [new EXCEPT !.operating = "PROCESSING"]
    BY <1>4 DEF Marked, new
  <2>2. Marked(doc, r) \in ItemRec /\ Marked(doc, r).hist = new.hist
    BY <2>1, <1>2 DEF ItemRec
  <2> QED
    BY <2>2, <1>1, SameHistory
<1>5. CASE req[r].kind \in {"update", "edit"}
  <2>1. Marked(doc, r) = [new EXCEPT !.operating = "PROCESSING",
                                     !.resource = "IN_PROGRESS"]
    BY <1>5 DEF Marked, new
  <2>2. Marked(doc, r) \in ItemRec /\ Marked(doc, r).hist = new.hist
    BY <2>1, <1>2 DEF ItemRec
  <2> QED
    BY <2>2, <1>1, SameHistory
<1>6. CASE req[r].kind = "move"
  <2>1. Marked(doc, r) = [new EXCEPT !.operating = "PROCESSING",
                            !.resource = "IN_PROGRESS",
                            !.links = (@ \ Profile) \cup {req[r].arg}]
    BY <1>6 DEF Marked, new
  <2>2. req[r].arg \in Item
    BY <1>6 DEF Named, Item
  <2> DEFINE links == (new.links \ Profile) \cup {req[r].arg}
  <2>3. links \in SUBSET Item
    BY <2>2, <1>2 DEF ItemRec
  <2>4. Marked(doc, r) = [new EXCEPT !.operating = "PROCESSING",
                            !.resource = "IN_PROGRESS", !.links = links]
    BY <2>1, <1>2 DEF ItemRec
  <2> HIDE DEF links
  <2>5. Marked(doc, r) \in ItemRec /\ Marked(doc, r).hist = new.hist
    BY <2>3, <2>4, <1>2 DEF ItemRec
  <2> QED
    BY <2>5, <1>1, SameHistory
<1>7. CASE req[r].kind \notin {"delete", "add", "update", "edit", "move"}
  <2>1. Marked(doc, r) = new
    BY <1>7 DEF Marked, new
  <2> QED
    BY <2>1, <1>1
<1> QED
  BY <1>3, <1>4, <1>5, <1>6, <1>7

\* initialize_operation completes nothing.
LEMMA InitialisedHonest ==
    ASSUME NEW S, NEW doc, Honest(doc, S), NEW r \in Request
    PROVE  Honest(Initialised(doc, r), S)
<1> DEFINE hist == [doc.hist EXCEPT ![r] = "IN_PROGRESS"]
<1>1. hist \in [Request -> OpStates]
  BY DEF Honest, ItemRec, OpStates
<1>2. \A q \in Request : hist[q] = "COMPLETED" => q \in S
  BY DEF Honest, ItemRec
<1>3. Honest([doc EXCEPT !.hist = hist, !.current = r], S)
  <2> HIDE DEF hist
  <2> QED
    BY <1>1, <1>2 DEF Honest, ItemRec
<1> QED
  BY <1>3 DEF Initialised

\* The state a workflow leaves completes nothing.
LEMMA AfterWorkflowHonest ==
    ASSUME NEW S, NEW r \in Request, Honest(task[r].doc, S), NEW ok \in BOOLEAN
    PROVE  Honest(AfterWorkflow(r, ok), S)
<1> DEFINE end == WorkflowEnds(task[r].doc, r, ok)
<1>1. Honest(end, S)
  BY WorkflowEndsHonest
<1>2. end \in ItemRec
  BY <1>1 DEF Honest
<1>3. AfterWorkflow(r, ok) =
        [end EXCEPT
          !.resource = IF ok THEN "IN_PROGRESS" ELSE "ERROR",
          !.state = CASE Command(r) \in {"create", "register"} ->
                            IF ok THEN "CREATED" ELSE "FAILED_CREATION"
                      [] Command(r) = "delete" ->
                            IF ok THEN "DELETED" ELSE "FAILED_DELETION"
                      [] Command(r) = "deregister" /\ ~ok -> "FAILED_DELETION"
                      [] OTHER -> @]
  BY DEF AfterWorkflow
<1> HIDE DEF end
<1>4. AfterWorkflow(r, ok) \in ItemRec /\ AfterWorkflow(r, ok).hist = end.hist
  BY <1>2, <1>3 DEF ItemRec
<1> QED
  BY <1>1, <1>4, SameHistory

\* Only a check that succeeded completes an operation.
LEMMA AfterCheckHonest ==
    ASSUME NEW S, NEW r \in Request, Honest(task[r].doc, S), NEW ok \in BOOLEAN,
           ok => r \in S, Named, req[r].item \in Item
    PROVE  Honest(AfterCheck(r, ok), S)
<1> DEFINE end == ResourceEnds(task[r].doc, r, ok)
           links == CASE Command(r) = "add" -> end.links \cup {req[r].arg}
                      [] Command(r) = "remove" -> end.links \ {req[r].arg}
                      [] Item_(r) \in Ksu /\ Command(r) = "edit" ->
                            (end.links \ Oka) \cup {req[r].arg}
                      [] OTHER -> end.links
           operating == IF Command(r) = "deregister" THEN end.operating
                                                     ELSE "IDLE"
           current == IF Command(r) = "deregister" THEN end.current
                                                   ELSE NoRequest
           resource == IF ok THEN "READY" ELSE "ERROR"
<1>1. Honest(end, S)
  BY ResourceEndsHonest
<1>2. end \in ItemRec
  BY <1>1 DEF Honest
<1>3. end.links \in SUBSET Item
  BY <1>2 DEF ItemRec
<1>4. links \in SUBSET Item
  <2>1. CASE Command(r) = "add"
    <3>1. req[r].arg \in Item
      BY <2>1 DEF Named, Command, Item
    <3> QED
      BY <2>1, <3>1, <1>3
  <2>2. CASE Command(r) = "edit" /\ Item_(r) \in Ksu
    <3>1. req[r].arg \in Item
      BY <2>2 DEF Named, Command, Item_, Item
    <3> QED
      BY <2>2, <3>1, <1>3
  <2>3. CASE Command(r) # "add" /\ ~(Command(r) = "edit" /\ Item_(r) \in Ksu)
    BY <2>3, <1>3
  <2> QED
    BY <2>1, <2>2, <2>3
<1>5. AfterCheck(r, ok) =
        [end EXCEPT !.resource = resource, !.operating = operating,
                    !.current = current, !.links = links]
  BY <1>2 DEF AfterCheck, ItemRec
<1>6. /\ operating \in {"IN_PROGRESS", "PROCESSING", "IDLE"}
      /\ current \in Request \cup {NoRequest}
      /\ resource \in {"IN_PROGRESS", "READY", "ERROR"}
  BY <1>2 DEF ItemRec
<1> HIDE DEF end, links, operating, current, resource
<1>7. AfterCheck(r, ok) \in ItemRec /\ AfterCheck(r, ok).hist = end.hist
  BY <1>2, <1>4, <1>5, <1>6 DEF ItemRec
<1> QED
  BY <1>1, <1>7, SameHistory

\* The default profile ends with its cluster.
LEMMA DefaultDocHonest ==
    ASSUME NEW S, NEW r \in Request, Honest(task[r].doc, S), NEW ok \in BOOLEAN,
           ok => r \in S, Named, req[r].item \in Item,
           NEW p \in Item, Honest(items[p], S)
    PROVE  Honest(DefaultDoc(p, r, ok), S)
<1> DEFINE end == ResourceEnds(items[p], r, ok)
           doc == AfterCheck(r, ok)
<1>1. Honest(end, S) /\ end \in ItemRec
  BY ResourceEndsHonest DEF Honest
<1>2. doc \in ItemRec
  BY AfterCheckHonest DEF Honest
<1>3. DefaultDoc(p, r, ok) =
        [end EXCEPT !.state = doc.state, !.resource = doc.resource,
                    !.operating = doc.operating]
  BY DEF DefaultDoc
<1> HIDE DEF end, doc
<1>4. DefaultDoc(p, r, ok) \in ItemRec /\ DefaultDoc(p, r, ok).hist = end.hist
  BY <1>1, <1>2, <1>3 DEF ItemRec
<1> QED
  BY <1>1, <1>4, SameHistory

-----------------------------------------------------------------------------
(* Tables of records and coroutines                                         *)

ItemsOk(table, S) ==
    /\ table \in [Item -> ItemRec]
    /\ \A i \in Item : Honest(table[i], S)

TasksOk(table, S) ==
    /\ table \in [Request -> TaskRec]
    /\ \A r \in Request : /\ Honest(table[r].doc, S)
                          /\ Honest(table[r].first, S)

\* The invariant says that both tables are in order.
LEMMA TablesOk ==
    ASSUME GitOpsInv, NEW S, applied \subseteq S
    PROVE  ItemsOk(items, S) /\ TasksOk(task, S)
<1>1. ItemsOk(items, S)
  BY HonestGrows DEF GitOpsInv, TypeOK, AllHonest, ItemsOk
<1>2. TasksOk(task, S)
  BY HonestGrows DEF GitOpsInv, TypeOK, AllHonest, TasksOk
<1> QED
  BY <1>1, <1>2

\* Writing one honest record keeps the table in order.
LEMMA SetItem ==
    ASSUME NEW S, NEW table, ItemsOk(table, S), NEW i, NEW doc, Honest(doc, S)
    PROVE  ItemsOk([table EXCEPT ![i] = doc], S)
BY DEF ItemsOk, Honest

\* A change of a coroutine keeps its table in order.
LEMMA SetTask ==
    ASSUME NEW S, NEW table, TasksOk(table, S), NEW r \in Request,
           NEW rec \in TaskRec, Honest(rec.doc, S), Honest(rec.first, S)
    PROVE  TasksOk([table EXCEPT ![r] = rec], S)
BY DEF TasksOk, Honest

\* A coroutine that does not run holds no copy.
LEMMA NoTaskOk ==
    ASSUME NEW S, NEW pc \in {"none", "scheduled", "over"}, NEW second \in BOOLEAN
    PROVE  LET rec == [NoTask EXCEPT !.pc = pc, !.second = second]
           IN /\ rec \in TaskRec
              /\ Honest(rec.doc, S) /\ Honest(rec.first, S)
<1>1. Honest(NoRecord, S) /\ NoRecord \in ItemRec
  BY NoRecordHonest DEF Honest
<1> QED
  BY <1>1 DEF NoTask, TaskRec

\* The end of a coroutine.
LEMMA EndsOk ==
    ASSUME NEW S, TasksOk(task, S), NEW r \in Request, Ends(r)
    PROVE  TasksOk(task', S) /\ \A q \in Request \ {r} : task'[q] = task[q]
<1> DEFINE rec == [NoTask EXCEPT !.pc = "over", !.second = FALSE]
<1>1. rec \in TaskRec /\ Honest(rec.doc, S) /\ Honest(rec.first, S)
  BY NoTaskOk
<1>2. task' = [task EXCEPT ![r] = rec]
  <2>1. NoTask.second = FALSE /\ NoTask \in TaskRec
    BY NoRecordHonest DEF NoTask, TaskRec, Honest
  <2>2. [NoTask EXCEPT !.pc = "over"] = rec
    BY <2>1 DEF TaskRec
  <2> QED
    BY <2>2 DEF Ends
<1> HIDE DEF rec
<1> QED
  BY <1>1, <1>2, SetTask DEF TasksOk

\* Removing records keeps the table in order.
LEMMA GoneOk ==
    ASSUME NEW S, ItemsOk(items, S), NEW I
    PROVE  ItemsOk(Gone(I), S)
<1>1. \A i \in Item : Honest(NoLonger(items[i]), S)
  BY NoLongerHonest DEF ItemsOk
<1> QED
  BY <1>1 DEF Gone, ItemsOk, Honest

\* A write of a coroutine keeps both tables in order.
LEMMA SavesOk ==
    ASSUME NEW S, ItemsOk(items, S), TasksOk(task, S), NEW r \in Request,
           NEW doc, Honest(doc, S), NEW next \in {"poll", "check", "finish", "over"},
           Saves(r, doc, next)
    PROVE  /\ ItemsOk(items', S) /\ TasksOk(task', S)
           /\ \A q \in Request \ {r} : task'[q] = task[q]
<1>1. CASE There(Item_(r))
  <2>1. ItemsOk(items', S)
    BY <1>1, SetItem DEF Saves
  <2>2. CASE next = "over"
    BY <1>1, <2>1, <2>2, EndsOk DEF Saves
  <2>3. CASE next # "over"
    <3> DEFINE rec == [task[r] EXCEPT !.doc = doc, !.pc = next]
    <3>1. task[r] \in TaskRec
      BY DEF TasksOk
    <3>2. doc \in ItemRec
      BY DEF Honest
    <3>3. rec \in TaskRec /\ rec.doc = doc /\ rec.first = task[r].first
      BY <3>1, <3>2 DEF TaskRec
    <3>4. task' = [task EXCEPT ![r] = rec]
      BY <1>1, <2>3 DEF Saves, TasksOk
    <3>5. TasksOk(task', S)
      <4> HIDE DEF rec
      <4> QED
        BY <3>3, <3>4, SetTask DEF TasksOk
    <3> QED
      BY <2>1, <3>4, <3>5 DEF TasksOk
  <2> QED
    BY <2>2, <2>3
<1>2. CASE ~There(Item_(r))
  BY <1>2, EndsOk DEF Saves
<1> QED
  BY <1>1, <1>2

-----------------------------------------------------------------------------
(* Steps of LCM                                                             *)

\* What every step of coroutine r leaves alone.
LcmFrame(r) ==
    /\ req' = req /\ TaskIsLive(r)
    /\ inbox' \subseteq inbox /\ late' \subseteq late \cup {r}
    /\ \A q \in Request \ {r} : task'[q] = task[q]
    /\ overlap' = overlap /\ applied \subseteq applied'
    /\ applied' \subseteq Request /\ faults' \subseteq FaultKinds

ReposOk ==
    /\ repo \subseteq Item
    /\ attached \in [Cluster -> SUBSET Profile]
    /\ old \in [Cluster -> {"none", "PROCESSING", "ENABLED", "ERROR"}]

\* A coroutine is about a record.
LEMMA LiveNamed ==
    ASSUME Named, NEW r \in Request, TaskIsLive(r)
    PROVE  req[r].pc # "free" /\ req[r].item \in Item
BY DEF Named

\* A step of a coroutine that keeps the tables in order keeps the invariant.
LEMMA LcmKeeps ==
    ASSUME GitOpsInv, NEW r \in Request, LcmFrame(r),
           ItemsOk(items', applied'), TasksOk(task', applied'), ReposOk'
    PROVE  GitOpsInv'
<1>1. TypeOK'
  BY DEF GitOpsInv, TypeOK, LcmFrame, ItemsOk, TasksOk, ReposOk
<1>2. AllHonest'
  <2>1. \A q \in Request : Honest(req'[q].doc, applied')
    BY HonestGrows DEF GitOpsInv, AllHonest, LcmFrame
  <2> QED
    BY <2>1 DEF ItemsOk, TasksOk, AllHonest
<1>3. Named'
  <2>1. \A q \in Request \ {r} : TaskIsLive(q)' => TaskIsLive(q)
    BY DEF LcmFrame, TaskIsLive
  <2>2. req[r].pc # "free"
    BY LiveNamed DEF GitOpsInv, LcmFrame
  <2> QED
    BY <2>1, <2>2 DEF GitOpsInv, Named, LcmFrame
<1> QED
  BY <1>1, <1>2, <1>3 DEF GitOpsInv

\* The repository and k8sclusters are as the invariant wants them.
LEMMA ReposType == TypeOK => ReposOk
BY DEF TypeOK, ReposOk

\* The copy a coroutine holds.
LEMMA TaskDoc ==
    ASSUME GitOpsInv, NEW r \in Request, NEW S, applied \subseteq S
    PROVE  /\ task[r] \in TaskRec
           /\ Honest(task[r].doc, S) /\ Honest(task[r].first, S)
BY TablesOk DEF TasksOk

\* A fault adds its kind to the faults.
LEMMA FaultType ==
    ASSUME TypeOK, NEW f, Fault(f) PROVE faults' \subseteq FaultKinds
BY DEF TypeOK, Fault

\* Start.
LEMMA StartKeeps ==
    ASSUME GitOpsInv, NEW r \in Request, Start(r) PROVE GitOpsInv'
<1> DEFINE doc == IF Initialises(r) THEN Initialised(items[Item_(r)], r)
                                    ELSE items[Item_(r)]
<1>0. TypeOK /\ Named
  BY DEF GitOpsInv
<1>1. TaskIsLive(r) /\ Item_(r) \in Item
  <2>1. TaskIsLive(r)
    BY DEF Start, TaskIsLive
  <2> QED
    BY <2>1, <1>0, LiveNamed DEF Item_
<1>2. ItemsOk(items, applied) /\ TasksOk(task, applied)
  BY TablesOk
<1>3. Honest(doc, applied)
  <2>1. Honest(items[Item_(r)], applied)
    BY <1>1, <1>2 DEF ItemsOk
  <2> QED
    BY <2>1, InitialisedHonest
<1> HIDE DEF doc
<1>4. ReposOk'
  BY <1>0, ReposType DEF Start, extVars, ReposOk
<1>5. CASE ~Found(r)
  <2>1. Ends(r) /\ items' = items
    BY <1>5 DEF Start
  <2>2. /\ TasksOk(task', applied)
        /\ \A q \in Request \ {r} : task'[q] = task[q]
    BY <2>1, <1>2, EndsOk
  <2>3. LcmFrame(r)
    BY <2>2, <1>0, <1>1 DEF LcmFrame, Start, extVars, TypeOK
  <2>4. ItemsOk(items', applied') /\ TasksOk(task', applied')
    BY <2>1, <2>2, <1>2 DEF Start
  <2> QED
    BY <2>3, <2>4, <1>4, LcmKeeps
<1>6. CASE Found(r)
  <2>1. items' = [items EXCEPT ![Item_(r)] = doc]
    BY <1>6 DEF Start, doc
  <2>2. ItemsOk(items', applied)
    BY <2>1, <1>2, <1>3, SetItem
  <2>3. /\ TasksOk(task', applied)
        /\ \A q \in Request \ {r} : task'[q] = task[q]
    <3>1. CASE Ends(r)
      BY <3>1, <1>2, EndsOk
    <3>2. CASE ~Ends(r)
      <4> DEFINE first == IF Item_(r) \in Cluster THEN doc ELSE task[r].first
                 pc == IF Command(r) = "get_creds" THEN "check" ELSE "launch"
                 rec == [task[r] EXCEPT !.doc = doc, !.first = first, !.pc = pc]
      <4>1. task' = [task EXCEPT ![r].doc = doc,
                       ![r].first = IF Item_(r) \in Cluster THEN doc ELSE @,
                       ![r].pc = pc]
        BY <3>2, <1>6 DEF Start, doc
      <4>2. task[r] \in TaskRec /\ Honest(task[r].first, applied)
        BY <1>2 DEF TasksOk
      <4>3. Honest(first, applied) /\ first \in ItemRec /\ doc \in ItemRec
        BY <4>2, <1>3 DEF Honest
      <4>4. task' = [task EXCEPT ![r] = rec]
        BY <4>1, <4>2, <1>2 DEF TaskRec, TasksOk
      <4>5. rec \in TaskRec /\ rec.doc = doc /\ rec.first = first
        <5> HIDE DEF first
        <5> QED
          BY <4>2, <4>3 DEF TaskRec
      <4> HIDE DEF rec, first, pc
      <4>6. TasksOk(task', applied)
        BY <4>3, <4>4, <4>5, <1>2, <1>3, SetTask
      <4> QED
        BY <4>4, <4>6, <1>2 DEF TasksOk
    <3> QED
      BY <3>1, <3>2
  <2>4. LcmFrame(r)
    BY <2>3, <1>0, <1>1 DEF LcmFrame, Start, extVars, TypeOK
  <2>5. ItemsOk(items', applied') /\ TasksOk(task', applied')
    BY <2>2, <2>3 DEF Start
  <2> QED
    BY <2>4, <2>5, <1>4, LcmKeeps
<1> QED
  BY <1>5, <1>6

\* A step that ends with a write and leaves all else alone.
LEMMA SavesKeeps ==
    ASSUME GitOpsInv, NEW r \in Request, TaskIsLive(r), NEW doc,
           NEW next \in {"poll", "check", "finish", "over"},
           Saves(r, doc, next), Honest(doc, applied'),
           applied \subseteq applied', applied' \subseteq Request,
           req' = req, inbox' = inbox, late' \subseteq late \cup {r},
           overlap' = overlap, faults' \subseteq FaultKinds, ReposOk'
    PROVE  GitOpsInv'
<1>1. ItemsOk(items, applied') /\ TasksOk(task, applied')
  BY TablesOk
<1>2. /\ ItemsOk(items', applied') /\ TasksOk(task', applied')
      /\ \A q \in Request \ {r} : task'[q] = task[q]
  BY <1>1, SavesOk
<1>3. LcmFrame(r)
  BY <1>2 DEF LcmFrame
<1> QED
  BY <1>2, <1>3, LcmKeeps

\* A step that ends the coroutine and leaves the records in order.
LEMMA EndsKeeps ==
    ASSUME GitOpsInv, NEW r \in Request, TaskIsLive(r), Ends(r),
           ItemsOk(items', applied'),
           applied \subseteq applied', applied' \subseteq Request,
           req' = req, inbox' = inbox, late' \subseteq late \cup {r},
           overlap' = overlap, faults' \subseteq FaultKinds, ReposOk'
    PROVE  GitOpsInv'
<1>1. TasksOk(task, applied')
  BY TablesOk
<1>2. /\ TasksOk(task', applied')
      /\ \A q \in Request \ {r} : task'[q] = task[q]
  BY <1>1, EndsOk
<1>3. LcmFrame(r)
  BY <1>2 DEF LcmFrame
<1> QED
  BY <1>2, <1>3, LcmKeeps

\* Launch.
LEMMA LaunchKeeps ==
    ASSUME GitOpsInv, NEW r \in Request, NEW ok \in BOOLEAN, Launch(r, ok)
    PROVE  GitOpsInv'
<1>0. TypeOK /\ Named /\ TaskIsLive(r)
  BY DEF GitOpsInv, Launch, TaskIsLive
<1>1. /\ req' = req /\ inbox' = inbox /\ late' = late
      /\ overlap' = overlap /\ applied' = applied /\ faults' \subseteq FaultKinds
  BY <1>0 DEF Launch, extVars, TypeOK
<1>2. applied' \subseteq Request /\ ReposOk'
  BY <1>0, <1>1, ReposType DEF Launch, extVars, TypeOK, ReposOk
<1>3. /\ ItemsOk(items, applied') /\ TasksOk(task, applied')
      /\ task[r] \in TaskRec /\ Honest(task[r].doc, applied')
      /\ Honest(task[r].first, applied')
  BY <1>1, TablesOk, TaskDoc
<1>4. CASE Command(r) \in {"clone", "move"}
  <2>1. Ends(r) /\ items' = items
    BY <1>4 DEF Launch
  <2> QED
    BY <2>1, <1>0, <1>1, <1>2, <1>3, EndsKeeps
<1>5. CASE Command(r) \notin {"clone", "move"} /\ (ok \/ Item_(r) \notin Cluster)
  <2> DEFINE rec == [task[r] EXCEPT !.pc = "poll", !.launched = ok]
  <2>1. task' = [task EXCEPT ![r] = rec] /\ items' = items
    BY <1>5, <1>3 DEF Launch, TasksOk, TaskRec
  <2>2. /\ rec \in TaskRec /\ rec.doc = task[r].doc
        /\ rec.first = task[r].first
    BY <1>3 DEF TaskRec
  <2> HIDE DEF rec
  <2>3. TasksOk(task', applied')
    BY <2>1, <2>2, <1>3, SetTask
  <2>4. LcmFrame(r)
    BY <2>1, <1>0, <1>1, <1>2, <1>3 DEF LcmFrame, TasksOk
  <2> QED
    BY <2>1, <2>3, <2>4, <1>2, <1>3, LcmKeeps
<1>6. CASE Command(r) \notin {"clone", "move"} /\ ~ok /\ Item_(r) \in Cluster
  <2> DEFINE doc == IF Command(r) # "add" THEN AfterWorkflow(r, FALSE)
                    ELSE [task[r].doc EXCEPT !.resource = "ERROR"]
  <2>1. Saves(r, doc, "over")
    BY <1>6 DEF Launch
  <2>2. Honest(AfterWorkflow(r, FALSE), applied')
    BY <1>3, AfterWorkflowHonest
  <2>3. Honest([task[r].doc EXCEPT !.resource = "ERROR"], applied')
    <3> DEFINE new == [task[r].doc EXCEPT !.resource = "ERROR"]
    <3>1. new \in ItemRec /\ new.hist = task[r].doc.hist
      BY <1>3 DEF Honest, ItemRec
    <3> QED
      BY <3>1, <1>3, SameHistory
  <2>4. Honest(doc, applied')
    BY <2>2, <2>3
  <2> HIDE DEF doc
  <2> QED
    BY <2>1, <2>4, <1>0, <1>1, <1>2, SavesKeeps
<1> QED
  BY <1>4, <1>5, <1>6

\* What a workflow does to the repository keeps it in order.
LEMMA EffectType ==
    ASSUME TypeOK, Named, NEW r \in Request, req[r].item \in Item, Effect(r)
    PROVE  /\ repo' \subseteq Item
           /\ attached' \in [Cluster -> SUBSET Profile]
<1> DEFINE i == Item_(r)
           I == {i} \cup IF i \in Cluster /\ items[i].created THEN {Default[i]}
                                                             ELSE {}
<1>1. I \subseteq Item
  BY DefaultInItem DEF Item_
<1>2. repo' \subseteq Item
  BY <1>1 DEF Effect, TypeOK
<1>3. attached' \in [Cluster -> SUBSET Profile]
  <2>1. CASE Command(r) = "create" /\ i \in Cluster
    BY <2>1, DefaultInItem DEF Effect, TypeOK
  <2>2. CASE Command(r) = "add"
    <3>1. req[r].arg \in Profile
      BY <2>2 DEF Command, Named
    <3>2. attached' = [attached EXCEPT ![i] = @ \cup {req[r].arg}]
      BY <2>2 DEF Effect
    <3>3. CASE i \in Cluster
      <4>1. attached[i] \cup {req[r].arg} \in SUBSET Profile
        BY <3>1, <3>3 DEF TypeOK
      <4>2. attached' = [attached EXCEPT ![i] = attached[i] \cup {req[r].arg}]
        BY <3>2
      <4> QED
        BY <4>1, <4>2 DEF TypeOK
    <3>4. CASE i \notin Cluster
      BY <3>2, <3>4 DEF TypeOK
    <3> QED
      BY <3>3, <3>4
  <2>3. CASE Command(r) = "delete" /\ i \in Cluster
    BY <2>3 DEF Effect, TypeOK
  <2>4. CASE Command(r) = "remove"
    <3>1. attached' = [attached EXCEPT ![i] = @ \ {req[r].arg}]
      BY <2>4 DEF Effect
    <3> QED
      BY <3>1 DEF TypeOK
  <2>5. CASE /\ ~(Command(r) \in {"create", "delete"} /\ i \in Cluster)
             /\ Command(r) \notin {"add", "remove"}
    BY <2>5 DEF Effect, TypeOK
  <2> QED
    BY <2>1, <2>2, <2>3, <2>4, <2>5
<1> QED
  BY <1>2, <1>3

\* Poll.
LEMMA PollKeeps ==
    ASSUME GitOpsInv, NEW r \in Request, NEW ok \in BOOLEAN, Poll(r, ok)
    PROVE  GitOpsInv'
<1>0. TypeOK /\ Named /\ TaskIsLive(r)
  BY DEF GitOpsInv, Poll, TaskIsLive
<1>1. req[r].item \in Item
  BY <1>0, LiveNamed
<1>2. /\ req' = req /\ inbox' = inbox /\ overlap' = overlap
      /\ applied' = applied /\ old' = old
  BY DEF Poll
<1>3. late' \subseteq late \cup {r} /\ faults' \subseteq FaultKinds
  BY <1>0, FaultType DEF Poll, TypeOK
<1>4. ReposOk' /\ applied' \subseteq Request
  BY <1>0, <1>1, <1>2, EffectType DEF Poll, TypeOK, ReposOk
<1>5. Honest(AfterWorkflow(r, ok), applied')
  BY <1>2, TaskDoc, AfterWorkflowHonest
<1> DEFINE next == IF ok THEN "check"
                   ELSE IF Command(r) = "update" THEN "finish" ELSE "over"
<1>6. Saves(r, AfterWorkflow(r, ok), next)
  BY DEF Poll
<1>7. next \in {"poll", "check", "finish", "over"}
  OBVIOUS
<1> HIDE DEF next
<1> QED
  BY <1>0, <1>2, <1>3, <1>4, <1>5, <1>6, <1>7, SavesKeeps

\* LateEffect.
LEMMA LateEffectKeeps ==
    ASSUME GitOpsInv, NEW r \in Request, LateEffect(r) PROVE GitOpsInv'
<1>0. TypeOK /\ Named /\ AllHonest
  BY DEF GitOpsInv
<1>1. req[r].item \in Item
  BY <1>0 DEF LateEffect, Named
<1>2. repo' \subseteq Item /\ attached' \in [Cluster -> SUBSET Profile]
  BY <1>0, <1>1, EffectType DEF LateEffect
<1>3. TypeOK'
  BY <1>0, <1>2 DEF LateEffect, TypeOK
<1>4. AllHonest'
  BY <1>0 DEF LateEffect, AllHonest
<1>5. Named'
  BY <1>0 DEF LateEffect, Named, TaskIsLive
<1> QED
  BY <1>3, <1>4, <1>5 DEF GitOpsInv

\* Finish.
LEMMA FinishKeeps ==
    ASSUME GitOpsInv, NEW r \in Request, Finish(r) PROVE GitOpsInv'
<1> DEFINE doc == [task[r].doc EXCEPT !.operating = "IDLE",
                                      !.current = NoRequest]
<1>0. TypeOK /\ TaskIsLive(r)
  BY DEF GitOpsInv, Finish, TaskIsLive
<1>1. Saves(r, doc, "over")
  BY DEF Finish
<1>2. Honest(task[r].doc, applied)
  BY TaskDoc
<1>5. doc \in ItemRec /\ doc.hist = task[r].doc.hist
  BY <1>2 DEF Honest, ItemRec
<1>3. Honest(doc, applied')
  BY <1>2, <1>5, SameHistory DEF Finish
<1>4. ReposOk'
  BY <1>0, ReposType DEF Finish, extVars, ReposOk
<1> HIDE DEF doc
<1> QED
  BY <1>0, <1>1, <1>3, <1>4, SavesKeeps DEF Finish, extVars, TypeOK

\* CheckProgress.
LEMMA CheckProgressKeeps ==
    ASSUME GitOpsInv, NEW r \in Request, CheckProgress(r) PROVE GitOpsInv'
<1> DEFINE old_ == IF Item_(r) \in Cluster THEN task[r].first ELSE task[r].doc
           doc == [old_ EXCEPT !.resource = "IN_PROGRESS"]
<1>0. TypeOK /\ TaskIsLive(r)
  BY DEF GitOpsInv, CheckProgress, TaskIsLive
<1>1. items' = [items EXCEPT ![Item_(r)] = doc]
  BY DEF CheckProgress
<1>2. Honest(old_, applied)
  BY TaskDoc
<1> HIDE DEF old_
<1>3. doc \in ItemRec /\ doc.hist = old_.hist
  BY <1>2 DEF Honest, ItemRec
<1>4. Honest(doc, applied)
  BY <1>2, <1>3, SameHistory
<1> HIDE DEF doc
<1>5. ItemsOk(items', applied')
  <2>1. ItemsOk(items, applied) /\ applied' = applied
    BY TablesOk DEF CheckProgress
  <2> QED
    BY <1>1, <1>4, <2>1, SetItem
<1>6. TasksOk(task', applied') /\ ReposOk'
  BY <1>0, TablesOk, ReposType DEF CheckProgress, extVars, ReposOk
<1>7. LcmFrame(r)
  BY <1>0 DEF LcmFrame, CheckProgress, extVars, TypeOK
<1> QED
  BY <1>5, <1>6, <1>7, LcmKeeps

\* The resource check completes the operation of its own request at most.
LEMMA CheckEndsFacts ==
    ASSUME GitOpsInv, NEW r \in Request, NEW ok \in BOOLEAN, CheckEnds(r, ok)
    PROVE  /\ TypeOK /\ Named /\ TaskIsLive(r) /\ Item_(r) \in Item
           /\ applied \subseteq applied' /\ applied' \subseteq Request
           /\ ItemsOk(items, applied') /\ TasksOk(task, applied')
           /\ Honest(AfterCheck(r, ok), applied')
<1>1. TypeOK /\ Named /\ TaskIsLive(r)
  BY DEF GitOpsInv, CheckEnds, TaskIsLive
<1>2. /\ applied \subseteq applied' /\ applied' \subseteq Request
      /\ ok => r \in applied'
  BY <1>1 DEF CheckEnds, TypeOK
<1>3. req[r].item \in Item
  BY <1>1, LiveNamed
<1>4. Honest(AfterCheck(r, ok), applied')
  BY <1>1, <1>2, <1>3, TaskDoc, AfterCheckHonest
<1> QED
  BY <1>1, <1>2, <1>3, <1>4, TablesOk DEF Item_

\* EndItem.
LEMMA EndItemKeeps ==
    ASSUME GitOpsInv, NEW r \in Request, NEW ok \in BOOLEAN, EndItem(r, ok)
    PROVE  GitOpsInv'
<1>1. /\ TypeOK /\ TaskIsLive(r)
      /\ applied \subseteq applied' /\ applied' \subseteq Request
      /\ ItemsOk(items, applied') /\ Honest(AfterCheck(r, ok), applied')
  BY CheckEndsFacts DEF EndItem
<1>2. /\ req' = req /\ inbox' = inbox /\ late' = late
      /\ overlap' = overlap /\ faults' \subseteq FaultKinds
  BY <1>1 DEF EndItem, extVars, TypeOK
<1>3. ReposOk'
  BY <1>1, ReposType DEF EndItem, extVars, ReposOk
<1>4. CASE Command(r) = "remove" /\ req[r].arg \notin task[r].doc.links
  <2>1. Ends(r) /\ items' = items
    BY <1>4 DEF EndItem
  <2> QED
    BY <2>1, <1>1, <1>2, <1>3, EndsKeeps
<1>5. CASE ~(Command(r) = "remove" /\ req[r].arg \notin task[r].doc.links)
  <2>1. Saves(r, AfterCheck(r, ok), "over")
    BY <1>5 DEF EndItem
  <2> QED
    BY <2>1, <1>1, <1>2, <1>3, SavesKeeps
<1> QED
  BY <1>4, <1>5

\* EndCluster.
LEMMA EndClusterKeeps ==
    ASSUME GitOpsInv, NEW r \in Request, NEW ok \in BOOLEAN, EndCluster(r, ok)
    PROVE  GitOpsInv'
<1>1. /\ TypeOK /\ Named /\ TaskIsLive(r) /\ Item_(r) \in Item
      /\ applied \subseteq applied' /\ applied' \subseteq Request
      /\ ItemsOk(items, applied') /\ TasksOk(task, applied')
      /\ Honest(AfterCheck(r, ok), applied')
  BY CheckEndsFacts DEF EndCluster
<1>2. /\ req' = req /\ inbox' = inbox /\ late' = late
      /\ overlap' = overlap /\ faults' \subseteq FaultKinds
  BY <1>1 DEF EndCluster, extVars, TypeOK
<1>3. ReposOk'
  BY <1>1, ReposType DEF EndCluster, extVars, ReposOk
<1>4. \A p \in Item : Honest(DefaultDoc(p, r, ok), applied')
  <2> TAKE p \in Item
  <2>1. Honest(items[p], applied') /\ Honest(task[r].doc, applied')
    BY <1>1 DEF ItemsOk, TasksOk
  <2>2. ok => r \in applied'
    BY DEF EndCluster, CheckEnds
  <2> QED
    BY <2>1, <2>2, <1>1, DefaultDocHonest DEF Item_
<1>5. ItemsOk(items', applied')
  <2>1. CASE ~There(Item_(r))
    BY <2>1, <1>1 DEF EndCluster
  <2>2. CASE There(Item_(r))
    <3> DEFINE P == IF Command(r) = "create" THEN task[r].doc.links ELSE {}
    <3>1. items' = [i \in Item |->
                      IF i = Item_(r) THEN AfterCheck(r, ok)
                      ELSE IF i \in P /\ There(i) THEN DefaultDoc(i, r, ok)
                      ELSE items[i]]
      BY <2>2 DEF EndCluster
    <3> HIDE DEF P
    <3> QED
      BY <3>1, <1>1, <1>4 DEF ItemsOk, Honest
  <2> QED
    BY <2>1, <2>2
<1>6. CASE Ends(r)
  BY <1>6, <1>1, <1>2, <1>3, <1>5, EndsKeeps
<1>7. CASE ~Ends(r)
  <2> DEFINE rec == [task[r] EXCEPT !.pc = "publish", !.ok = ok]
  <2>1. task[r] \in TaskRec
    BY <1>1 DEF TasksOk
  <2>2. task' = [task EXCEPT ![r] = rec]
    BY <1>7, <1>1, <2>1 DEF EndCluster, TaskRec, TasksOk
  <2>3. rec \in TaskRec /\ rec.doc = task[r].doc /\ rec.first = task[r].first
    BY <2>1 DEF TaskRec
  <2> HIDE DEF rec
  <2>4. TasksOk(task', applied')
    BY <2>2, <2>3, <1>1, SetTask DEF TasksOk
  <2>5. LcmFrame(r)
    BY <2>2, <1>1, <1>2 DEF LcmFrame, TasksOk
  <2> QED
    BY <2>4, <2>5, <1>3, <1>5, LcmKeeps
<1> QED
  BY <1>6, <1>7

\* Publish.
LEMMA PublishKeeps ==
    ASSUME GitOpsInv, NEW r \in Request, NEW to \in {"ENABLED", "ERROR"},
           Publish(r, to)
    PROVE  GitOpsInv'
<1>0. TypeOK /\ TaskIsLive(r) /\ Ends(r) /\ items' = items /\ applied' = applied
  BY DEF GitOpsInv, Publish, TaskIsLive
<1>1. ItemsOk(items', applied')
  BY <1>0, TablesOk
<1>2. ReposOk'
  <2>1. old' \in [Cluster -> {"none", "PROCESSING", "ENABLED", "ERROR"}]
    BY <1>0 DEF Publish, TypeOK
  <2> QED
    BY <2>1, <1>0 DEF Publish, extVars, TypeOK, ReposOk
<1> QED
  BY <1>0, <1>1, <1>2, EndsKeeps DEF Publish, extVars, TypeOK

\* EndDeregister.
LEMMA EndDeregisterKeeps ==
    ASSUME GitOpsInv, NEW r \in Request, NEW ok \in BOOLEAN,
           EndDeregister(r, ok)
    PROVE  GitOpsInv'
<1>1. /\ TypeOK /\ TaskIsLive(r)
      /\ applied \subseteq applied' /\ applied' \subseteq Request
      /\ ItemsOk(items, applied') /\ TasksOk(task, applied')
      /\ Honest(AfterCheck(r, ok), applied')
  BY CheckEndsFacts DEF EndDeregister
<1>2. /\ req' = req /\ inbox' = inbox /\ late' = late
      /\ overlap' = overlap /\ faults' \subseteq FaultKinds
  BY <1>1 DEF EndDeregister, extVars, TypeOK
<1>3. ReposOk'
  BY <1>1, ReposType DEF EndDeregister, extVars, ReposOk
<1>4. CASE There(Item_(r))
  <2> DEFINE rec == [NoTask EXCEPT !.pc = "scheduled", !.second = TRUE]
  <2>1. items' = [items EXCEPT ![Item_(r)] = AfterCheck(r, ok)]
    BY <1>4 DEF EndDeregister
  <2>2. task' = [task EXCEPT ![r] = rec]
    BY <1>4 DEF EndDeregister
  <2>3. /\ rec \in TaskRec
        /\ Honest(rec.doc, applied') /\ Honest(rec.first, applied')
    BY NoTaskOk
  <2> HIDE DEF rec
  <2>4. ItemsOk(items', applied') /\ TasksOk(task', applied')
    BY <2>1, <2>2, <2>3, <1>1, SetItem, SetTask
  <2>5. LcmFrame(r)
    BY <2>2, <1>1, <1>2 DEF LcmFrame, TasksOk
  <2> QED
    BY <2>4, <2>5, <1>3, LcmKeeps
<1>5. CASE ~There(Item_(r))
  <2>1. Ends(r) /\ items' = items
    BY <1>5 DEF EndDeregister
  <2> QED
    BY <2>1, <1>1, <1>2, <1>3, EndsKeeps
<1> QED
  BY <1>4, <1>5

\* EndDelete.
LEMMA EndDeleteKeeps ==
    ASSUME GitOpsInv, NEW r \in Request, NEW ok \in BOOLEAN, EndDelete(r, ok)
    PROVE  GitOpsInv'
<1>1. /\ TypeOK /\ TaskIsLive(r)
      /\ applied \subseteq applied' /\ applied' \subseteq Request
      /\ ItemsOk(items, applied')
  BY CheckEndsFacts DEF EndDelete
<1>2. ItemsOk(items', applied')
  BY <1>1, GoneOk DEF EndDelete
<1>3. ReposOk'
  BY <1>1, ReposType DEF EndDelete, extVars, ReposOk
<1> QED
  BY <1>1, <1>2, <1>3, EndsKeeps DEF EndDelete, extVars, TypeOK

\* EndDeleteKsu.
LEMMA EndDeleteKsuKeeps ==
    ASSUME GitOpsInv, NEW r \in Request, NEW ok \in BOOLEAN, EndDeleteKsu(r, ok)
    PROVE  GitOpsInv'
<1>1. /\ TypeOK /\ TaskIsLive(r)
      /\ applied \subseteq applied' /\ applied' \subseteq Request
      /\ ItemsOk(items, applied')
  BY CheckEndsFacts DEF EndDeleteKsu
<1>2. ItemsOk(items', applied')
  BY <1>1, GoneOk DEF EndDeleteKsu
<1>3. ReposOk'
  BY <1>1, ReposType DEF EndDeleteKsu, extVars, ReposOk
<1> QED
  BY <1>1, <1>2, <1>3, EndsKeeps DEF EndDeleteKsu, extVars, TypeOK

\* EndDeleteCluster.
LEMMA EndDeleteClusterKeeps ==
    ASSUME GitOpsInv, NEW r \in Request, NEW ok \in BOOLEAN,
           EndDeleteCluster(r, ok)
    PROVE  GitOpsInv'
<1> DEFINE c == Item_(r)
           doc == AfterCheck(r, ok)
           I == IF req[r].force /\ ~ok THEN {c} ELSE ToRemove(c, doc.links)
<1>1. /\ TypeOK /\ TaskIsLive(r)
      /\ applied \subseteq applied' /\ applied' \subseteq Request
      /\ ItemsOk(items, applied') /\ Honest(doc, applied')
  BY CheckEndsFacts DEF EndDeleteCluster
<1>2. ItemsOk(Gone(I), applied')
  BY <1>1, GoneOk
<1>3. ItemsOk(items', applied')
  <2>1. \/ items' = items
        \/ \E S \in SUBSET Detachable(c, doc.links) :
              items' = [Gone(I) EXCEPT
                          ![c] = IF c \in I THEN @
                                 ELSE [doc EXCEPT !.links = @ \ S]]
    BY DEF EndDeleteCluster
  <2> HIDE DEF doc, I
  <2>2. ASSUME NEW S,
               items' = [Gone(I) EXCEPT
                           ![c] = IF c \in I THEN @
                                  ELSE [doc EXCEPT !.links = @ \ S]]
        PROVE  ItemsOk(items', applied')
    <3>1. Honest([doc EXCEPT !.links = @ \ S], applied')
      <4>1. doc \in ItemRec /\ \A q \in Request :
                                  doc.hist[q] = "COMPLETED" => q \in applied'
        BY <1>1 DEF Honest
      <4>2. [doc EXCEPT !.links = @ \ S] \in ItemRec
        BY <4>1 DEF ItemRec
      <4> QED
        BY <4>1, <4>2 DEF Honest, ItemRec
    <3> QED
      BY <2>2, <3>1, <1>2 DEF ItemsOk, Honest
  <2> QED
    BY <2>1, <2>2, <1>1
<1>4. ReposOk'
  <2>1. old' = old \/ old' = [old EXCEPT ![c] = "none"]
    BY DEF EndDeleteCluster
  <2>2. old' \in [Cluster -> {"none", "PROCESSING", "ENABLED", "ERROR"}]
    BY <2>1, <1>1 DEF TypeOK
  <2> QED
    BY <2>2, <1>1 DEF EndDeleteCluster, extVars, TypeOK, ReposOk
<1> QED
  BY <1>1, <1>3, <1>4, EndsKeeps DEF EndDeleteCluster, extVars, TypeOK

\* EndGetCreds.
LEMMA EndGetCredsKeeps ==
    ASSUME GitOpsInv, NEW r \in Request, EndGetCreds(r) PROVE GitOpsInv'
<1> DEFINE doc == [task[r].doc EXCEPT !.current = NoRequest]
<1>0. TypeOK /\ TaskIsLive(r)
  BY DEF GitOpsInv, EndGetCreds, TaskIsLive
<1>1. Saves(r, doc, "over")
  BY DEF EndGetCreds
<1>2. Honest(task[r].doc, applied)
  BY TaskDoc
<1>3. doc \in ItemRec /\ doc.hist = task[r].doc.hist
  BY <1>2 DEF Honest, ItemRec
<1>4. Honest(doc, applied')
  BY <1>2, <1>3, SameHistory DEF EndGetCreds
<1>5. ReposOk'
  BY <1>0, ReposType DEF EndGetCreds, extVars, ReposOk
<1> HIDE DEF doc
<1> QED
  BY <1>0, <1>1, <1>4, <1>5, SavesKeeps DEF EndGetCreds, extVars, TypeOK

\* Every step of a coroutine keeps the invariant.
LEMMA LcmStepKeeps ==
    ASSUME GitOpsInv, NEW r \in Request, LcmStep(r) PROVE GitOpsInv'
<1>1. CASE \E ok \in BOOLEAN :
             \/ Launch(r, ok) \/ Poll(r, ok) \/ EndItem(r, ok)
             \/ EndCluster(r, ok) \/ EndDeregister(r, ok) \/ EndDelete(r, ok)
             \/ EndDeleteKsu(r, ok) \/ EndDeleteCluster(r, ok)
  BY <1>1, LaunchKeeps, PollKeeps, EndItemKeeps, EndClusterKeeps,
     EndDeregisterKeeps, EndDeleteKeeps, EndDeleteKsuKeeps,
     EndDeleteClusterKeeps
<1> QED
  BY <1>1, StartKeeps, FinishKeeps, EndGetCredsKeeps, PublishKeeps DEF LcmStep

\* Deliver.
LEMMA DeliverKeeps ==
    ASSUME GitOpsInv, NEW r \in Request, Deliver(r) PROVE GitOpsInv'
<1> DEFINE rec == [NoTask EXCEPT !.pc = "scheduled", !.second = FALSE]
<1>1. [NoTask EXCEPT !.pc = "scheduled"] = rec
  <2>1. NoTask.second = FALSE /\ NoTask \in TaskRec
    BY NoRecordHonest DEF NoTask, TaskRec, Honest
  <2> QED
    BY <2>1 DEF TaskRec
<1>2. task' = [task EXCEPT ![r] = rec]
  BY <1>1 DEF Deliver
<1>3. rec \in TaskRec /\ Honest(rec.doc, applied) /\ Honest(rec.first, applied)
  BY NoTaskOk
<1> HIDE DEF rec
<1>4. ItemsOk(items, applied) /\ TasksOk(task, applied)
  BY TablesOk
<1>5. TasksOk(task', applied)
  BY <1>2, <1>3, <1>4, SetTask
<1>6. TypeOK'
  BY <1>5 DEF GitOpsInv, TypeOK, Deliver, extVars, TasksOk
<1>7. AllHonest'
  BY <1>5 DEF GitOpsInv, AllHonest, Deliver, TasksOk
<1>8. Named'
  <2>1. \A q \in Request \ {r} : task'[q] = task[q]
    BY <1>2, <1>4 DEF TasksOk
  <2> QED
    BY <2>1 DEF GitOpsInv, Named, Deliver, TaskIsLive, extVars
<1> QED
  BY <1>6, <1>7, <1>8 DEF GitOpsInv

\* Crash.
LEMMA CrashKeeps == ASSUME GitOpsInv, Crash PROVE GitOpsInv'
<1> DEFINE rec == [NoTask EXCEPT !.pc = "over", !.second = FALSE]
<1>1. [NoTask EXCEPT !.pc = "over"] = rec
  <2>1. NoTask.second = FALSE /\ NoTask \in TaskRec
    BY NoRecordHonest DEF NoTask, TaskRec, Honest
  <2> QED
    BY <2>1 DEF TaskRec
<1>2. rec \in TaskRec /\ Honest(rec.doc, applied) /\ Honest(rec.first, applied)
  BY NoTaskOk
<1>3. rec.pc = "over"
  <2>1. NoTask \in TaskRec
    BY NoRecordHonest DEF NoTask, TaskRec, Honest
  <2> QED
    BY <2>1 DEF TaskRec
<1> HIDE DEF rec
<1>4. task' = [r \in Request |->
                 IF r \in {q \in Request : TaskIsLive(q)} THEN rec ELSE task[r]]
  BY <1>1 DEF Crash
<1>5. TasksOk(task', applied)
  BY <1>2, <1>4, TablesOk DEF TasksOk
<1>6. TypeOK'
  BY <1>5, FaultType DEF GitOpsInv, TypeOK, Crash, extVars, TasksOk
<1>7. AllHonest'
  BY <1>5 DEF GitOpsInv, AllHonest, Crash, TasksOk
<1>8. Named'
  <2>1. \A q \in Request : TaskIsLive(q)' => TaskIsLive(q)
    BY <1>3, <1>4 DEF TaskIsLive
  <2> QED
    BY <2>1 DEF GitOpsInv, Named, Crash, extVars
<1> QED
  BY <1>6, <1>7, <1>8 DEF GitOpsInv

-----------------------------------------------------------------------------
(* Steps of NBI                                                             *)

\* A request names a record and the arguments of its command.
WellNamed(new) ==
    /\ new.pc # "free" /\ new.item \in Item
    /\ new.kind = "add" => new.arg \in Profile
    /\ new.kind = "move" => new.arg \in Profile
    /\ new.kind = "edit" /\ new.item \in Ksu => new.arg \in Oka

\* A step of NBI that keeps its request and the records in order.
LEMMA NbiKeeps ==
    ASSUME GitOpsInv, NEW r \in Request, NEW new \in RequestRec,
           req' = [req EXCEPT ![r] = new], WellNamed(new),
           Honest(new.doc, applied), ItemsOk(items', applied),
           inbox' \subseteq inbox \cup {r},
           old' \in [Cluster -> {"none", "PROCESSING", "ENABLED", "ERROR"}],
           overlap' \in BOOLEAN, faults' \subseteq FaultKinds,
           UNCHANGED <<task, extVars, applied>>
    PROVE  GitOpsInv'
<1>1. TypeOK'
  BY DEF GitOpsInv, TypeOK, ItemsOk, extVars
<1>2. req'[r] = new /\ \A q \in Request \ {r} : req'[q] = req[q]
  BY DEF GitOpsInv, TypeOK
<1>3. AllHonest'
  BY <1>2 DEF GitOpsInv, AllHonest, ItemsOk
<1>4. Named'
  BY <1>2 DEF GitOpsInv, Named, WellNamed, TaskIsLive, extVars
<1> QED
  BY <1>1, <1>3, <1>4 DEF GitOpsInv

\* A step of NBI that moves its request on.
LEMMA NbiGoesOn ==
    ASSUME GitOpsInv, NEW r \in Request, req[r].pc # "free",
           NEW pc \in {"written", "old", "done"}, NEW doc, Honest(doc, applied),
           req' = [req EXCEPT ![r].pc = pc, ![r].doc = doc],
           ItemsOk(items', applied), inbox' \subseteq inbox \cup {r},
           old' \in [Cluster -> {"none", "PROCESSING", "ENABLED", "ERROR"}],
           overlap' = overlap, faults' \subseteq FaultKinds,
           UNCHANGED <<task, extVars, applied>>
    PROVE  GitOpsInv'
<1> DEFINE new == [req[r] EXCEPT !.pc = pc, !.doc = doc]
<1>1. req[r] \in RequestRec /\ doc \in ItemRec /\ overlap' \in BOOLEAN
  BY DEF GitOpsInv, TypeOK, Honest
<1>2. /\ new \in RequestRec /\ new.pc = pc /\ new.doc = doc
      /\ new.item = req[r].item /\ new.kind = req[r].kind
      /\ new.arg = req[r].arg
  BY <1>1 DEF RequestRec
<1>3. req' = [req EXCEPT ![r] = new]
  BY DEF GitOpsInv, TypeOK, RequestRec
<1>4. WellNamed(new)
  <2> HIDE DEF new
  <2> QED
    BY <1>2 DEF GitOpsInv, Named, WellNamed
<1> HIDE DEF new
<1> QED
  BY <1>1, <1>2, <1>3, <1>4, NbiKeeps

\* Whether requests overlapped is a Boolean.
LEMMA OpensType ==
    ASSUME NEW r, NEW new, Opens(r, new) PROVE overlap' \in BOOLEAN
BY Zenon DEF Opens

\* The slot of a request before it is made.
LEMMA NoReqType ==
    /\ NoReq \in RequestRec /\ NoReq.doc = NoRecord
    /\ NoReq.with = {} /\ NoReq.arg = NoItem /\ NoReq.force = FALSE
<1>1. NoRecord \in ItemRec
  BY NoRecordHonest DEF Honest
<1> QED
  BY <1>1 DEF NoReq, RequestRec

\* NbiNew.
LEMMA NbiNewKeeps ==
    ASSUME GitOpsInv, NEW r \in Request, NEW i \in Item, NEW kind \in Kinds,
           NbiNew(r, i, kind)
    PROVE  GitOpsInv'
<1> DEFINE new == [NoReq EXCEPT !.pc = "written", !.kind = kind, !.item = i]
           I == {i} \cup IF i \in Cluster /\ kind = "create"
                           THEN {Default[i]} ELSE {}
<1>1. /\ new \in RequestRec /\ new.doc = NoRecord
      /\ new.pc = "written" /\ new.item = i /\ new.kind = kind
  BY NoReqType DEF RequestRec
<1>2. req' = [req EXCEPT ![r] = new] /\ overlap' \in BOOLEAN
  BY OpensType DEF NbiNew, Opens
<1>3. WellNamed(new)
  <2> HIDE DEF new
  <2> QED
    BY <1>1 DEF WellNamed, NbiNew
<1>4. ItemsOk(items', applied)
  <2>1. \A j \in Item : Honest(NewOperation(NewRecord(j, kind), r), applied)
    BY NewRecordHonest, NewOperationHonest
  <2>2. ItemsOk(items, applied)
    BY TablesOk
  <2>3. items' = [j \in Item |-> IF j \in I
                                   THEN NewOperation(NewRecord(j, kind), r)
                                   ELSE items[j]]
    BY DEF NbiNew
  <2> HIDE DEF I
  <2> QED
    BY <2>1, <2>2, <2>3 DEF ItemsOk, Honest
<1> HIDE DEF new
<1> QED
  BY <1>1, <1>2, <1>3, <1>4, NoRecordHonest, NbiKeeps DEF NbiNew, extVars, GitOpsInv, TypeOK

\* NbiMarkOka.
LEMMA NbiMarkOkaKeeps ==
    ASSUME GitOpsInv, NEW r \in Request, NEW k \in Ksu, NEW with \in SUBSET Ksu,
           NEW p \in Profile, NEW a \in Oka, NbiMarkOka(r, k, with, p, a)
    PROVE  GitOpsInv'
<1> DEFINE doc == [NoRecord EXCEPT !.links = {p, a}]
           new == [NoReq EXCEPT !.pc = "read", !.kind = "create", !.item = k,
                                !.with = with, !.doc.links = {p, a}]
<1>1. doc \in ItemRec /\ Honest(doc, applied)
  <2>1. NoRecord \in ItemRec /\ Honest(NoRecord, applied)
    BY NoRecordHonest DEF Honest
  <2>2. {p, a} \in SUBSET Item
    BY DEF Item
  <2>3. doc \in ItemRec /\ doc.hist = NoRecord.hist
    BY <2>1, <2>2 DEF ItemRec
  <2> QED
    BY <2>1, <2>3, SameHistory
<1>2. k \in Item /\ "create" \in Kinds
  BY DEF NbiMarkOka, Item
<1>3. /\ new \in RequestRec /\ new.doc = doc
      /\ new.pc = "read" /\ new.item = k /\ new.kind = "create"
  <2>1. new = [NoReq EXCEPT !.pc = "read", !.kind = "create", !.item = k,
                            !.with = with, !.doc = doc]
    BY NoReqType DEF RequestRec
  <2> HIDE DEF doc, new
  <2> QED
    BY <2>1, <1>1, <1>2, NoReqType DEF RequestRec, Honest
<1>4. req' = [req EXCEPT ![r] = new] /\ overlap' \in BOOLEAN
  BY OpensType DEF NbiMarkOka, Opens
<1>5. WellNamed(new)
  <2> HIDE DEF new
  <2> QED
    BY <1>2, <1>3 DEF WellNamed
<1>6. ItemsOk(items', applied)
  <2> DEFINE oka == [items[a] EXCEPT !.inUse = TRUE]
  <2>1. ItemsOk(items, applied) /\ a \in Item
    BY TablesOk DEF Item
  <2>2. Honest(items[a], applied)
    BY <2>1 DEF ItemsOk
  <2>3. oka \in ItemRec /\ oka.hist = items[a].hist
    BY <2>2 DEF Honest, ItemRec
  <2>4. Honest(oka, applied)
    BY <2>2, <2>3, SameHistory
  <2>5. items' = [items EXCEPT ![a] = oka]
    BY DEF NbiMarkOka
  <2> HIDE DEF oka
  <2> QED
    BY <2>1, <2>4, <2>5, SetItem
<1> HIDE DEF new, doc
<1> QED
  BY <1>1, <1>3, <1>4, <1>5, <1>6, NbiKeeps
     DEF NbiMarkOka, extVars, GitOpsInv, TypeOK

\* NbiNewKsus.
LEMMA NbiNewKsusKeeps ==
    ASSUME GitOpsInv, NEW r \in Request, NbiNewKsus(r) PROVE GitOpsInv'
<1>1. ItemsOk(items', applied)
  <2>1. \A j \in Item :
          Honest([NewRecord(j, "create") EXCEPT !.links = req[r].doc.links],
                 applied)
    <3> TAKE j \in Item
    <3>1. /\ NewRecord(j, "create") \in ItemRec
          /\ Honest(NewRecord(j, "create"), applied)
      BY NewRecordHonest DEF Honest
    <3>2. req[r].doc.links \in SUBSET Item
      BY DEF GitOpsInv, TypeOK, RequestRec, ItemRec
    <3>3. [NewRecord(j, "create") EXCEPT !.links = req[r].doc.links] \in ItemRec
      BY <3>1, <3>2 DEF ItemRec
    <3>4. [NewRecord(j, "create") EXCEPT !.links = req[r].doc.links].hist
            = NewRecord(j, "create").hist
      BY <3>1 DEF ItemRec
    <3> QED
      BY <3>1, <3>3, <3>4, SameHistory
  <2>2. \A j \in Item :
          Honest(NewOperation(
                   [NewRecord(j, "create") EXCEPT !.links = req[r].doc.links], r),
                 applied)
    BY <2>1, NewOperationHonest
  <2>3. ItemsOk(items, applied)
    BY TablesOk
  <2> QED
    BY <2>1, <2>2, <2>3 DEF NbiNewKsus, ItemsOk, Honest
<1>2. Honest(NoRecord, applied)
  BY NoRecordHonest
<1> QED
  BY <1>1, <1>2, NbiGoesOn DEF NbiNewKsus, extVars, GitOpsInv, TypeOK

\* What NBI accepts names the arguments of its command.
LEMMA AcceptedNames ==
    ASSUME NEW kind, NEW i \in Item, NEW x, Accepted(kind, i, x)
    PROVE  /\ kind = "add" => x \in Profile
           /\ kind = "move" => x \in Profile
           /\ kind = "edit" /\ i \in Ksu => x \in Oka
<1>1. Oka \cap Ksu = {}
  BY GitOpsAssumption
<1> QED
  BY <1>1 DEF Accepted

\* NbiRead.
LEMMA NbiReadKeeps ==
    ASSUME GitOpsInv, NEW r \in Request, NEW kind \in Kinds, NEW i \in Item,
           NEW x \in Item \cup {NoItem}, NEW force \in BOOLEAN,
           NbiRead(r, kind, i, x, force)
    PROVE  GitOpsInv'
<1> DEFINE new == [NoReq EXCEPT !.pc = "read", !.kind = kind, !.item = i,
                                !.arg = x, !.force = force, !.doc = items[i]]
<1>0. ItemsOk(items, applied) /\ Honest(items[i], applied)
  BY TablesOk DEF ItemsOk
<1>1. /\ new \in RequestRec /\ new.doc = items[i] /\ new.arg = x
      /\ new.pc = "read" /\ new.item = i /\ new.kind = kind
  BY <1>0, NoReqType DEF RequestRec, Honest
<1>2. req' = [req EXCEPT ![r] = new] /\ overlap' \in BOOLEAN
  BY OpensType DEF NbiRead, Opens
<1>3. WellNamed(new)
  <2> HIDE DEF new
  <2> QED
    BY <1>1, AcceptedNames DEF WellNamed, NbiRead
<1>4. ItemsOk(items', applied)
  <2>1. \A j \in Item : Honest([items[j] EXCEPT !.links = @ \ {i}], applied)
    <3> TAKE j \in Item
    <3>1. Honest(items[j], applied)
      BY <1>0 DEF ItemsOk
    <3>2. items[j].links \ {i} \in SUBSET Item
      BY <3>1 DEF Honest, ItemRec
    <3>3. [items[j] EXCEPT !.links = items[j].links \ {i}] \in ItemRec
      BY <3>1, <3>2 DEF Honest, ItemRec
    <3>4. [items[j] EXCEPT !.links = items[j].links \ {i}].hist = items[j].hist
      BY <3>1 DEF Honest, ItemRec
    <3> QED
      BY <3>1, <3>3, <3>4, SameHistory
  <2> QED
    BY <2>1, <1>0 DEF NbiRead, ItemsOk, Honest
<1> HIDE DEF new
<1> QED
  BY <1>0, <1>1, <1>2, <1>3, <1>4, NbiKeeps
     DEF NbiRead, extVars, GitOpsInv, TypeOK

\* NbiWrite.
LEMMA NbiWriteKeeps ==
    ASSUME GitOpsInv, NEW r \in Request, NbiWrite(r) PROVE GitOpsInv'
<1>1. ItemsOk(items, applied) /\ Honest(NoRecord, applied)
  BY TablesOk, NoRecordHonest
<1>2. Honest(Marked(req[r].doc, r), applied)
  BY MarkedHonest DEF GitOpsInv, AllHonest
<1>3. ItemsOk(items', applied)
  <2>1. ItemsOk([items EXCEPT ![req[r].item] = Marked(req[r].doc, r)], applied)
    BY <1>1, <1>2, SetItem
  <2> QED
    BY <2>1, <1>1 DEF NbiWrite
<1>4. CASE There(req[r].item)
  <2>1. req' = [req EXCEPT ![r].pc = "written", ![r].doc = NoRecord]
    BY <1>4 DEF NbiWrite
  <2> QED
    BY <2>1, <1>1, <1>3, NbiGoesOn DEF NbiWrite, extVars, GitOpsInv, TypeOK
<1>5. CASE ~There(req[r].item)
  <2>1. req' = [req EXCEPT ![r].pc = "done", ![r].doc = NoRecord]
    BY <1>5 DEF NbiWrite
  <2> QED
    BY <2>1, <1>1, <1>3, NbiGoesOn DEF NbiWrite, extVars, GitOpsInv, TypeOK
<1> QED
  BY <1>4, <1>5

\* NbiDeleteKsu.
LEMMA NbiDeleteKsuKeeps ==
    ASSUME GitOpsInv, NEW r \in Request, NbiDeleteKsu(r) PROVE GitOpsInv'
<1> DEFINE doc == req[r].doc
           unused == UnusedAfter(req[r].item, doc)
           pc == IF There(req[r].item) /\ (/\ \A a \in unused : There(a)
                            /\ \A p \in doc.links \cap Profile : There(p))
                   THEN "written" ELSE "done"
<1>1. /\ ItemsOk(items, applied) /\ Honest(NoRecord, applied)
      /\ Honest(doc, applied)
  BY TablesOk, NoRecordHonest DEF GitOpsInv, AllHonest
<1>2. Honest(Marked(doc, r), applied) /\ Honest(NoLonger(doc), applied)
  BY <1>1, MarkedHonest, NoLongerHonest DEF GitOpsInv
<1>3. \A i \in Item : Honest([items[i] EXCEPT !.inUse = FALSE], applied)
  <2> TAKE i \in Item
  <2>1. Honest(items[i], applied)
    BY <1>1 DEF ItemsOk
  <2>2. /\ [items[i] EXCEPT !.inUse = FALSE] \in ItemRec
        /\ [items[i] EXCEPT !.inUse = FALSE].hist = items[i].hist
    BY <2>1 DEF Honest, ItemRec
  <2> QED
    BY <2>1, <2>2, SameHistory
<1>4. ItemsOk(items', applied)
  <2>1. CASE ~There(req[r].item)
    BY <2>1, <1>1 DEF NbiDeleteKsu
  <2>2. CASE There(req[r].item)
    <3> DEFINE there == \A a \in unused : There(a)
               gone == \E p \in doc.links \cap Profile : ~There(p)
    <3>1. items' = [i \in Item |->
                      IF i = req[r].item
                        THEN IF there /\ gone THEN NoLonger(doc)
                                              ELSE Marked(doc, r)
                      ELSE IF i \in unused /\ there
                        THEN [items[i] EXCEPT !.inUse = FALSE]
                      ELSE items[i]]
      BY <2>2 DEF NbiDeleteKsu
    <3> HIDE DEF there, gone, unused, doc
    <3> QED
      BY <3>1, <1>1, <1>2, <1>3 DEF ItemsOk, Honest
  <2> QED
    BY <2>1, <2>2
<1>5. req' = [req EXCEPT ![r].doc = NoRecord, ![r].pc = pc]
  BY DEF NbiDeleteKsu
<1>6. pc \in {"written", "old", "done"}
  OBVIOUS
<1>7. req' = [req EXCEPT ![r].pc = pc, ![r].doc = NoRecord]
  <2> HIDE DEF pc
  <2> QED
    BY <1>5 DEF GitOpsInv, TypeOK, RequestRec
<1> HIDE DEF pc
<1> QED
  BY <1>1, <1>4, <1>6, <1>7, NbiGoesOn
     DEF NbiDeleteKsu, extVars, GitOpsInv, TypeOK

\* A step of NBI that changes only the stage of its request.
LEMMA NbiPcKeeps ==
    ASSUME GitOpsInv, NEW r \in Request, req[r].pc # "free",
           NEW pc \in {"written", "old", "done"},
           req' = [req EXCEPT ![r].pc = pc],
           ItemsOk(items', applied), inbox' \subseteq inbox \cup {r},
           old' \in [Cluster -> {"none", "PROCESSING", "ENABLED", "ERROR"}],
           overlap' = overlap, faults' \subseteq FaultKinds,
           UNCHANGED <<task, extVars, applied>>
    PROVE  GitOpsInv'
<1>1. Honest(req[r].doc, applied)
  BY DEF GitOpsInv, AllHonest
<1>2. req' = [req EXCEPT ![r].pc = pc, ![r].doc = req[r].doc]
  BY DEF GitOpsInv, TypeOK, RequestRec
<1> QED
  BY <1>1, <1>2, NbiGoesOn

\* NbiSend, NbiSendFails and NbiOld.
LEMMA NbiSendKeeps ==
    ASSUME GitOpsInv, NEW r \in Request,
           NbiSend(r) \/ NbiSendFails(r) \/ NbiOld(r)
    PROVE  GitOpsInv'
<1>0. ItemsOk(items, applied) /\ TypeOK
  BY TablesOk DEF GitOpsInv
<1>1. CASE NbiSend(r)
  <2> DEFINE pc == IF /\ req[r].kind \in {"create", "register"}
                      /\ req[r].item \in Cluster THEN "old" ELSE "done"
  <2>1. req' = [req EXCEPT ![r].pc = pc] /\ pc \in {"written", "old", "done"}
    BY <1>1 DEF NbiSend
  <2> HIDE DEF pc
  <2> QED
    BY <2>1, <1>0, <1>1, NbiPcKeeps DEF NbiSend, extVars, TypeOK
<1>2. CASE NbiSendFails(r)
  <2>1. ItemsOk(items', applied)
    BY <1>0, <1>2, GoneOk DEF NbiSendFails
  <2>2. faults' \subseteq FaultKinds
    BY <1>0, <1>2, FaultType DEF NbiSendFails
  <2> QED
    BY <2>1, <2>2, <1>0, <1>2, NbiPcKeeps DEF NbiSendFails, extVars, TypeOK
<1>3. CASE NbiOld(r)
  BY <1>0, <1>3, NbiPcKeeps DEF NbiOld, extVars, TypeOK
<1> QED
  BY <1>1, <1>2, <1>3

\* Every step of NBI keeps the invariant.
LEMMA NbiStepKeeps ==
    ASSUME GitOpsInv, NEW r \in Request,
           NbiRequest(r) \/ NbiStep(r) \/ NbiSendFails(r)
    PROVE  GitOpsInv'
<1>1. CASE NbiRequest(r)
  <2>1. CASE \E i \in Item, kind \in Kinds : NbiNew(r, i, kind)
    BY <2>1, NbiNewKeeps
  <2>2. CASE \E k \in Ksu, with \in SUBSET Ksu, p \in Profile, a \in Oka :
               NbiMarkOka(r, k, with, p, a)
    BY <2>2, NbiMarkOkaKeeps
  <2>3. CASE \E kind \in Kinds, i \in Item, x \in Item \cup {NoItem},
               force \in BOOLEAN : NbiRead(r, kind, i, x, force)
    BY <2>3, NbiReadKeeps
  <2> QED
    BY <1>1, <2>1, <2>2, <2>3 DEF NbiRequest
<1>2. CASE NbiStep(r)
  BY <1>2, NbiNewKsusKeeps, NbiWriteKeeps, NbiDeleteKsuKeeps, NbiSendKeeps
     DEF NbiStep
<1>3. CASE NbiSendFails(r)
  BY <1>3, NbiSendKeeps
<1> QED
  BY <1>1, <1>2, <1>3

-----------------------------------------------------------------------------
(* The theorems                                                             *)

\* What earlier requests left is in order and shows none of the new requests.
LEMMA SettledHonest ==
    ASSUME NEW i \in Item, NEW I \in SUBSET Item,
           NEW L \in [Ksu \cap I -> (Profile \cap I) \X (Oka \cap I)], NEW S
    PROVE  Honest(Settled(i, L), S)
<1> DEFINE links == IF i \in Cluster THEN {Default[i]}
                    ELSE IF i \in DOMAIN L THEN {L[i][1], L[i][2]} ELSE {}
           used == \E k \in DOMAIN L : L[k][2] = i
           osm == i \in Cluster
<1>1. NoRecord \in ItemRec /\ Honest(NoRecord, S)
  BY NoRecordHonest DEF Honest
<1>2. links \in SUBSET Item
  <2>1. CASE i \in Cluster
    BY <2>1, DefaultInItem
  <2>2. CASE i \notin Cluster /\ i \in DOMAIN L
    <3>1. L[i] \in (Profile \cap I) \X (Oka \cap I)
      BY <2>2
    <3>2. L[i][1] \in Profile /\ L[i][2] \in Oka
      BY <3>1
    <3> QED
      BY <2>2, <3>2 DEF Item
  <2> QED
    BY <2>1, <2>2
<1>3. used \in BOOLEAN /\ osm \in BOOLEAN
  OBVIOUS
<1>4. Settled(i, L) =
        [NoRecord EXCEPT !.life = "there", !.state = "CREATED",
                         !.operating = "IDLE", !.resource = "READY",
                         !.created = osm, !.inUse = used, !.links = links]
  BY Zenon DEF Settled
<1> HIDE DEF links, used, osm
<1>5. Settled(i, L) \in ItemRec /\ Settled(i, L).hist = NoRecord.hist
  BY <1>1, <1>2, <1>3, <1>4 DEF ItemRec
<1> QED
  BY <1>1, <1>5, SameHistory

\* The invariant holds at the start.
LEMMA InitInv == Init => GitOpsInv
<1> SUFFICES ASSUME Init PROVE GitOpsInv
  OBVIOUS
<1>1. PICK I \in {{}, Item \ Ksu, Item} :
        \E L \in [Ksu \cap I -> (Profile \cap I) \X (Oka \cap I)] :
          /\ items = [i \in Item |-> IF i \in I THEN Settled(i, L)
                                               ELSE NoRecord]
          /\ old = [c \in Cluster |-> IF c \in I THEN "ENABLED" ELSE "none"]
          /\ repo = I
          /\ attached = [c \in Cluster |->
                            IF c \in I THEN {Default[c]} ELSE {}]
  BY DEF Init
<1>2. PICK L \in [Ksu \cap I -> (Profile \cap I) \X (Oka \cap I)] :
          items = [i \in Item |-> IF i \in I THEN Settled(i, L) ELSE NoRecord]
  BY <1>1, Zenon
<1>3. I \in SUBSET Item
  OBVIOUS
<1>4. ItemsOk(items, applied)
  BY <1>2, <1>3, SettledHonest, NoRecordHonest DEF ItemsOk, Honest
<1>5. ReposOk
  <2>1. attached \in [Cluster -> SUBSET Profile]
    BY <1>1, DefaultInItem
  <2>2. old \in [Cluster -> {"none", "PROCESSING", "ENABLED", "ERROR"}]
    BY <1>1
  <2> QED
    BY <1>1, <1>3, <2>1, <2>2 DEF ReposOk
<1>6. Honest(NoRecord, applied) /\ NoRecord \in ItemRec
  BY NoRecordHonest DEF Honest
<1>7. /\ NoTask \in TaskRec /\ NoTask.doc = NoRecord
      /\ NoTask.first = NoRecord /\ NoTask.pc = "none"
  BY <1>6 DEF NoTask, TaskRec
<1>8. NoReq.pc = "free" /\ NoReq.kind = "none"
  BY DEF NoReq
<1>9. /\ req = [r \in Request |-> NoReq] /\ task = [r \in Request |-> NoTask]
      /\ inbox = {} /\ late = {} /\ applied = {} /\ overlap = FALSE /\ faults = {}
  BY DEF Init
<1>10. TypeOK
  BY <1>4, <1>5, <1>7, <1>9, NoReqType DEF TypeOK, ItemsOk, ReposOk
<1>11. AllHonest
  BY <1>4, <1>6, <1>7, <1>9, NoReqType DEF AllHonest, ItemsOk
<1>12. Named
  BY <1>7, <1>8, <1>9 DEF Named, TaskIsLive
<1> QED
  BY <1>10, <1>11, <1>12 DEF GitOpsInv

\* Every step keeps the invariant.
LEMMA NextKeeps == GitOpsInv /\ [Next]_vars => GitOpsInv'
<1> SUFFICES ASSUME GitOpsInv, [Next]_vars PROVE GitOpsInv'
  OBVIOUS
<1>1. CASE \E r \in Request : \/ NbiRequest(r) \/ NbiStep(r) \/ NbiSendFails(r)
                             \/ Deliver(r) \/ LcmStep(r)
                             \/ CheckProgress(r) \/ LateEffect(r)
  BY <1>1, NbiStepKeeps, DeliverKeeps, LcmStepKeeps, CheckProgressKeeps,
     LateEffectKeeps
<1>2. CASE Crash
  BY <1>2, CrashKeeps
<1>3. CASE UNCHANGED vars
  BY <1>3 DEF vars, extVars, GitOpsInv, TypeOK, AllHonest, Named, TaskIsLive
<1> QED
  BY <1>1, <1>2, <1>3 DEF Next

\* Every record and every copy of one shows as COMPLETED only operations whose
\* workflow and resource check succeeded, and every request under way names its
\* record: what NBI and LCM write back can be wrong about others' operations
\* only by forgetting them.
THEOREM CopiesAreHonest == Spec => []GitOpsInv
<1>1. Init => GitOpsInv
  BY InitInv
<1>2. GitOpsInv /\ [Next]_vars => GitOpsInv'
  BY NextKeeps
<1> QED
  BY <1>1, <1>2, PTL DEF Spec

\* The types, whatever overlaps and fails.
THEOREM GitOpsTypes == Spec => []TypeOK
<1>1. GitOpsInv => TypeOK
  BY DEF GitOpsInv
<1> QED
  BY <1>1, CopiesAreHonest, PTL

\* An operation shown as COMPLETED is one whose workflow and resource check
\* succeeded, whatever overlaps, crashes or ends late.
THEOREM CompletedOperations == Spec => []CompletedIsApplied
<1>1. GitOpsInv => CompletedIsApplied
  BY DEF GitOpsInv, AllHonest, Honest, CompletedIsApplied
<1> QED
  BY <1>1, CopiesAreHonest, PTL
=============================================================================
