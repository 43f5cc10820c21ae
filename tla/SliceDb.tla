------------------------------ MODULE SliceDb ------------------------------
(***************************************************************************)
(* The records of network slices: netslice instances (nsis), their NSs     *)
(* (nsrs), slice operations (nsilcmops) and the NS operations they consist *)
(* of (nslcmops).                                                          *)
(*                                                                         *)
(* The template of every slice has two subnets: the first is shared with   *)
(* the other slices, the second is its own.  The NS of a slice's own       *)
(* subnet is written like the slice.  They are linked by one VLD.          *)
(***************************************************************************)
EXTENDS Naturals, FiniteSets

CONSTANTS
    Slice,         \* ids of netslice instances
    NoSlice,
    SharedNs,      \* ids of the NSs that shared subnets get
    MaxRequest,    \* bound on slice operations, in the order they are asked for
    Kinds,         \* the kinds of operation that clients ask for
    FaultKinds,    \* faults that may happen
    MaxFaults,     \* bound on the faults of one behaviour, each of its kind
    MaxEvents      \* bound on slice operations and faults together; the silence of
                   \* a slice operation counts for two

Request == 1 .. MaxRequest
NoRequest == 0
Nsr == Slice \cup SharedNs

ASSUME SliceAssumption ==
    /\ Slice \cap SharedNs = {} /\ NoSlice \notin Slice
    /\ MaxRequest \in Nat /\ MaxFaults \in Nat /\ MaxEvents \in Nat
    /\ Kinds \subseteq {"instantiate", "terminate"}
    /\ FaultKinds \subseteq {"nsFails", "late", "silent"}

VARIABLES
    nsi,       \* the netslice instances
    nsr,       \* nsr[r]: the record of NS r and its nsState
    nslcmop,   \* nslcmop[i, r]: the operation on NS r that request i created
    req,       \* the slice operations: the request at NBI, its record, the task
    handler,   \* handler[n]: NBI creates or removes slice n
    notices,   \* slices whose end, with autoremove, waits at the bus
    marks,     \* history: what happened that a careful client never sees
    faults     \* the faults so far: an NS operation fails, or is slower than
               \* somebody waits, or silent for as long as the wait looks back

vars == <<nsi, nsr, nslcmop, req, handler, notices, marks, faults>>

-----------------------------------------------------------------------------
(* Records                                                                  *)

OpFun == [Nsr -> Request \cup {NoRequest}]

\* list: the NSs of nsrs-detailed-list; uses: their nslcmop_instantiate, as the
\* request that created that operation; vld: shared-nsrs-list of the VLD.
SliceRec ==
    [life : {"new", "there", "gone"}, instantiated : BOOLEAN,
     shown : {"none", "init", "running", "failed", "terminating", "terminated"},
     list : SUBSET Nsr, uses : OpFun,
     vld : SUBSET Nsr]

NsStates == {"new", "idle", "instantiated", "gone"}

\* run: of the task; "no": nobody has started it.
NsOpRec ==
    [state : {"none", "PROCESSING", "COMPLETED", "FAILED"},
     run : {"no", "wait", "work", "over"}]

\* What a task reads of its slice, and writes back; and what the states of its
\* operations come to.
ReadRec ==
    [list : SUBSET Nsr, uses : OpFun, all : {"open", "COMPLETED", "FAILED"}]

\* ops: nslcmops_ids, for each NS the request that created the operation;
\* found: the operation that another slice uses; read: what the task will write
\* now; seen: what it has written last.
ReqRec ==
    [pc : {"free", "look", "act", "own", "sent", "poll", "write", "over"},
     slice : Slice \cup {NoSlice}, kind : {"instantiate", "terminate"},
     autoremove : BOOLEAN,
     state : {"none", "PROCESSING", "COMPLETED", "FAILED"},
     ops : OpFun, found : Request \cup {NoRequest},
     read : ReadRec, seen : SUBSET ReadRec]

HandlerRec ==
    [pc : {"idle", "new", "remove", "shared", "own"}, list : SUBSET Nsr]

NoUse == [r \in Nsr |-> NoRequest]
NoRead == [list |-> {}, uses |-> NoUse, all |-> "open"]
NoReq ==
    [pc |-> "free", slice |-> NoSlice, kind |-> "instantiate",
     autoremove |-> FALSE, state |-> "none", ops |-> NoUse,
     found |-> NoRequest, read |-> NoRead, seen |-> {}]
NewSlice ==
    [life |-> "new", instantiated |-> FALSE, shown |-> "none", list |-> {},
     uses |-> NoUse, vld |-> {}]
Idle == [pc |-> "idle", list |-> {}]

There(n) == nsi[n].life = "there"
Open(i) == req[i].pc \in {"look", "act", "own"}

TypeOK ==
    /\ nsi \in [Slice -> SliceRec]
    /\ nsr \in [Nsr -> NsStates]
    /\ nslcmop \in [Request \X Nsr -> NsOpRec]
    /\ req \in [Request -> ReqRec]
    /\ handler \in [Slice -> HandlerRec]
    /\ notices \subseteq Slice
    /\ marks \subseteq {"overlap", "refused", "overwritten", "busy",
                   "repeated", "together", "silent"}
    /\ faults \subseteq FaultKinds

Init ==
    /\ nsi = [n \in Slice |-> NewSlice]
    /\ nsr = [r \in Nsr |-> "new"]
    /\ nslcmop = [o \in Request \X Nsr |-> [state |-> "none", run |-> "no"]]
    /\ req = [i \in Request |-> NoReq]
    /\ handler = [n \in Slice |-> Idle]
    /\ notices = {} /\ marks = {} /\ faults = {}

-----------------------------------------------------------------------------
(* Steps shared by the handlers of NBI                                      *)

\* A thread of NBI works on slice n.
Handled(n) ==
    handler[n].pc # "idle" \/ \E i \in Request : Open(i) /\ req[i].slice = n

\* History: requests about two slices at a time.
Overlaps(n) ==
    IF \E m \in Slice \ {n} : Handled(m) THEN {"overlap"} ELSE {}

\* History: a slice is removed while an operation on it is under way, or an
\* operation is asked for again.
Live(n, kinds) ==
    \E i \in Request : /\ req[i].slice = n /\ req[i].kind \in kinds
                       /\ req[i].pc \in {"sent", "poll", "write"}
Busies(n) == IF Live(n, {"instantiate", "terminate"}) THEN {"busy"} ELSE {}
Repeats(n, kind) == IF Live(n, {kind}) THEN {"repeated"} ELSE {}
\* History: a request while another slice has an operation under way.
Together(n) ==
    IF \E m \in Slice \ {n} : Live(m, {"instantiate", "terminate"})
      THEN {"together"} ELSE {}

Events == Cardinality({i \in Request : req[i].pc # "free"}) + Cardinality(faults)

Fault(kind) ==
    /\ kind \in FaultKinds \ faults /\ Cardinality(faults) < MaxFaults
    /\ Events < MaxEvents
    /\ faults' = faults \cup {kind}
=============================================================================
