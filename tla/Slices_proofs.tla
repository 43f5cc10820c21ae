---------------------------- MODULE Slices_proofs ----------------------------
(***************************************************************************)
(* What holds of network slices for every number of slices, shared NSs,    *)
(* requests and faults.                                                    *)
(***************************************************************************)
EXTENDS Slices, FiniteSetTheorems, TLAPS

-----------------------------------------------------------------------------
(* Records                                                                  *)

LEMMA NoUseTyped == NoUse \in OpFun
BY DEF NoUse, OpFun

LEMMA NoReadTyped == NoRead \in ReadRec
BY NoUseTyped DEF NoRead, ReadRec

LEMMA NoReqTyped == NoReq \in ReqRec
BY NoUseTyped, NoReadTyped DEF NoReq, ReqRec

LEMMA NewSliceTyped == NewSlice \in SliceRec
BY NoUseTyped DEF NewSlice, SliceRec

LEMMA IdleTyped == Idle \in HandlerRec
BY DEF Idle, HandlerRec

LEMMA InitTyped == Init => TypeOK
BY NoReqTyped, NewSliceTyped, IdleTyped DEF Init, TypeOK, NsStates, NsOpRec

\* What a round of the poll reads is what a task may write.
LEMMA ReadNowTyped ==
    ASSUME TypeOK, NEW i \in Request, req[i].slice \in Slice
    PROVE  ReadNow(i) \in ReadRec
<1> DEFINE n == req[i].slice
           L == nsi[n].list \cap {o[2] : o \in OpsOf(i)}
           U == [r \in Nsr |-> IF r \in L THEN nsi[n].uses[r] ELSE NoRequest]
           A == IF ~AllEnded(i) THEN "open"
                ELSE IF AnyFailed(i) \/ \E r \in nsi[n].list : NoStatus(i, r)
                  THEN "FAILED" ELSE "COMPLETED"
<1>1. nsi[n] \in SliceRec
  BY DEF TypeOK
<1>2. nsi[n].list \in SUBSET Nsr /\ nsi[n].uses \in OpFun
  BY <1>1 DEF SliceRec
<1>3. L \in SUBSET Nsr
  BY <1>2
<1>4. U \in OpFun
  BY <1>2 DEF OpFun
<1>5. A \in {"open", "COMPLETED", "FAILED"}
  OBVIOUS
<1>6. ReadNow(i) = [list |-> L, uses |-> U, all |-> A]
  BY DEF ReadNow
<1> HIDE DEF L, U, A
<1> QED  BY <1>3, <1>4, <1>5, <1>6 DEF ReadRec

LEMMA OpsWithTyped ==
    ASSUME TypeOK, NEW i \in Request, NEW R
    PROVE  OpsWith(i, R) \in OpFun
<1>1. req[i].ops \in OpFun
  BY DEF TypeOK, ReqRec
<1> QED  BY <1>1 DEF OpsWith, OpFun

LEMMA FaultTyped ==
    ASSUME TypeOK, NEW kind, Fault(kind)
    PROVE  faults' \subseteq FaultKinds
BY DEF TypeOK, Fault

-----------------------------------------------------------------------------
(* Types                                                                    *)

\* A request that has been made is about a slice.
SliceKnown == \A i \in Request : req[i].pc # "free" => req[i].slice \in Slice

Typed == TypeOK /\ SliceKnown

LEMMA FindSharedTyped ==
    ASSUME Typed, NEW n \in Slice, FindShared(n)
    PROVE  Typed'
<1> USE DEF Typed, SliceKnown
<1>1. UNCHANGED <<nsi, nslcmop, req, notices, faults>>
  BY DEF FindShared
<1>2. nsr' \in [Nsr -> NsStates]
  BY DEF FindShared, TypeOK, NsStates
<1>3. handler' \in [Slice -> HandlerRec]
  <2>1. PICK s \in SharedNs :
            handler' = [handler EXCEPT ![n] = [pc |-> "new", list |-> {s, n}]]
    BY DEF FindShared
  <2>2. [pc |-> "new", list |-> {s, n}] \in HandlerRec
    BY DEF HandlerRec, Nsr
  <2> QED  BY <2>1, <2>2 DEF TypeOK
<1>4. marks' \subseteq {"overlap", "refused", "overwritten", "busy",
                        "repeated", "together", "silent"}
  BY DEF FindShared, TypeOK, Overlaps
<1> QED  BY <1>1, <1>2, <1>3, <1>4 DEF TypeOK

LEMMA CreateSliceTyped ==
    ASSUME Typed, NEW n \in Slice, CreateSlice(n)
    PROVE  Typed'
<1> USE DEF Typed, SliceKnown
<1>1. nsi' \in [Slice -> SliceRec]
  <2>1. handler[n].list \in SUBSET Nsr /\ nsi[n] \in SliceRec
    BY DEF TypeOK, HandlerRec
  <2>2. [nsi[n] EXCEPT !.life = "there", !.list = handler[n].list] \in SliceRec
    BY <2>1 DEF SliceRec
  <2>3. nsi' = [nsi EXCEPT ![n] = [nsi[n] EXCEPT !.life = "there",
                                                 !.list = handler[n].list]]
    BY DEF CreateSlice, TypeOK
  <2> QED  BY <2>2, <2>3 DEF TypeOK
<1>2. handler' \in [Slice -> HandlerRec]
  BY IdleTyped DEF CreateSlice, TypeOK
<1> QED  BY <1>1, <1>2 DEF TypeOK, CreateSlice

LEMMA CheckRemoveTyped ==
    ASSUME Typed, NEW n \in Slice, CheckRemove(n)
    PROVE  /\ handler' \in [Slice -> HandlerRec]
           /\ marks' \subseteq {"overlap", "refused", "overwritten", "busy",
                                "repeated", "together", "silent"}
<1>1. nsi[n].list \subseteq Nsr
  BY DEF Typed, TypeOK, SliceRec
<1>2. [pc |-> "remove", list |-> nsi[n].list] \in HandlerRec
  BY <1>1 DEF HandlerRec
<1> QED
  BY <1>2 DEF CheckRemove, Typed, TypeOK, Overlaps, Busies, Together

LEMMA RequestRemoveTyped ==
    ASSUME Typed, NEW n \in Slice, RequestRemove(n)
    PROVE  Typed'
<1>1. CheckRemove(n)
  BY DEF RequestRemove
<1> QED
  BY <1>1, CheckRemoveTyped DEF RequestRemove, Typed, TypeOK, SliceKnown

LEMMA AutoRemoveTyped ==
    ASSUME Typed, NEW n \in Slice, AutoRemove(n)
    PROVE  Typed'
<1>1. /\ handler' \in [Slice -> HandlerRec]
      /\ marks' \subseteq {"overlap", "refused", "overwritten", "busy",
                           "repeated", "together", "silent"}
  <2>1. CASE CheckRemove(n)
    BY <2>1, CheckRemoveTyped
  <2>2. CASE UNCHANGED <<handler, marks>>
    BY <2>2 DEF Typed, TypeOK
  <2> QED  BY <2>1, <2>2 DEF AutoRemove
<1> QED  BY <1>1 DEF AutoRemove, Typed, TypeOK, SliceKnown

LEMMA RemoveRecordTyped ==
    ASSUME Typed, NEW n \in Slice, RemoveRecord(n)
    PROVE  Typed'
<1> USE DEF Typed, SliceKnown
<1>1. [NewSlice EXCEPT !.life = "gone"] \in SliceRec
  BY NewSliceTyped DEF SliceRec
<1>2. nsi' \in [Slice -> SliceRec]
  BY <1>1 DEF RemoveRecord, TypeOK
<1>3. handler' \in [Slice -> HandlerRec]
  BY DEF RemoveRecord, TypeOK, HandlerRec
<1> QED  BY <1>2, <1>3 DEF TypeOK, RemoveRecord

LEMMA DeletesTyped ==
    ASSUME Typed, NEW R, Deletes(R)
    PROVE  nsr' \in [Nsr -> NsStates] /\ nslcmop' \in [Request \X Nsr -> NsOpRec]
<1>1. nsr' \in [Nsr -> NsStates]
  BY DEF Deletes, Typed, TypeOK, NsStates
<1>2. \A o \in Request \X Nsr : [nslcmop[o] EXCEPT !.state = "none"] \in NsOpRec
  BY DEF Typed, TypeOK, NsOpRec
<1>3. nslcmop' \in [Request \X Nsr -> NsOpRec]
  BY <1>2 DEF Deletes, Typed, TypeOK
<1> QED  BY <1>1, <1>3

LEMMA RemoveSharedTyped ==
    ASSUME Typed, NEW n \in Slice, RemoveShared(n)
    PROVE  Typed'
<1>1. handler' \in [Slice -> HandlerRec]
  BY IdleTyped DEF RemoveShared, Typed, TypeOK, HandlerRec
<1>2. nsr' \in [Nsr -> NsStates] /\ nslcmop' \in [Request \X Nsr -> NsOpRec]
  <2>1. CASE UNCHANGED <<nsr, nslcmop>>
    BY <2>1 DEF Typed, TypeOK
  <2>2. CASE \E s \in SharedNs : Deletes(IF KeepShared(n, s) THEN {} ELSE {s})
    BY <2>2, DeletesTyped
  <2> QED  BY <2>1, <2>2 DEF RemoveShared, Shared
<1> QED  BY <1>1, <1>2 DEF RemoveShared, Typed, TypeOK, SliceKnown

LEMMA RemoveOwnTyped ==
    ASSUME Typed, NEW n \in Slice, RemoveOwn(n)
    PROVE  Typed'
<1>1. handler' \in [Slice -> HandlerRec]
  BY IdleTyped DEF RemoveOwn, Typed, TypeOK
<1>2. /\ nsr' \in [Nsr -> NsStates] /\ nslcmop' \in [Request \X Nsr -> NsOpRec]
      /\ req' \in [Request -> ReqRec] /\ SliceKnown'
  <2>1. CASE UNCHANGED <<nsr, nslcmop, req>>
    BY <2>1 DEF Typed, TypeOK, SliceKnown
  <2>2. CASE /\ Deletes({n} \cap handler[n].list)
             /\ req' = [i \in Request |->
                           IF req[i].slice = n
                             THEN [req[i] EXCEPT !.state = "none"] ELSE req[i]]
    <3>1. \A i \in Request : [req[i] EXCEPT !.state = "none"] \in ReqRec
      <4> SUFFICES ASSUME NEW i \in Request
                   PROVE  [req[i] EXCEPT !.state = "none"] \in ReqRec
        OBVIOUS
      <4>1. req[i] \in ReqRec
        BY DEF Typed, TypeOK
      <4> QED  BY <4>1 DEF ReqRec
    <3>2. req' \in [Request -> ReqRec]
      BY <2>2, <3>1 DEF Typed, TypeOK
    <3>3. \A i \in Request : /\ req'[i].pc = req[i].pc
                             /\ req'[i].slice = req[i].slice
      <4> SUFFICES ASSUME NEW i \in Request
                   PROVE  req'[i].pc = req[i].pc /\ req'[i].slice = req[i].slice
        OBVIOUS
      <4>1. req'[i] = IF req[i].slice = n
                        THEN [req[i] EXCEPT !.state = "none"] ELSE req[i]
        BY <2>2
      <4>2. req[i] \in ReqRec
        BY DEF Typed, TypeOK
      <4> QED  BY <4>1, <4>2 DEF ReqRec
    <3> QED  BY <2>2, <3>2, <3>3, DeletesTyped DEF Typed, SliceKnown
  <2> QED  BY <2>1, <2>2 DEF RemoveOwn
<1> QED  BY <1>1, <1>2 DEF RemoveOwn, Typed, TypeOK

\* A request that changes keeps its types.
LEMMA ReqAtTyped ==
    ASSUME Typed, NEW i \in Request, NEW q \in ReqRec, q.slice \in Slice,
           req' = [req EXCEPT ![i] = q]
    PROVE  req' \in [Request -> ReqRec] /\ SliceKnown'
BY DEF Typed, TypeOK, SliceKnown

LEMMA AskTyped ==
    ASSUME Typed, NEW i \in Request, NEW n \in Slice, NEW kind \in Kinds,
           NEW auto \in BOOLEAN, Ask(i, n, kind, auto)
    PROVE  Typed'
<1> DEFINE pc == IF Shared(nsi[n].list) # {} THEN "look" ELSE "own"
           read == [NoRead EXCEPT !.list = nsi[n].list]
           q == [NoReq EXCEPT !.slice = n, !.kind = kind, !.autoremove = auto,
                              !.read = read, !.pc = pc]
<1>1. read \in ReadRec
  BY NoReadTyped DEF Typed, TypeOK, SliceRec, ReadRec
<1>2. kind \in {"instantiate", "terminate"} /\ pc \in {"look", "own"}
  BY SliceAssumption
<1> HIDE DEF read, pc
<1>3. q \in ReqRec
  BY <1>1, <1>2, NoReqTyped DEF ReqRec
<1>4. q.slice = n
  BY NoReqTyped DEF ReqRec
<1>5. req' = [req EXCEPT ![i] = q]
  BY DEF Ask, NoReq, read, pc
<1> HIDE DEF q
<1>6. req' \in [Request -> ReqRec] /\ SliceKnown'
  BY <1>3, <1>4, <1>5, ReqAtTyped
<1>7. marks' \subseteq {"overlap", "refused", "overwritten", "busy",
                        "repeated", "together", "silent"}
  BY DEF Ask, Typed, TypeOK, Overlaps, Repeats, Together
<1> QED  BY <1>6, <1>7 DEF Ask, Typed, TypeOK

LEMMA LookSharedTyped ==
    ASSUME Typed, NEW i \in Request, LookShared(i)
    PROVE  Typed'
<1>1. PICK f : /\ req' = [req EXCEPT ![i].pc = "act", ![i].found = f]
               /\ f \in Request \cup {NoRequest}
  <2>1. PICK s \in Shared(req[i].read.list) :
           LET uses == {nsi[m].uses[s] :
                          m \in OthersListing(req[i].slice, s)} \ {NoRequest}
           IN \E f \in (IF uses = {} THEN {NoRequest} ELSE uses) :
                  req' = [req EXCEPT ![i].pc = "act", ![i].found = f]
    BY DEF LookShared
  <2>2. \A m \in OthersListing(req[i].slice, s) :
            nsi[m].uses[s] \in Request \cup {NoRequest}
    <3> SUFFICES ASSUME NEW m \in OthersListing(req[i].slice, s)
                 PROVE  nsi[m].uses[s] \in Request \cup {NoRequest}
      OBVIOUS
    <3>1. nsi[m] \in SliceRec
      BY DEF OthersListing, Typed, TypeOK
    <3>2. nsi[m].uses \in OpFun
      BY <3>1 DEF SliceRec
    <3> QED  BY <3>2 DEF OpFun, Shared, Nsr
  <2> QED  BY <2>1, <2>2
<1> DEFINE q == [req[i] EXCEPT !.pc = "act", !.found = f]
<1>2. req[i] \in ReqRec /\ req[i].slice \in Slice
  BY DEF LookShared, Typed, TypeOK, SliceKnown
<1>3. q \in ReqRec /\ q.slice \in Slice
  BY <1>1, <1>2 DEF ReqRec
<1>4. req' = [req EXCEPT ![i] = q]
  BY <1>1 DEF Typed, TypeOK
<1> HIDE DEF q
<1> QED  BY <1>3, <1>4, ReqAtTyped DEF LookShared, Typed, TypeOK

\* What a request and its operations become when it is refused.
LEMMA RefuseTyped ==
    ASSUME Typed, NEW i \in Request, Refuse(i), req[i].pc # "free"
    PROVE  /\ req' \in [Request -> ReqRec] /\ SliceKnown'
           /\ nslcmop' \in [Request \X Nsr -> NsOpRec]
<1> DEFINE q == [req[i] EXCEPT !.pc = "over", !.ops = NoUse]
<1>1. req[i] \in ReqRec /\ req[i].slice \in Slice
  BY DEF Typed, TypeOK, SliceKnown
<1>2. q \in ReqRec /\ q.slice \in Slice
  BY <1>1, NoUseTyped DEF ReqRec
<1>3. req' = [req EXCEPT ![i] = q]
  BY DEF Refuse, Typed, TypeOK
<1>4. \A o \in Request \X Nsr : [nslcmop[o] EXCEPT !.state = "none"] \in NsOpRec
  BY DEF Typed, TypeOK, NsOpRec
<1>5. nslcmop' \in [Request \X Nsr -> NsOpRec]
  BY <1>4 DEF Refuse, Typed, TypeOK
<1> HIDE DEF q
<1> QED  BY <1>2, <1>3, <1>5, ReqAtTyped

LEMMA CreatesTyped ==
    ASSUME Typed, NEW i \in Request, NEW R, Creates(i, R)
    PROVE  nslcmop' \in [Request \X Nsr -> NsOpRec]
<1>1. [state |-> "PROCESSING", run |-> "no"] \in NsOpRec
  BY DEF NsOpRec
<1> QED  BY <1>1 DEF Creates, Typed, TypeOK

\* What the two kinds of request do to a slice.
LEMMA SliceAtTyped ==
    ASSUME Typed, NEW n \in Slice, NEW a \in SliceRec,
           nsi' = [nsi EXCEPT ![n] = a]
    PROVE  nsi' \in [Slice -> SliceRec]
BY DEF Typed, TypeOK

LEMMA ShareInstantiateTyped ==
    ASSUME Typed, NEW i \in Request, req[i].pc = "act",
           NEW s \in SharedNs, ShareInstantiate(i, s)
    PROVE  /\ nsi' \in [Slice -> SliceRec]
           /\ req' \in [Request -> ReqRec] /\ SliceKnown'
           /\ nslcmop' \in [Request \X Nsr -> NsOpRec]
<1> DEFINE n == req[i].slice
           conflict == req[i].found = NoRequest /\ Conflict(i, s)
           created == req[i].found = NoRequest /\ ~conflict /\ nsr[s] = "idle"
           uses == IF created THEN i ELSE req[i].found
           used == IF uses # NoRequest THEN uses ELSE nsi[n].uses[s]
           q == [req[i] EXCEPT !.pc = "own",
                               !.ops = [req[i].ops EXCEPT ![s] = uses]]
           a == [nsi[n] EXCEPT !.vld = nsi[n].vld \cup {s},
                               !.uses = [nsi[n].uses EXCEPT ![s] = used]]
<1>1. req[i] \in ReqRec /\ n \in Slice /\ nsi[n] \in SliceRec
  BY DEF Typed, TypeOK, SliceKnown
<1>2. s \in Nsr
  BY DEF Nsr
<1>3. uses \in Request \cup {NoRequest}
  BY <1>1 DEF ReqRec
<1>4. req[i].ops \in OpFun /\ nsi[n].uses \in OpFun /\ nsi[n].vld \subseteq Nsr
  BY <1>1 DEF ReqRec, SliceRec
<1>5. nsi' = [nsi EXCEPT ![n] = a]
  <2>1. nsi' = [nsi EXCEPT ![n].vld = @ \cup {s},
                           ![n].uses[s] = IF uses # NoRequest THEN uses
                                                              ELSE @]
    BY DEF ShareInstantiate
  <2>2. nsi \in [Slice -> SliceRec]
    BY DEF Typed, TypeOK
  <2> HIDE DEF uses
  <2> QED  BY <1>1, <2>1, <2>2 DEF SliceRec
<1>6. \/ Refuse(i)
      \/ /\ req' = [req EXCEPT ![i] = q]
         /\ \E R : Creates(i, R)
  <2>1. \/ Refuse(i)
        \/ /\ req' = [req EXCEPT ![i].pc = "own", ![i].ops[s] = uses]
           /\ \E R : Creates(i, R)
    BY DEF ShareInstantiate
  <2>2. req \in [Request -> ReqRec]
    BY DEF Typed, TypeOK
  <2> HIDE DEF uses
  <2> QED  BY <1>1, <2>1, <2>2 DEF ReqRec
<1> HIDE DEF uses
<1>7. [req[i].ops EXCEPT ![s] = uses] \in OpFun
  BY <1>2, <1>3, <1>4 DEF OpFun
<1>8. [nsi[n].uses EXCEPT ![s] = used] \in OpFun
  BY <1>2, <1>3, <1>4 DEF OpFun
<1>9. q \in ReqRec /\ q.slice \in Slice
  BY <1>1, <1>7 DEF ReqRec
<1>10. a \in SliceRec
  <2>1. nsi[n].vld \cup {s} \in SUBSET Nsr
    BY <1>2, <1>4
  <2> QED  BY <1>1, <1>8, <2>1 DEF SliceRec
<1> HIDE DEF q, a
<1>11. nsi' \in [Slice -> SliceRec]
  BY <1>1, <1>5, <1>10, SliceAtTyped
<1>12. CASE Refuse(i)
  BY <1>11, <1>12, RefuseTyped
<1>13. CASE /\ req' = [req EXCEPT ![i] = q]
            /\ \E R : Creates(i, R)
  BY <1>9, <1>11, <1>13, ReqAtTyped, CreatesTyped
<1> QED  BY <1>6, <1>12, <1>13

LEMMA ShareTerminateTyped ==
    ASSUME Typed, NEW i \in Request, req[i].pc = "act",
           NEW s \in SharedNs, ShareTerminate(i, s)
    PROVE  /\ nsi' \in [Slice -> SliceRec]
           /\ req' \in [Request -> ReqRec] /\ SliceKnown'
           /\ nslcmop' \in [Request \X Nsr -> NsOpRec]
<1> DEFINE n == req[i].slice
           R == IF Keeps(i) THEN {} ELSE {s}
           q == [req[i] EXCEPT !.pc = "own", !.ops = OpsWith(i, R)]
           a == [nsi[n] EXCEPT
                   !.uses = [nsi[n].uses EXCEPT ![s] = NoRequest]]
<1>1. req[i] \in ReqRec /\ n \in Slice /\ nsi[n] \in SliceRec
  BY DEF Typed, TypeOK, SliceKnown
<1>2. s \in Nsr
  BY DEF Nsr
<1>3. OpsWith(i, R) \in OpFun /\ nsi[n].uses \in OpFun
  BY <1>1, OpsWithTyped DEF SliceRec, Typed
<1>4. nsi' = [nsi EXCEPT ![n] = a]
  <2>1. nsi' = [nsi EXCEPT ![n].uses[s] = NoRequest]
    BY DEF ShareTerminate
  <2>2. nsi \in [Slice -> SliceRec]
    BY DEF Typed, TypeOK
  <2> QED  BY <1>1, <2>1, <2>2 DEF SliceRec
<1>5. \/ Refuse(i)
      \/ req' = [req EXCEPT ![i] = q] /\ Creates(i, R)
  <2>1. \/ Refuse(i)
        \/ /\ req' = [req EXCEPT ![i].pc = "own", ![i].ops = OpsWith(i, R)]
           /\ Creates(i, R)
    BY DEF ShareTerminate
  <2>2. req \in [Request -> ReqRec]
    BY DEF Typed, TypeOK
  <2> HIDE DEF R
  <2> QED  BY <1>1, <2>1, <2>2 DEF ReqRec
<1> HIDE DEF R
<1>6. q \in ReqRec /\ q.slice \in Slice
  BY <1>1, <1>3 DEF ReqRec
<1>7. a \in SliceRec
  <2>1. [nsi[n].uses EXCEPT ![s] = NoRequest] \in OpFun
    BY <1>2, <1>3 DEF OpFun
  <2> QED  BY <1>1, <2>1 DEF SliceRec
<1> HIDE DEF q, a
<1>8. nsi' \in [Slice -> SliceRec]
  BY <1>1, <1>4, <1>7, SliceAtTyped
<1>9. CASE Refuse(i)
  BY <1>8, <1>9, RefuseTyped
<1>10. CASE req' = [req EXCEPT ![i] = q] /\ Creates(i, R)
  BY <1>6, <1>8, <1>10, ReqAtTyped, CreatesTyped
<1> QED  BY <1>5, <1>9, <1>10

LEMMA ActSharedTyped ==
    ASSUME Typed, NEW i \in Request, ActShared(i)
    PROVE  Typed'
<1>1. req[i].pc = "act"
  BY DEF ActShared
<1>2. PICK s \in SharedNs : ShareInstantiate(i, s) \/ ShareTerminate(i, s)
  BY DEF ActShared, Shared
<1>3. /\ nsi' \in [Slice -> SliceRec]
      /\ req' \in [Request -> ReqRec] /\ SliceKnown'
      /\ nslcmop' \in [Request \X Nsr -> NsOpRec]
  BY <1>1, <1>2, ShareInstantiateTyped, ShareTerminateTyped
<1>4. marks' \subseteq marks \cup {"refused"}
  BY <1>2 DEF ShareInstantiate, ShareTerminate
<1>5. UNCHANGED <<nsr, handler, notices, faults>>
  BY DEF ActShared
<1> QED  BY <1>3, <1>4, <1>5 DEF Typed, TypeOK

LEMMA ActOwnTyped ==
    ASSUME Typed, NEW i \in Request, ActOwn(i)
    PROVE  Typed'
<1> DEFINE R == {req[i].slice} \cap req[i].read.list
           q == [req[i] EXCEPT !.pc = "sent", !.state = "PROCESSING",
                               !.read = NoRead, !.found = NoRequest,
                               !.ops = OpsWith(i, R)]
<1>1. req[i].pc = "own"
  BY DEF ActOwn
<1>2. req[i] \in ReqRec /\ req[i].slice \in Slice
  BY <1>1 DEF Typed, TypeOK, SliceKnown
<1>3. OpsWith(i, R) \in OpFun
  BY OpsWithTyped DEF Typed
<1>4. marks' \subseteq marks \cup {"refused"}
  BY DEF ActOwn
<1>5. UNCHANGED <<nsi, nsr, handler, notices, faults>>
  BY DEF ActOwn
<1>6. \/ Refuse(i)
      \/ Creates(i, R) /\ req' = [req EXCEPT ![i] = q]
  <2>1. \/ Refuse(i)
        \/ /\ Creates(i, R)
           /\ req' = [req EXCEPT ![i].pc = "sent", ![i].state = "PROCESSING",
                                 ![i].read = NoRead, ![i].found = NoRequest,
                                 ![i].ops = OpsWith(i, R)]
    BY DEF ActOwn
  <2>2. req \in [Request -> ReqRec]
    BY DEF Typed, TypeOK
  <2> HIDE DEF R
  <2> QED  BY <1>2, <2>1, <2>2 DEF ReqRec
<1> HIDE DEF R
<1>7. q \in ReqRec /\ q.slice \in Slice
  BY <1>2, <1>3, NoReadTyped DEF ReqRec
<1> HIDE DEF q
<1>8. /\ req' \in [Request -> ReqRec] /\ SliceKnown'
      /\ nslcmop' \in [Request \X Nsr -> NsOpRec]
  <2>1. CASE Refuse(i)
    BY <1>1, <2>1, RefuseTyped
  <2>2. CASE Creates(i, R) /\ req' = [req EXCEPT ![i] = q]
    BY <1>7, <2>2, ReqAtTyped, CreatesTyped
  <2> QED  BY <1>6, <2>1, <2>2
<1> QED  BY <1>4, <1>5, <1>8 DEF Typed, TypeOK

-----------------------------------------------------------------------------
(* Types, LCM's side                                                        *)

LEMMA EndsTyped ==
    ASSUME Typed, NEW i \in Request, req[i].pc # "free",
           NEW state \in {"COMPLETED", "FAILED"}, NEW a \in SliceRec,
           Ends(i, state, a)
    PROVE  /\ nsi' \in [Slice -> SliceRec]
           /\ req' \in [Request -> ReqRec] /\ SliceKnown'
<1> DEFINE q == [req[i] EXCEPT !.pc = "over", !.read = NoRead, !.seen = {},
                               !.state = IF req[i].state = "none"
                                           THEN req[i].state ELSE state]
<1>1. req[i] \in ReqRec /\ req[i].slice \in Slice
  BY DEF Typed, TypeOK, SliceKnown
<1>2. q \in ReqRec /\ q.slice \in Slice
  BY <1>1, NoReadTyped DEF ReqRec
<1>3. req' = [req EXCEPT ![i] = q]
  BY DEF Ends, Typed, TypeOK
<1> HIDE DEF q
<1>4. nsi' \in [Slice -> SliceRec]
  BY <1>1 DEF Ends, Typed, TypeOK
<1> QED  BY <1>2, <1>3, <1>4, ReqAtTyped

LEMMA FailsTyped ==
    ASSUME Typed, NEW i \in Request, req[i].pc # "free", Fails(i)
    PROVE  /\ nsi' \in [Slice -> SliceRec]
           /\ req' \in [Request -> ReqRec] /\ SliceKnown'
<1> DEFINE a == [nsi[req[i].slice] EXCEPT !.shown = "failed"]
<1>1. nsi[req[i].slice] \in SliceRec
  BY DEF Typed, TypeOK, SliceKnown
<1>2. a \in SliceRec
  BY <1>1 DEF SliceRec
<1>3. Ends(i, "FAILED", a)
  BY DEF Fails
<1> HIDE DEF a
<1> QED  BY <1>2, <1>3, EndsTyped

LEMMA LaunchesTyped ==
    ASSUME Typed, NEW O, Launches(O)
    PROVE  nslcmop' \in [Request \X Nsr -> NsOpRec]
<1>1. \A o \in Request \X Nsr : [nslcmop[o] EXCEPT !.run = "wait"] \in NsOpRec
  BY DEF Typed, TypeOK, NsOpRec
<1> QED  BY <1>1 DEF Launches, Typed, TypeOK

LEMMA StartInstantiateTyped ==
    ASSUME Typed, NEW i \in Request, req[i].pc = "sent", StartInstantiate(i)
    PROVE  /\ nsi' \in [Slice -> SliceRec]
           /\ req' \in [Request -> ReqRec] /\ SliceKnown'
           /\ nslcmop' \in [Request \X Nsr -> NsOpRec]
<1> DEFINE n == req[i].slice
           started == [nsi[n] EXCEPT !.instantiated = TRUE, !.shown = "init"]
           failed == [started EXCEPT !.shown = "failed"]
           now == ReadNow(i)
           q == [req[i] EXCEPT !.pc = "write", !.read = now]
<1>1. req[i] \in ReqRec /\ n \in Slice /\ nsi[n] \in SliceRec
  BY DEF Typed, TypeOK, SliceKnown
<1>2. started \in SliceRec /\ failed \in SliceRec
  BY <1>1 DEF SliceRec
<1>3. now \in ReadRec
  BY <1>1, ReadNowTyped DEF Typed
<1>4. \/ Ends(i, "FAILED", failed) /\ UNCHANGED nslcmop
      \/ /\ nsi' = [nsi EXCEPT ![n] = started]
         /\ req' = [req EXCEPT ![i].pc = "write", ![i].read = now]
         /\ Launches(OpsOf(i))
  BY DEF StartInstantiate
<1> HIDE DEF started, failed, now
<1>5. q \in ReqRec /\ q.slice \in Slice
  BY <1>1, <1>3 DEF ReqRec
<1>6. CASE Ends(i, "FAILED", failed) /\ UNCHANGED nslcmop
  <2>1. nslcmop' \in [Request \X Nsr -> NsOpRec]
    BY <1>6 DEF Typed, TypeOK
  <2> QED  BY <1>2, <1>6, <2>1, EndsTyped
<1>7. CASE /\ nsi' = [nsi EXCEPT ![n] = started]
           /\ req' = [req EXCEPT ![i].pc = "write", ![i].read = now]
           /\ Launches(OpsOf(i))
  <2>1. req' = [req EXCEPT ![i] = q]
    BY <1>1, <1>7 DEF Typed, TypeOK
  <2> HIDE DEF q
  <2>2. req' \in [Request -> ReqRec] /\ SliceKnown'
    BY <1>5, <2>1, ReqAtTyped
  <2> QED  BY <1>1, <1>2, <1>7, <2>2, LaunchesTyped, SliceAtTyped
<1> QED  BY <1>4, <1>6, <1>7

LEMMA StartTerminateTyped ==
    ASSUME Typed, NEW i \in Request, req[i].pc = "sent", StartTerminate(i)
    PROVE  /\ nsi' \in [Slice -> SliceRec]
           /\ req' \in [Request -> ReqRec] /\ SliceKnown'
           /\ nslcmop' \in [Request \X Nsr -> NsOpRec]
<1> DEFINE n == req[i].slice
           begun == [nsi[n] EXCEPT !.shown = "terminating"]
           now == ReadNow(i)
           q == [req[i] EXCEPT !.pc = "write", !.read = now]
           over == [req[i] EXCEPT !.pc = "over"]
<1>1. req[i] \in ReqRec /\ n \in Slice /\ nsi[n] \in SliceRec
  BY DEF Typed, TypeOK, SliceKnown
<1>2. begun \in SliceRec
  BY <1>1 DEF SliceRec
<1>3. now \in ReadRec
  BY <1>1, ReadNowTyped DEF Typed
<1>4. \/ req' = [req EXCEPT ![i].pc = "over"] /\ UNCHANGED <<nsi, nslcmop>>
      \/ Fails(i) /\ UNCHANGED nslcmop
      \/ /\ nsi' = [nsi EXCEPT ![n] = begun]
         /\ req' = [req EXCEPT ![i].pc = "write", ![i].read = now]
         /\ Launches(Terminable(i))
  <2>1. nsi' = [nsi EXCEPT ![n].shown = "terminating"]
            => nsi' = [nsi EXCEPT ![n] = begun]
    BY <1>1 DEF Typed, TypeOK
  <2> QED  BY <2>1 DEF StartTerminate
<1> HIDE DEF begun, now
<1>5. q \in ReqRec /\ q.slice \in Slice
  BY <1>1, <1>3 DEF ReqRec
<1>6. over \in ReqRec /\ over.slice \in Slice
  BY <1>1 DEF ReqRec
<1>7. CASE req' = [req EXCEPT ![i].pc = "over"] /\ UNCHANGED <<nsi, nslcmop>>
  <2>1. req' = [req EXCEPT ![i] = over]
    BY <1>1, <1>7 DEF Typed, TypeOK
  <2> HIDE DEF over
  <2> QED  BY <1>6, <1>7, <2>1, ReqAtTyped DEF Typed, TypeOK
<1>8. CASE Fails(i) /\ UNCHANGED nslcmop
  <2>1. nslcmop' \in [Request \X Nsr -> NsOpRec]
    BY <1>8 DEF Typed, TypeOK
  <2> QED  BY <1>8, <2>1, FailsTyped
<1>9. CASE /\ nsi' = [nsi EXCEPT ![n] = begun]
           /\ req' = [req EXCEPT ![i].pc = "write", ![i].read = now]
           /\ Launches(Terminable(i))
  <2>1. req' = [req EXCEPT ![i] = q]
    BY <1>1, <1>9 DEF Typed, TypeOK
  <2> HIDE DEF q
  <2>2. req' \in [Request -> ReqRec] /\ SliceKnown'
    BY <1>5, <2>1, ReqAtTyped
  <2> QED  BY <1>1, <1>2, <1>9, <2>2, LaunchesTyped, SliceAtTyped
<1> QED  BY <1>4, <1>7, <1>8, <1>9

\* A task that ends and writes nothing.
LEMMA OverTyped ==
    ASSUME Typed, NEW i \in Request, req[i].pc # "free",
           req' = [req EXCEPT ![i].pc = "over"]
    PROVE  req' \in [Request -> ReqRec] /\ SliceKnown'
<1> DEFINE over == [req[i] EXCEPT !.pc = "over"]
<1>1. req[i] \in ReqRec /\ req[i].slice \in Slice
  BY DEF Typed, TypeOK, SliceKnown
<1>2. over \in ReqRec /\ over.slice \in Slice
  BY <1>1 DEF ReqRec
<1>3. req' = [req EXCEPT ![i] = over]
  BY DEF Typed, TypeOK
<1> HIDE DEF over
<1> QED  BY <1>2, <1>3, ReqAtTyped

LEMMA StartTyped ==
    ASSUME Typed, NEW i \in Request, Start(i) \/ StartBeside(i)
    PROVE  Typed'
<1>1. /\ req[i].pc = "sent" /\ UNCHANGED <<nsr, handler, notices>>
      /\ marks' \subseteq marks \cup {"silent"}
      /\ Fault("silent") \/ UNCHANGED faults
      /\ StartInstantiate(i) \/ StartTerminate(i) \/ StartNothing(i)
  BY DEF Start, StartBeside
<1>2. /\ nsi' \in [Slice -> SliceRec]
      /\ req' \in [Request -> ReqRec] /\ SliceKnown'
      /\ nslcmop' \in [Request \X Nsr -> NsOpRec]
  <2>1. CASE StartInstantiate(i)
    BY <1>1, <2>1, StartInstantiateTyped
  <2>2. CASE StartTerminate(i)
    BY <1>1, <2>2, StartTerminateTyped
  <2>3. CASE StartNothing(i)
    <3>1. req' = [req EXCEPT ![i].pc = "over"] /\ UNCHANGED <<nsi, nslcmop>>
      BY <2>3 DEF StartNothing
    <3> QED  BY <1>1, <3>1, OverTyped DEF Typed, TypeOK
  <2> QED  BY <1>1, <2>1, <2>2, <2>3
<1>3. faults' \subseteq FaultKinds
  BY <1>1, FaultTyped DEF Typed, TypeOK
<1> QED  BY <1>1, <1>2, <1>3 DEF Typed, TypeOK

LEMMA GiveUpTyped ==
    ASSUME Typed, NEW i \in Request, GiveUp(i)
    PROVE  Typed'
<1>1. /\ req[i].pc = "sent" /\ req' = [req EXCEPT ![i].pc = "over"]
      /\ UNCHANGED <<nsi, nsr, nslcmop, handler, notices, marks>>
      /\ Fault("late") \/ UNCHANGED faults
  BY DEF GiveUp
<1>2. faults' \subseteq FaultKinds
  BY <1>1, FaultTyped DEF Typed, TypeOK
<1> QED  BY <1>1, <1>2, OverTyped DEF Typed, TypeOK

LEMMA PollTyped ==
    ASSUME Typed, NEW i \in Request, Poll(i)
    PROVE  Typed'
<1>1. /\ req[i].pc = "poll"
      /\ UNCHANGED <<nsr, nslcmop, handler, notices, marks, faults>>
  BY DEF Poll
<1>2. CASE Fails(i)
  BY <1>1, <1>2, FailsTyped DEF Typed, TypeOK
<1>3. CASE /\ req' = [req EXCEPT ![i].pc = "write", ![i].read = ReadNow(i)]
           /\ UNCHANGED nsi
  <2> DEFINE now == ReadNow(i)
             q == [req[i] EXCEPT !.pc = "write", !.read = now]
  <2>1. req[i] \in ReqRec /\ req[i].slice \in Slice
    BY <1>1 DEF Typed, TypeOK, SliceKnown
  <2>2. now \in ReadRec
    BY <2>1, ReadNowTyped DEF Typed
  <2> HIDE DEF now
  <2>3. q \in ReqRec /\ q.slice \in Slice
    BY <2>1, <2>2 DEF ReqRec
  <2>4. req' = [req EXCEPT ![i] = q]
    BY <1>3 DEF Typed, TypeOK, now
  <2> HIDE DEF q
  <2> QED  BY <1>1, <1>3, <2>3, <2>4, ReqAtTyped DEF Typed, TypeOK
<1> QED  BY <1>2, <1>3 DEF Poll

LEMMA WriteTyped ==
    ASSUME Typed, NEW i \in Request, Write(i)
    PROVE  Typed'
<1> DEFINE n == req[i].slice
           read == req[i].read
           written == [nsi[n] EXCEPT !.list = read.list, !.uses = read.uses]
           failed == [written EXCEPT !.shown = "failed"]
           done == [written EXCEPT !.instantiated = FALSE,
                                   !.shown = "terminated"]
           running == [written EXCEPT !.shown = "running"]
           q == [req[i] EXCEPT !.pc = "poll", !.read = NoRead, !.seen = {read}]
<1>1. req[i] \in ReqRec /\ n \in Slice /\ nsi[n] \in SliceRec
  BY DEF Write, Typed, TypeOK, SliceKnown
<1>2. read \in ReadRec
  BY <1>1 DEF ReqRec
<1>3. written \in SliceRec
  BY <1>1, <1>2 DEF SliceRec, ReadRec
<1>4. req[i].pc = "write" /\ UNCHANGED <<nsr, nslcmop, handler, faults>>
  BY DEF Write
<1>5. marks' \subseteq marks \cup {"overwritten"}
  BY DEF Write
<1>6. \/ Fails(i) /\ UNCHANGED notices
      \/ /\ nsi' = [nsi EXCEPT ![n] = written]
         /\ req' = [req EXCEPT ![i].pc = "poll", ![i].read = NoRead,
                               ![i].seen = {read}]
         /\ UNCHANGED notices
      \/ Ends(i, "FAILED", failed) /\ UNCHANGED notices
      \/ Ends(i, "COMPLETED", done) /\ notices' \subseteq notices \cup {n}
      \/ Ends(i, "COMPLETED", running) /\ notices' \subseteq notices \cup {n}
  BY DEF Write
<1>7. notices' \subseteq Slice
  BY <1>1, <1>6 DEF Typed, TypeOK
<1> HIDE DEF written
<1>8. failed \in SliceRec /\ done \in SliceRec /\ running \in SliceRec
  BY <1>3 DEF SliceRec
<1> HIDE DEF failed, done, running
<1>9. nsi' \in [Slice -> SliceRec] /\ req' \in [Request -> ReqRec] /\ SliceKnown'
  <2>1. CASE Fails(i)
    BY <1>4, <2>1, FailsTyped
  <2>2. CASE /\ nsi' = [nsi EXCEPT ![n] = written]
             /\ req' = [req EXCEPT ![i].pc = "poll", ![i].read = NoRead,
                                   ![i].seen = {read}]
    <3>1. req' = [req EXCEPT ![i] = q]
      BY <1>1, <2>2 DEF Typed, TypeOK
    <3> HIDE DEF read
    <3>2. q \in ReqRec /\ q.slice \in Slice
      BY <1>1, <1>2, NoReadTyped DEF ReqRec
    <3> HIDE DEF q
    <3> QED  BY <1>1, <1>3, <2>2, <3>1, <3>2, ReqAtTyped, SliceAtTyped
  <2>3. CASE Ends(i, "FAILED", failed)
    BY <1>4, <1>8, <2>3, EndsTyped
  <2>4. CASE Ends(i, "COMPLETED", done)
    BY <1>4, <1>8, <2>4, EndsTyped
  <2>5. CASE Ends(i, "COMPLETED", running)
    BY <1>4, <1>8, <2>5, EndsTyped
  <2> QED  BY <1>6, <2>1, <2>2, <2>3, <2>4, <2>5
<1> QED  BY <1>4, <1>5, <1>7, <1>9 DEF Typed, TypeOK

LEMMA LateTyped ==
    ASSUME Typed, NEW i \in Request, Late(i)
    PROVE  Typed'
<1>1. /\ req[i].pc = "poll" /\ Fails(i)
      /\ UNCHANGED <<nsr, nslcmop, handler, notices, marks>>
      /\ Fault("late") \/ UNCHANGED faults
  BY DEF Late
<1>2. faults' \subseteq FaultKinds
  BY <1>1, FaultTyped DEF Typed, TypeOK
<1> QED  BY <1>1, <1>2, FailsTyped DEF Typed, TypeOK

-----------------------------------------------------------------------------
(* Types, the NS tasks                                                      *)

LEMMA NsEndsTyped ==
    ASSUME Typed, NEW o \in Request \X Nsr,
           NEW state \in {"COMPLETED", "FAILED"}, NsEnds(o, state)
    PROVE  nslcmop' \in [Request \X Nsr -> NsOpRec]
<1> DEFINE a == [nslcmop[o] EXCEPT !.run = "over",
                    !.state = IF nslcmop[o].state = "none"
                                THEN nslcmop[o].state ELSE state]
<1>1. nslcmop[o] \in NsOpRec
  BY DEF Typed, TypeOK
<1>2. a \in NsOpRec
  BY <1>1 DEF NsOpRec
<1>3. nslcmop' = [nslcmop EXCEPT ![o] = a]
  BY DEF NsEnds, Typed, TypeOK
<1> HIDE DEF a
<1> QED  BY <1>2, <1>3 DEF Typed, TypeOK

LEMMA NsStartTyped ==
    ASSUME Typed, NEW o \in Request \X Nsr, NsStart(o) \/ NsStartBeside(o)
    PROVE  Typed'
<1>1. /\ o[2] \in Nsr /\ UNCHANGED <<nsi, req, handler, notices>>
      /\ marks' \subseteq marks \cup {"silent"}
      /\ Fault("silent") \/ UNCHANGED faults
      /\ NsBegins(o)
  BY DEF NsStart, NsStartBeside
<1>4. faults' \subseteq FaultKinds
  BY <1>1, FaultTyped DEF Typed, TypeOK
<1>2. CASE NsEnds(o, "COMPLETED") /\ UNCHANGED nsr
  BY <1>1, <1>2, <1>4, NsEndsTyped DEF Typed, TypeOK, SliceKnown
<1>3. CASE /\ nslcmop' = [nslcmop EXCEPT ![o].run = "work"]
           /\ nsr' = [nsr EXCEPT ![o[2]] = "instantiated"]
  <2> DEFINE a == [nslcmop[o] EXCEPT !.run = "work"]
  <2>1. a \in NsOpRec
    BY DEF Typed, TypeOK, NsOpRec
  <2>2. nslcmop' = [nslcmop EXCEPT ![o] = a]
    BY <1>3 DEF Typed, TypeOK
  <2> HIDE DEF a
  <2>3. nslcmop' \in [Request \X Nsr -> NsOpRec]
    BY <2>1, <2>2 DEF Typed, TypeOK
  <2>4. nsr' \in [Nsr -> NsStates]
    BY <1>1, <1>3 DEF Typed, TypeOK, NsStates
  <2> QED  BY <1>1, <1>4, <2>3, <2>4 DEF Typed, TypeOK, SliceKnown
<1> QED  BY <1>1, <1>2, <1>3 DEF NsBegins

LEMMA NsDoneTyped ==
    ASSUME Typed, NEW o \in Request \X Nsr, NsDone(o)
    PROVE  Typed'
<1>1. /\ NsEnds(o, "COMPLETED")
      /\ UNCHANGED <<nsi, req, handler, notices, marks, faults>>
  BY DEF NsDone
<1>2. nsr' \in [Nsr -> NsStates]
  BY DEF NsDone, Typed, TypeOK, NsStates
<1> QED  BY <1>1, <1>2, NsEndsTyped DEF Typed, TypeOK, SliceKnown

LEMMA NsFailsTyped ==
    ASSUME Typed, NEW o \in Request \X Nsr, NsFails(o) \/ NsGivesUp(o)
    PROVE  Typed'
<1>1. /\ NsEnds(o, "FAILED")
      /\ UNCHANGED <<nsi, nsr, req, handler, notices, marks>>
      /\ Fault("nsFails") \/ Fault("late") \/ UNCHANGED faults
  BY DEF NsFails, NsGivesUp
<1>2. faults' \subseteq FaultKinds
  BY <1>1, FaultTyped DEF Typed, TypeOK
<1> QED  BY <1>1, <1>2, NsEndsTyped DEF Typed, TypeOK, SliceKnown

LEMMA NextTyped == Typed /\ [Next]_vars => Typed'
<1> SUFFICES ASSUME Typed, [Next]_vars
             PROVE  Typed'
  OBVIOUS
<1>1. ASSUME NEW n \in Slice, FindShared(n) \/ RequestRemove(n)
      PROVE  Typed'
  BY <1>1, FindSharedTyped, RequestRemoveTyped
<1>2. ASSUME NEW i \in Request, NEW n \in Slice, NEW kind \in Kinds,
             NEW auto \in BOOLEAN, Ask(i, n, kind, auto)
      PROVE  Typed'
  BY <1>2, AskTyped
<1>3. ASSUME NEW n \in Slice, HandlerStep(n) \/ AutoRemove(n)
      PROVE  Typed'
  BY <1>3, CreateSliceTyped, RemoveRecordTyped, RemoveSharedTyped,
     RemoveOwnTyped, AutoRemoveTyped DEF HandlerStep
<1>4. ASSUME NEW i \in Request,
             NbiStep(i) \/ LcmStep(i) \/ StartBeside(i) \/ GiveUp(i) \/ Late(i)
      PROVE  Typed'
  BY <1>4, LookSharedTyped, ActSharedTyped, ActOwnTyped, StartTyped, PollTyped,
     WriteTyped, GiveUpTyped, LateTyped DEF NbiStep, LcmStep
<1>5. ASSUME NEW o \in Request \X Nsr,
             NsStep(o) \/ NsStartBeside(o) \/ NsFails(o) \/ NsGivesUp(o)
      PROVE  Typed'
  BY <1>5, NsStartTyped, NsDoneTyped, NsFailsTyped DEF NsStep
<1>6. CASE UNCHANGED vars
  BY <1>6 DEF vars, Typed, TypeOK, SliceKnown
<1> QED  BY <1>1, <1>2, <1>3, <1>4, <1>5, <1>6 DEF Next, NbiRequest

\* The records keep their types, and a request that was made is about a slice.
THEOREM SliceTypes == Spec => []TypeOK
<1>1. Init => Typed
  BY InitTyped DEF Init, Typed, SliceKnown, NoReq
<1>2. Typed => TypeOK
  BY DEF Typed
<1> QED  BY <1>1, <1>2, NextTyped, PTL DEF Spec

-----------------------------------------------------------------------------
(* The invariant that the safety properties follow from, while nothing is    *)
(* disturbed                                                                 *)

Active(i) == req[i].pc \in {"look", "act", "own", "sent", "poll", "write"}
Working(i) == req[i].pc \in {"poll", "write"}
Instantiates(i) == req[i].kind = "instantiate"
Terminates(i) == req[i].kind = "terminate"
Exist(r) == nsr[r] \in {"idle", "instantiated"}
Untouched(o) == nslcmop[o].state = "none" /\ nslcmop[o].run = "no"

\* Operations are asked for one after the other, and NBI works on one thing at
\* a time.
InTurn ==
    /\ \A i, q \in Request :
           i < q /\ (req[i].pc = "free" \/ Open(i)) => req[q].pc = "free"
    /\ \A n, m \in Slice :
           handler[n].pc # "idle" /\ handler[m].pc # "idle" => n = m
    /\ \A i \in Request, n \in Slice : Open(i) => handler[n].pc = "idle"

\* A slice is there while there is something to do for it.
Alive ==
    /\ \A n \in Slice :
           /\ nsi[n].life = "new" => nsi[n] = NewSlice
           /\ handler[n].pc = "new" => nsi[n].life = "new"
           /\ handler[n].pc \in {"shared", "own"} => ~There(n)
           /\ handler[n].pc # "idle" => ~nsi[n].instantiated
    /\ \A i \in Request :
           /\ Active(i) => /\ There(req[i].slice)
                           /\ handler[req[i].slice].pc = "idle"
           /\ req[i].pc # "free" => nsi[req[i].slice].life # "new"
           /\ req[i].pc \in {"sent", "poll", "write"}
                  => req[i].state = "PROCESSING"

\* The tasks of a slice work one after the other.
TasksInTurn ==
    /\ \A i, q \in Request :
           i < q /\ req[i].slice = req[q].slice /\ Working(q)
               => req[i].pc = "over"
    /\ \A i, q \in Request, r \in Nsr :
             /\ i < q /\ req[i].slice = req[q].slice
             /\ Terminates(q) /\ nslcmop[<<q, r>>].run # "no"
           => req[i].pc = "over"

\* A list of slice n: its own NS and a shared one.
Listable(n, L) ==
    L \subseteq SharedNs \cup {n} /\ \A s, t \in Shared(L) : s = t

Lists ==
    /\ \A n \in Slice :
           /\ Listable(n, nsi[n].list) /\ Listable(n, handler[n].list)
           /\ There(n) => \A r \in nsi[n].list : Exist(r)
           /\ handler[n].pc = "new" => \A r \in handler[n].list : Exist(r)
    /\ \A i \in Request :
           /\ Open(i) => /\ Listable(req[i].slice, req[i].read.list)
                         /\ nsi[req[i].slice].list \subseteq req[i].read.list
           /\ req[i].pc = "write" =>
                  /\ req[i].read.list \subseteq nsi[req[i].slice].list
                  /\ \A r \in Nsr \ req[i].read.list :
                         req[i].read.uses[r] = NoRequest

\* What an operation may be.
Asked(q) == Instantiates(q) /\ req[q].pc # "free"
OpsKnown ==
    /\ \A i \in Request, r \in Nsr : req[i].ops[r] # NoRequest =>
           /\ req[i].pc # "free" /\ r \in SharedNs \cup {req[i].slice}
           /\ r \in Slice \/ Terminates(i) => req[i].ops[r] = i
           /\ Instantiates(i) => Asked(req[i].ops[r])
    /\ \A n \in Slice, r \in Nsr :
           nsi[n].uses[r] # NoRequest => Asked(nsi[n].uses[r])
    /\ \A i \in Request :
           req[i].pc = "act" /\ req[i].found # NoRequest => Asked(req[i].found)
    /\ \A i \in Request, r \in Nsr :
           /\ req[i].pc = "free" => Untouched(<<i, r>>)
           /\ Open(i) => /\ nslcmop[<<i, r>>].run = "no"
                         /\ nslcmop[<<i, r>>].state \in {"none", "PROCESSING"}
           /\ Terminates(i) /\ req[i].pc \in {"look", "act", "own", "sent"}
                  => nslcmop[<<i, r>>].run = "no"
           /\ ~Untouched(<<i, r>>) /\ r \in Slice => r = req[i].slice
           /\ nslcmop[<<i, r>>].state \in {"COMPLETED", "FAILED"}
                  <=> nslcmop[<<i, r>>].run = "over" /\ nslcmop[<<i, r>>].state # "none"
           /\ Processing(<<i, r>>) => Exist(r)
           /\ nslcmop[<<i, r>>].run = "work"
                  => Processing(<<i, r>>) \/ nsr[r] = "gone"

\* An operation uses those of requests before it.
OpsInTurn == \A i \in Request, r \in Nsr : req[i].ops[r] <= i

\* A termination that may yet make an NS idle; and one that is not stuck.
Unshaken(q, r) ==
    \A t \in Request :
        q < t /\ Terminates(t) => nslcmop[<<t, r>>].run = "no"
Pending(t, r) == Processing(<<t, r>>) /\ ~NsStuck(<<t, r>>)
Runs(q, r) ==
    /\ Instantiates(q)
    /\ nslcmop[<<q, r>>].run = "work" \/ nslcmop[<<q, r>>].state = "COMPLETED"

\* An NS that is instantiated stays so until a later termination begins.
NssInTurn ==
    \A q \in Request, r \in Nsr : Runs(q, r) =>
        /\ \A t \in Request : t < q /\ Terminates(t) => ~Pending(t, r)
        /\ Unshaken(q, r) => nsr[r] \in {"instantiated", "gone"}

\* Request q created the operation on the shared NS s that somebody relies on.
Holds(q, s) ==
    \/ \E m \in Slice :
           There(m) /\ s \in nsi[m].list /\ nsi[m].uses[s] = q
    \/ \E i \in Request :
           /\ Instantiates(i) /\ req[i].pc \in {"own", "sent"}
           /\ s \in nsi[req[i].slice].list /\ req[i].ops[s] = q
    \/ \E i \in Request :
           /\ Instantiates(i) /\ req[i].pc = "act"
           /\ s \in req[i].read.list /\ req[i].found = q

Reliance ==
    /\ \A q, t \in Request, s \in SharedNs :
           Holds(q, s) /\ q < t /\ Terminates(t) => Untouched(<<t, s>>)
    /\ \A i \in Request, s \in SharedNs :
             /\ Instantiates(i) /\ req[i].pc \in {"own", "sent"}
             /\ s \in nsi[req[i].slice].list /\ req[i].ops[s] # NoRequest
           => nsi[req[i].slice].uses[s] # NoRequest
    /\ \A i \in Request, s \in SharedNs :
             /\ Terminates(i) /\ req[i].pc = "act" /\ req[i].found = NoRequest
             /\ s \in req[i].read.list
           => \A m \in OthersListing(req[i].slice, s) :
                  nsi[m].uses[s] = NoRequest

\* Instantiations and terminations of a slice take turns.
KindsInTurn ==
    /\ \A i, t \in Request :
             /\ Instantiates(i) /\ req[i].pc \in {"look", "act", "own", "sent"}
             /\ i < t /\ req[t].slice = req[i].slice /\ req[t].pc # "free"
           => Instantiates(t)
    /\ \A i \in Request :
             /\ Instantiates(i) /\ req[i].pc \in {"look", "act", "own", "sent"}
             /\ "repeated" \notin marks
           => ~nsi[req[i].slice].instantiated
    /\ \A i, q \in Request :
             /\ i # q /\ Active(i) /\ Active(q) /\ req[i].slice = req[q].slice
             /\ req[i].kind = req[q].kind
           => "repeated" \in marks

\* What the code looks at before it terminates a shared NS.
VldKnown ==
    /\ \A n \in Slice :
           /\ There(n) /\ nsi[n].instantiated
                  => Shared(nsi[n].list) \subseteq nsi[n].vld
           /\ nsi[n].shown \in {"init", "running"} => nsi[n].instantiated
    /\ \A i \in Request :
           /\ Instantiates(i) /\ req[i].pc \in {"own", "sent"}
                  => Shared(nsi[req[i].slice].list) \subseteq nsi[req[i].slice].vld
           /\ Terminates(i) /\ Open(i)
                  => Shared(req[i].read.list) \subseteq nsi[req[i].slice].vld
           /\ Terminates(i) /\ Active(i)
                  => \A s \in SharedNs : req[i].ops[s] # NoRequest
                         => s \in nsi[req[i].slice].vld
           /\ Working(i) =>
                  nsi[req[i].slice].shown =
                      IF Instantiates(i) THEN "init" ELSE "terminating"
    /\ IsFiniteSet({n \in Slice : nsi[n].life # "new"})

\* The NSs of a slice that runs, or is being instantiated, are not terminated.
Kept(r) ==
    \E q \in Request :
        /\ Instantiates(q) /\ nslcmop[<<q, r>>].state = "COMPLETED"
        /\ Unshaken(q, r)
Keeping ==
    /\ \A n \in Slice : There(n) /\ nsi[n].shown = "running"
                            => \A r \in nsi[n].list : Kept(r)
    /\ \A i \in Request :
           Instantiates(i) /\ req[i].pc \in {"own", "sent", "poll", "write"} =>
               \A r \in nsi[req[i].slice].list :
                   req[i].ops[r] # NoRequest => Unshaken(req[i].ops[r], r)
    /\ \A i \in Request :
             /\ Instantiates(i) /\ req[i].pc = "write"
             /\ req[i].read.all = "COMPLETED"
           =>     \A r \in req[i].read.list :
                      /\ req[i].ops[r] # NoRequest
                      /\ nslcmop[<<req[i].ops[r], r>>].state = "COMPLETED"

Sound ==
    /\ InTurn /\ Alive /\ TasksInTurn /\ Lists /\ OpsKnown /\ NssInTurn
    /\ Reliance /\ KindsInTurn /\ VldKnown /\ Keeping /\ OpsInTurn

-----------------------------------------------------------------------------
(* What the steps do                                                        *)

OnlyReq(i) == \A j \in Request \ {i} : req'[j] = req[j]
OnlySlice(n) == \A m \in Slice \ {n} : nsi'[m] = nsi[m]
OnlyHandler(n) == \A m \in Slice \ {n} : handler'[m] = handler[m]

\* No thread of NBI is at work on slices.
NbiFree ==
    /\ \A m \in Slice : handler[m].pc = "idle"
    /\ \A i \in Request : ~Open(i)

\* Without an overlap a thread begins alone.
LEMMA BeginsAlone ==
    ASSUME Typed, NEW n \in Slice, ~Handled(n), "overlap" \notin Overlaps(n)
    PROVE  NbiFree
<1>1. \A m \in Slice : ~Handled(m)
  BY DEF Overlaps
<1>2. ASSUME NEW i \in Request, Open(i)
      PROVE  FALSE
  <2>1. req[i].slice \in Slice
    BY <1>2 DEF Open, Typed, SliceKnown
  <2> QED  BY <1>1, <1>2, <2>1 DEF Handled
<1> QED  BY <1>1, <1>2 DEF Handled, NbiFree

LEMMA FindSharedDoes ==
    ASSUME Typed, Undisturbed', NEW n \in Slice, FindShared(n)
    PROVE  /\ NbiFree /\ Undisturbed /\ nsi[n].life = "new"
           /\ \E s \in SharedNs :
                  /\ handler'[n] = [pc |-> "new", list |-> {s, n}]
                  /\ Listed # {} => s \in Listed
                  /\ Listed = {} => nsr[s] = "new"
                  /\ \A r \in Nsr :
                         nsr'[r] = IF r = n \/ (r = s /\ Listed = {})
                                     THEN "idle" ELSE nsr[r]
           /\ OnlyHandler(n)
           /\ UNCHANGED <<nsi, nslcmop, req, notices, faults>>
<1>1. nsi[n].life = "new" /\ ~Handled(n) /\ marks' = marks \cup Overlaps(n)
  BY DEF FindShared
<1>2. NbiFree /\ Undisturbed
  BY <1>1, BeginsAlone DEF Undisturbed
<1>3. handler \in [Slice -> HandlerRec]
  BY DEF Typed, TypeOK
<1> QED  BY <1>1, <1>2, <1>3 DEF FindShared, OnlyHandler

LEMMA CreateSliceDoes ==
    ASSUME Typed, Undisturbed', NEW n \in Slice, CreateSlice(n)
    PROVE  /\ Undisturbed /\ handler[n].pc = "new" /\ handler'[n] = Idle
           /\ nsi'[n].life = "there" /\ nsi'[n].list = handler[n].list
           /\ nsi'[n].instantiated = nsi[n].instantiated
           /\ nsi'[n].shown = nsi[n].shown
           /\ nsi'[n].uses = nsi[n].uses /\ nsi'[n].vld = nsi[n].vld
           /\ OnlyHandler(n) /\ OnlySlice(n)
           /\ UNCHANGED <<nsr, nslcmop, req, notices, marks, faults>>
<1>1. handler \in [Slice -> HandlerRec] /\ nsi \in [Slice -> SliceRec]
  BY DEF Typed, TypeOK
<1>2. nsi[n] \in SliceRec
  BY <1>1
<1> QED
  BY <1>1, <1>2 DEF CreateSlice, OnlyHandler, OnlySlice, Undisturbed, SliceRec

LEMMA CheckRemoveDoes ==
    ASSUME Typed, Undisturbed', NEW n \in Slice, CheckRemove(n)
    PROVE  /\ NbiFree /\ Undisturbed /\ There(n) /\ ~nsi[n].instantiated
           /\ handler'[n] = [pc |-> "remove", list |-> nsi[n].list]
           /\ OnlyHandler(n)
           /\ \A i \in Request :
                  req[i].slice = n => req[i].pc \notin {"sent", "poll", "write"}
           /\ marks' \subseteq marks \cup {"together"}
           /\ "repeated" \in marks' => "repeated" \in marks
<1>1. /\ There(n) /\ ~nsi[n].instantiated /\ ~Handled(n)
      /\ marks' = marks \cup Overlaps(n) \cup Busies(n) \cup Together(n)
  BY DEF CheckRemove
<1>2. NbiFree /\ Undisturbed
  BY <1>1, BeginsAlone DEF Undisturbed
<1>3. handler \in [Slice -> HandlerRec]
  BY DEF Typed, TypeOK
<1>4. "overlap" \notin marks' /\ "busy" \notin marks'
  BY DEF Undisturbed
<1>5. ~Live(n, {"instantiate", "terminate"})
  BY <1>1, <1>4 DEF Busies
<1>6. ASSUME NEW i \in Request, req[i].slice = n
      PROVE  req[i].pc \notin {"sent", "poll", "write"}
  <2>1. req[i].kind \in {"instantiate", "terminate"}
    BY DEF Typed, TypeOK, ReqRec
  <2> QED  BY <1>5, <1>6, <2>1 DEF Live
<1>7. marks' \subseteq marks \cup {"together"}
  BY <1>1, <1>4 DEF Overlaps, Busies, Together
<1> QED  BY <1>1, <1>2, <1>3, <1>6, <1>7 DEF CheckRemove, OnlyHandler

LEMMA RemoveRecordDoes ==
    ASSUME Typed, Undisturbed', NEW n \in Slice, RemoveRecord(n)
    PROVE  /\ Undisturbed /\ handler[n].pc = "remove"
           /\ handler'[n].pc \in {"shared", "own"}
           /\ handler'[n].list = handler[n].list
           /\ nsi'[n] = [NewSlice EXCEPT !.life = "gone"]
           /\ OnlyHandler(n) /\ OnlySlice(n)
           /\ UNCHANGED <<nsr, nslcmop, req, notices, marks, faults>>
<1>1. handler \in [Slice -> HandlerRec] /\ nsi \in [Slice -> SliceRec]
  BY DEF Typed, TypeOK
<1>2. handler[n] \in HandlerRec
  BY <1>1
<1> QED
  BY <1>1, <1>2 DEF RemoveRecord, OnlyHandler, OnlySlice, Undisturbed, HandlerRec

\* The NSs R are deleted.
Deleted(R) ==
    /\ \A r \in Nsr : nsr'[r] = IF r \in R THEN "gone" ELSE nsr[r]
    /\ \A o \in Request \X Nsr :
           /\ nslcmop'[o].run = nslcmop[o].run
           /\ nslcmop'[o].state = IF o[2] \in R THEN "none" ELSE nslcmop[o].state

LEMMA DeletesDoes ==
    ASSUME Typed, NEW R, Deletes(R)
    PROVE  Deleted(R)
<1>1. \A o \in Request \X Nsr : nslcmop[o] \in NsOpRec
  BY DEF Typed, TypeOK
<1> QED  BY <1>1 DEF Deletes, Deleted, NsOpRec

LEMMA NothingDeleted ==
    ASSUME UNCHANGED <<nsr, nslcmop>>
    PROVE  Deleted({})
BY DEF Deleted

LEMMA RemoveSharedDoes ==
    ASSUME Typed, Undisturbed', NEW n \in Slice, RemoveShared(n)
    PROVE  /\ Undisturbed /\ handler[n].pc = "shared"
           /\ \/ handler'[n] = Idle
              \/ handler'[n].pc = "own" /\ handler'[n].list = handler[n].list
           /\ \E R \in SUBSET SharedNs :
                  Deleted(R) /\ \A s \in R : OthersListing(n, s) = {}
           /\ OnlyHandler(n)
           /\ UNCHANGED <<nsi, req, notices, marks, faults>>
<1>1. handler \in [Slice -> HandlerRec] /\ handler[n] \in HandlerRec
  BY DEF Typed, TypeOK
<1>2. /\ handler[n].pc = "shared" /\ UNCHANGED <<nsi, req, notices, marks, faults>>
  BY DEF RemoveShared
<1>3. PICK s \in SharedNs :
           IF ~KeepShared(n, s) /\ nsr[s] = "instantiated"
             THEN /\ handler' = [handler EXCEPT ![n] = Idle]
                  /\ UNCHANGED <<nsr, nslcmop>>
             ELSE /\ handler' = [handler EXCEPT ![n].pc = "own"]
                  /\ Deletes(IF KeepShared(n, s) THEN {} ELSE {s})
  BY DEF RemoveShared, Shared
<1>4. OnlyHandler(n)
  BY <1>1, <1>3 DEF OnlyHandler
<1>5. \/ handler'[n] = Idle
      \/ handler'[n].pc = "own" /\ handler'[n].list = handler[n].list
  BY <1>1, <1>3 DEF HandlerRec
<1>6. \E R \in SUBSET SharedNs :
          Deleted(R) /\ \A t \in R : OthersListing(n, t) = {}
  <2>1. CASE UNCHANGED <<nsr, nslcmop>>
    BY <2>1, NothingDeleted
  <2>2. CASE KeepShared(n, s) /\ Deletes({})
    BY <2>2, DeletesDoes
  <2>3. CASE ~KeepShared(n, s) /\ Deletes({s})
    BY <2>3, DeletesDoes DEF KeepShared
  <2> QED  BY <1>3, <2>1, <2>2, <2>3
<1> QED  BY <1>2, <1>4, <1>5, <1>6 DEF Undisturbed

LEMMA RemoveOwnDoes ==
    ASSUME Typed, Undisturbed', NEW n \in Slice, RemoveOwn(n)
    PROVE  /\ Undisturbed /\ handler[n].pc = "own" /\ handler'[n] = Idle
           /\ \E R \in SUBSET {n} : Deleted(R)
           /\ OnlyHandler(n)
           /\ \A i \in Request :
                  \/ req'[i] = req[i]
                  \/ req[i].slice = n /\ req'[i] = [req[i] EXCEPT !.state = "none"]
           /\ UNCHANGED <<nsi, notices, marks, faults>>
<1>1. handler \in [Slice -> HandlerRec] /\ handler[n] \in HandlerRec
  BY DEF Typed, TypeOK
<1>2. /\ handler[n].pc = "own" /\ UNCHANGED <<nsi, notices, marks, faults>>
      /\ handler' = [handler EXCEPT ![n] = Idle]
  BY DEF RemoveOwn
<1>3. /\ \E R \in SUBSET {n} : Deleted(R)
      /\ \A i \in Request :
             \/ req'[i] = req[i]
             \/ req[i].slice = n /\ req'[i] = [req[i] EXCEPT !.state = "none"]
  <2>1. CASE UNCHANGED <<nsr, nslcmop, req>>
    BY <2>1, NothingDeleted
  <2>2. CASE /\ Deletes({n} \cap handler[n].list)
             /\ req' = [i \in Request |->
                           IF req[i].slice = n
                             THEN [req[i] EXCEPT !.state = "none"] ELSE req[i]]
    BY <2>2, DeletesDoes
  <2> QED  BY <2>1, <2>2 DEF RemoveOwn
<1> QED  BY <1>1, <1>2, <1>3 DEF OnlyHandler, Undisturbed

LEMMA AskDoes ==
    ASSUME Typed, Undisturbed', NEW i \in Request, NEW n \in Slice,
           NEW kind \in Kinds, NEW auto \in BOOLEAN, Ask(i, n, kind, auto),
           marks \subseteq {"together"}
    PROVE  /\ NbiFree /\ Undisturbed /\ There(n)
           /\ nsi[n].instantiated = (kind = "terminate")
           /\ req[i].pc = "free" /\ \A q \in 1 .. i - 1 : req[q].pc # "free"
           /\ req'[i].pc \in {"look", "own"}
           /\ req'[i].pc = "own" => Shared(nsi[n].list) = {}
           /\ req'[i].slice = n /\ req'[i].kind = kind
           /\ kind \in {"instantiate", "terminate"}
           /\ req'[i].ops = NoUse /\ req'[i].found = NoRequest
           /\ req'[i].read.list = nsi[n].list
           /\ OnlyReq(i)
           /\ UNCHANGED <<nsi, nsr, nslcmop, handler, notices, faults>>
           /\ "repeated" \notin marks' =>
                  \A j \in Request :
                      ~(/\ req[j].slice = n /\ req[j].kind = kind
                        /\ req[j].pc \in {"sent", "poll", "write"})
<1> DEFINE pc == IF Shared(nsi[n].list) # {} THEN "look" ELSE "own"
           read == [NoRead EXCEPT !.list = nsi[n].list]
           q == [NoReq EXCEPT !.slice = n, !.kind = kind, !.autoremove = auto,
                              !.read = read, !.pc = pc]
<1>1. req' = [req EXCEPT ![i] = q]
  BY DEF Ask, NoReq
<1>2. req \in [Request -> ReqRec]
  BY DEF Typed, TypeOK
<1>3. req'[i] = q /\ OnlyReq(i)
  BY <1>1, <1>2 DEF OnlyReq
<1>4. /\ q.pc = pc /\ q.slice = n /\ q.kind = kind /\ q.ops = NoUse
      /\ q.found = NoRequest /\ q.read = read
  BY DEF NoReq
<1>5. read.list = nsi[n].list
  BY DEF NoRead
<1>6. /\ ~Handled(n)
      /\ marks' = marks \cup Overlaps(n) \cup Repeats(n, kind) \cup Together(n)
  BY DEF Ask
<1>7. NbiFree /\ Undisturbed
  BY <1>6, BeginsAlone DEF Undisturbed
<1>8. "repeated" \notin marks' => ~Live(n, {kind})
  BY <1>6 DEF Repeats
<1>9. "repeated" \notin marks' =>
          \A j \in Request :
              ~(/\ req[j].slice = n /\ req[j].kind = kind
                /\ req[j].pc \in {"sent", "poll", "write"})
  BY <1>8 DEF Live
<1>10. /\ There(n) /\ nsi[n].instantiated = (kind = "terminate")
       /\ req[i].pc = "free" /\ \A p \in 1 .. i - 1 : req[p].pc # "free"
       /\ UNCHANGED <<nsi, nsr, nslcmop, handler, notices, faults>>
  BY DEF Ask
<1>11. pc \in {"look", "own"} /\ (pc = "own" => Shared(nsi[n].list) = {})
  OBVIOUS
<1>12. kind \in {"instantiate", "terminate"}
  BY SliceAssumption
<1> HIDE DEF q, read, pc
<1> QED
  BY <1>3, <1>4, <1>5, <1>7, <1>9, <1>10, <1>11, <1>12

\* What a request leaves as it was while it looks for the shared NS.
SameButFound(i) ==
    /\ req'[i].slice = req[i].slice /\ req'[i].kind = req[i].kind
    /\ req'[i].read = req[i].read /\ req'[i].state = req[i].state

LEMMA LookSharedDoes ==
    ASSUME Typed, Undisturbed', NEW i \in Request, LookShared(i)
    PROVE  /\ Undisturbed /\ req[i].pc = "look" /\ req'[i].pc = "act"
           /\ SameButFound(i) /\ req'[i].ops = req[i].ops
           /\ \E s \in Shared(req[i].read.list) :
                  \/ /\ req'[i].found = NoRequest
                     /\ \A m \in OthersListing(req[i].slice, s) :
                            nsi[m].uses[s] = NoRequest
                  \/ /\ req'[i].found # NoRequest
                     /\ \E m \in OthersListing(req[i].slice, s) :
                            req'[i].found = nsi[m].uses[s]
           /\ OnlyReq(i)
           /\ UNCHANGED <<nsi, nsr, nslcmop, handler, notices, marks, faults>>
<1>1. PICK s \in Shared(req[i].read.list) :
         LET uses == {nsi[m].uses[s] :
                        m \in OthersListing(req[i].slice, s)} \ {NoRequest}
         IN \E f \in (IF uses = {} THEN {NoRequest} ELSE uses) :
                req' = [req EXCEPT ![i].pc = "act", ![i].found = f]
  BY DEF LookShared
<1> DEFINE uses == {nsi[m].uses[s] :
                      m \in OthersListing(req[i].slice, s)} \ {NoRequest}
<1>2. PICK f \in (IF uses = {} THEN {NoRequest} ELSE uses) :
          req' = [req EXCEPT ![i].pc = "act", ![i].found = f]
  BY <1>1
<1>3. req \in [Request -> ReqRec] /\ req[i] \in ReqRec
  BY DEF Typed, TypeOK
<1>4. /\ req'[i].pc = "act" /\ req'[i].found = f /\ SameButFound(i)
      /\ req'[i].ops = req[i].ops /\ OnlyReq(i)
  BY <1>2, <1>3 DEF ReqRec, SameButFound, OnlyReq
<1>5. \/ /\ f = NoRequest
         /\ \A m \in OthersListing(req[i].slice, s) : nsi[m].uses[s] = NoRequest
      \/ /\ f # NoRequest
         /\ \E m \in OthersListing(req[i].slice, s) : f = nsi[m].uses[s]
  BY <1>2
<1> QED  BY <1>4, <1>5 DEF LookShared, Undisturbed

\* Request i creates operations on those of the NSs R that exist.
Created(i, R) ==
    \A o \in Request \X Nsr :
        nslcmop'[o] = IF o[1] = i /\ o[2] \in R /\ Exist(o[2])
                        THEN [state |-> "PROCESSING", run |-> "no"]
                        ELSE nslcmop[o]

LEMMA CreatesDoes ==
    ASSUME Typed, NEW i \in Request, NEW R, Creates(i, R)
    PROVE  Created(i, R)
BY DEF Creates, Created, Exist, Typed, TypeOK

LEMMA OpsWithDoes ==
    ASSUME NEW i \in Request, NEW R, NEW r \in Nsr
    PROVE  OpsWith(i, R)[r] = IF r \in R /\ Exist(r) THEN i ELSE req[i].ops[r]
BY DEF OpsWith, Exist

LEMMA ShareInstantiateDoes ==
    ASSUME Typed, Undisturbed', NEW i \in Request, req[i].pc = "act",
           NEW s \in SharedNs, ShareInstantiate(i, s)
    PROVE  LET n == req[i].slice
               u == IF req[i].found = NoRequest /\ nsr[s] = "idle"
                      THEN i ELSE req[i].found
           IN /\ Undisturbed /\ Instantiates(i)
              /\ req[i].found = NoRequest => nsr[s] # "instantiated"
              /\ req'[i].pc = "own" /\ req'[i].found = req[i].found
              /\ SameButFound(i)
              /\ \A r \in Nsr : req'[i].ops[r] = IF r = s THEN u ELSE req[i].ops[r]
              /\ nsi'[n].life = nsi[n].life /\ nsi'[n].list = nsi[n].list
              /\ nsi'[n].shown = nsi[n].shown
              /\ nsi'[n].instantiated = nsi[n].instantiated
              /\ nsi'[n].vld = nsi[n].vld \cup {s}
              /\ \A r \in Nsr :
                     nsi'[n].uses[r] = IF r = s /\ u # NoRequest
                                         THEN u ELSE nsi[n].uses[r]
              /\ Created(i, IF req[i].found = NoRequest THEN {s} ELSE {})
              /\ marks' = marks /\ OnlyReq(i) /\ OnlySlice(n)
<1> DEFINE n == req[i].slice
           conflict == req[i].found = NoRequest /\ Conflict(i, s)
           created == req[i].found = NoRequest /\ ~conflict /\ nsr[s] = "idle"
           uses == IF created THEN i ELSE req[i].found
           u == IF req[i].found = NoRequest /\ nsr[s] = "idle"
                  THEN i ELSE req[i].found
<1>1. /\ req \in [Request -> ReqRec] /\ req[i] \in ReqRec
      /\ nsi \in [Slice -> SliceRec] /\ n \in Slice /\ nsi[n] \in SliceRec
  BY DEF Typed, TypeOK, SliceKnown
<1>2. s \in Nsr /\ req[i].ops \in OpFun /\ nsi[n].uses \in OpFun
  BY <1>1 DEF Nsr, ReqRec, SliceRec
<1>3. "refused" \notin marks'
  BY DEF Undisturbed
<1>4. Instantiates(i) /\ ~conflict /\ marks' = marks
  BY <1>3 DEF ShareInstantiate, Instantiates
<1>5. uses = u /\ (req[i].found = NoRequest => nsr[s] # "instantiated")
  BY <1>4 DEF Conflict, Instantiates
<1>6. /\ nsi' = [nsi EXCEPT ![n].vld = @ \cup {s},
                            ![n].uses[s] = IF uses # NoRequest THEN uses
                                                               ELSE @]
      /\ req' = [req EXCEPT ![i].pc = "own", ![i].ops[s] = uses]
      /\ Creates(i, IF req[i].found = NoRequest THEN {s} ELSE {})
  BY <1>4 DEF ShareInstantiate
<1>7. /\ nsi' = [nsi EXCEPT ![n].vld = @ \cup {s},
                            ![n].uses[s] = IF u # NoRequest THEN u ELSE @]
      /\ req' = [req EXCEPT ![i].pc = "own", ![i].ops[s] = u]
  BY <1>5, <1>6
<1> HIDE DEF u, uses, conflict, created
<1>8. /\ req'[i].pc = "own" /\ req'[i].found = req[i].found
      /\ SameButFound(i) /\ OnlyReq(i)
      /\ req'[i].ops = [req[i].ops EXCEPT ![s] = u]
  BY <1>1, <1>7 DEF ReqRec, SameButFound, OnlyReq
<1>9. \A r \in Nsr : req'[i].ops[r] = IF r = s THEN u ELSE req[i].ops[r]
  BY <1>2, <1>8 DEF OpFun
<1>10. /\ nsi'[n].life = nsi[n].life /\ nsi'[n].list = nsi[n].list
       /\ nsi'[n].shown = nsi[n].shown
       /\ nsi'[n].instantiated = nsi[n].instantiated
       /\ nsi'[n].vld = nsi[n].vld \cup {s}
       /\ nsi'[n].uses = [nsi[n].uses EXCEPT
                            ![s] = IF u # NoRequest THEN u ELSE nsi[n].uses[s]]
       /\ OnlySlice(n)
  BY <1>1, <1>7 DEF SliceRec, OnlySlice
<1>11. \A r \in Nsr :
           nsi'[n].uses[r] = IF r = s /\ u # NoRequest
                               THEN u ELSE nsi[n].uses[r]
  BY <1>2, <1>10 DEF OpFun
<1>12. Created(i, IF req[i].found = NoRequest THEN {s} ELSE {})
  BY <1>6, CreatesDoes
<1> QED
  BY <1>4, <1>5, <1>8, <1>9, <1>10, <1>11, <1>12 DEF Undisturbed, u

LEMMA ShareTerminateDoes ==
    ASSUME Typed, Undisturbed', NEW i \in Request, req[i].pc = "act",
           NEW s \in SharedNs, ShareTerminate(i, s)
    PROVE  LET n == req[i].slice
               R == IF req[i].found # NoRequest THEN {} ELSE {s}
           IN /\ Undisturbed /\ Terminates(i)
              /\ req'[i].pc = "own" /\ req'[i].found = req[i].found
              /\ SameButFound(i)
              /\ \A r \in Nsr :
                     req'[i].ops[r] = IF r \in R /\ Exist(r)
                                        THEN i ELSE req[i].ops[r]
              /\ nsi'[n].life = nsi[n].life /\ nsi'[n].list = nsi[n].list
              /\ nsi'[n].shown = nsi[n].shown
              /\ nsi'[n].instantiated = nsi[n].instantiated
              /\ nsi'[n].vld = nsi[n].vld
              /\ \A r \in Nsr :
                     nsi'[n].uses[r] = IF r = s THEN NoRequest
                                                ELSE nsi[n].uses[r]
              /\ Created(i, R)
              /\ marks' = marks /\ OnlyReq(i) /\ OnlySlice(n)
<1> DEFINE n == req[i].slice
           R == IF req[i].found # NoRequest THEN {} ELSE {s}
           conflict == ~Keeps(i) /\ Conflict(i, s)
<1>1. /\ req \in [Request -> ReqRec] /\ req[i] \in ReqRec
      /\ nsi \in [Slice -> SliceRec] /\ n \in Slice /\ nsi[n] \in SliceRec
  BY DEF Typed, TypeOK, SliceKnown
<1>2. s \in Nsr /\ nsi[n].uses \in OpFun
  BY <1>1 DEF Nsr, SliceRec
<1>3. "refused" \notin marks'
  BY DEF Undisturbed
<1>4. Terminates(i) /\ ~conflict /\ marks' = marks
  BY <1>3 DEF ShareTerminate, Terminates
<1>5. /\ nsi' = [nsi EXCEPT ![n].uses[s] = NoRequest]
      /\ req' = [req EXCEPT ![i].pc = "own", ![i].ops = OpsWith(i, R)]
      /\ Creates(i, R)
  BY <1>4 DEF ShareTerminate, Keeps
<1> HIDE DEF R
<1>6. /\ req'[i].pc = "own" /\ req'[i].found = req[i].found
      /\ SameButFound(i) /\ OnlyReq(i) /\ req'[i].ops = OpsWith(i, R)
  BY <1>1, <1>5 DEF ReqRec, SameButFound, OnlyReq
<1>7. /\ nsi'[n].life = nsi[n].life /\ nsi'[n].list = nsi[n].list
      /\ nsi'[n].shown = nsi[n].shown
      /\ nsi'[n].instantiated = nsi[n].instantiated
      /\ nsi'[n].vld = nsi[n].vld
      /\ nsi'[n].uses = [nsi[n].uses EXCEPT ![s] = NoRequest]
      /\ OnlySlice(n)
  BY <1>1, <1>5 DEF SliceRec, OnlySlice
<1>8. \A r \in Nsr :
          nsi'[n].uses[r] = IF r = s THEN NoRequest ELSE nsi[n].uses[r]
  BY <1>2, <1>7 DEF OpFun
<1>9. Created(i, R)
  BY <1>5, CreatesDoes
<1>10. \A r \in Nsr :
           req'[i].ops[r] = IF r \in R /\ Exist(r) THEN i ELSE req[i].ops[r]
  BY <1>6, OpsWithDoes
<1> QED
  BY <1>4, <1>6, <1>7, <1>8, <1>9, <1>10 DEF Undisturbed, R

LEMMA ActOwnDoes ==
    ASSUME Typed, Undisturbed', NEW i \in Request, ActOwn(i)
    PROVE  LET n == req[i].slice  R == {n} \cap req[i].read.list
           IN /\ Undisturbed /\ req[i].pc = "own"
              /\ req'[i].slice = n /\ req'[i].kind = req[i].kind
              /\ \/ /\ Shared(req[i].read.list) = {}
                    /\ req'[i].pc = "over" /\ req'[i].ops = NoUse
                    /\ req'[i].read = req[i].read
                    /\ \A o \in Request \X Nsr :
                           /\ nslcmop'[o].run = nslcmop[o].run
                           /\ nslcmop'[o].state = IF o[1] = i THEN "none"
                                                    ELSE nslcmop[o].state
                 \/ /\ req'[i].pc = "sent" /\ req'[i].state = "PROCESSING"
                    /\ req'[i].read = NoRead
                    /\ \A r \in Nsr :
                           req'[i].ops[r] = IF r \in R /\ Exist(r)
                                              THEN i ELSE req[i].ops[r]
                    /\ Created(i, R)
              /\ OnlyReq(i)
              /\ UNCHANGED <<nsi, nsr, handler, notices, marks, faults>>
<1> DEFINE n == req[i].slice
           R == {n} \cap req[i].read.list
           kept == IF Shared(req[i].read.list) # {} THEN {"refused"} ELSE {}
<1>1. req \in [Request -> ReqRec] /\ req[i] \in ReqRec
  BY DEF Typed, TypeOK
<1>2. "refused" \notin marks'
  BY DEF Undisturbed
<1>3. /\ req[i].pc = "own"
      /\ UNCHANGED <<nsi, nsr, handler, notices, faults>>
      /\ \/ Refuse(i) /\ marks' = marks \cup kept
         \/ /\ Creates(i, R)
            /\ req' = [req EXCEPT ![i].pc = "sent",
                                  ![i].state = "PROCESSING",
                                  ![i].read = NoRead,
                                  ![i].found = NoRequest,
                                  ![i].ops = OpsWith(i, R)]
            /\ UNCHANGED marks
  BY DEF ActOwn
<1> HIDE DEF R
<1>4. CASE Refuse(i) /\ marks' = marks \cup kept
  <2>1. Shared(req[i].read.list) = {} /\ marks' = marks
    BY <1>2, <1>4
  <2>2. /\ req'[i].pc = "over" /\ req'[i].ops = NoUse
        /\ req'[i].read = req[i].read /\ req'[i].slice = n
        /\ req'[i].kind = req[i].kind /\ OnlyReq(i)
    BY <1>1, <1>4 DEF Refuse, ReqRec, OnlyReq
  <2>3. ASSUME NEW o \in Request \X Nsr
        PROVE  /\ nslcmop'[o].run = nslcmop[o].run
               /\ nslcmop'[o].state = IF o[1] = i THEN "none"
                                        ELSE nslcmop[o].state
    <3>1. nslcmop[o] \in NsOpRec
      BY DEF Typed, TypeOK
    <3> QED  BY <1>4, <3>1 DEF Refuse, NsOpRec
  <2> QED  BY <1>3, <2>1, <2>2, <2>3 DEF Undisturbed
<1>5. CASE /\ Creates(i, R)
           /\ req' = [req EXCEPT ![i].pc = "sent",
                                 ![i].state = "PROCESSING",
                                 ![i].read = NoRead,
                                 ![i].found = NoRequest,
                                 ![i].ops = OpsWith(i, R)]
           /\ UNCHANGED marks
  <2>1. /\ req'[i].pc = "sent" /\ req'[i].state = "PROCESSING"
        /\ req'[i].read = NoRead /\ req'[i].slice = n
        /\ req'[i].ops = OpsWith(i, R)
        /\ req'[i].kind = req[i].kind /\ OnlyReq(i)
    BY <1>1, <1>5 DEF ReqRec, OnlyReq
  <2>2. Created(i, R)
    BY <1>5, CreatesDoes
  <2>3. \A r \in Nsr :
            req'[i].ops[r] = IF r \in R /\ Exist(r) THEN i ELSE req[i].ops[r]
    BY <2>1, OpsWithDoes
  <2> QED  BY <1>3, <1>5, <2>1, <2>2, <2>3 DEF Undisturbed, R
<1> QED  BY <1>3, <1>4, <1>5

-----------------------------------------------------------------------------
(* What LCM's steps do                                                      *)

SameTask(i) ==
    /\ req'[i].slice = req[i].slice /\ req'[i].kind = req[i].kind
    /\ req'[i].ops = req[i].ops

\* Slice n keeps its NSs.
SameSlice(n) ==
    /\ nsi'[n].life = nsi[n].life /\ nsi'[n].list = nsi[n].list
    /\ nsi'[n].uses = nsi[n].uses /\ nsi'[n].vld = nsi[n].vld

Launched(O) ==
    \A o \in Request \X Nsr :
        /\ nslcmop'[o].state = nslcmop[o].state
        /\ nslcmop'[o].run = IF o \in O /\ nslcmop[o].run = "no"
                               THEN "wait" ELSE nslcmop[o].run

LEMMA LaunchesDoes ==
    ASSUME Typed, NEW O, Launches(O)
    PROVE  Launched(O)
<1>1. \A o \in Request \X Nsr : nslcmop[o] \in NsOpRec
  BY DEF Typed, TypeOK
<1> QED  BY <1>1 DEF Launches, Launched, NsOpRec

\* A round of the poll reads items that have an operation.
Reads(i, read) ==
    /\ read.list \subseteq nsi[req[i].slice].list
    /\ \A r \in Nsr \ read.list : read.uses[r] = NoRequest
    /\ \A r \in read.list :
           /\ r \in Nsr /\ req[i].ops[r] # NoRequest
           /\ read.all = "COMPLETED"
                  => nslcmop[<<req[i].ops[r], r>>].state = "COMPLETED"

LEMMA ReadNowReads ==
    ASSUME Typed, NEW i \in Request, req[i].slice \in Slice
    PROVE  Reads(i, ReadNow(i))
<1> DEFINE n == req[i].slice
           L == nsi[n].list \cap {o[2] : o \in OpsOf(i)}
           U == [r \in Nsr |-> IF r \in L THEN nsi[n].uses[r] ELSE NoRequest]
           A == IF ~AllEnded(i) THEN "open"
                ELSE IF AnyFailed(i) \/ \E r \in nsi[n].list : NoStatus(i, r)
                  THEN "FAILED" ELSE "COMPLETED"
<1>1. /\ ReadNow(i).list = L /\ ReadNow(i).uses = U /\ ReadNow(i).all = A
  BY DEF ReadNow
<1>2. \A r \in Nsr \ L : U[r] = NoRequest
  OBVIOUS
<1>3. ASSUME NEW r \in L
      PROVE  /\ r \in Nsr /\ req[i].ops[r] # NoRequest
             /\ <<req[i].ops[r], r>> \in OpsOf(i)
  <2>1. PICK o \in OpsOf(i) : o[2] = r
    BY <1>3
  <2>2. o \in Request \X Nsr /\ req[i].ops[o[2]] = o[1]
    BY <2>1 DEF OpsOf
  <2>3. o = <<req[i].ops[r], r>> /\ r \in Nsr /\ o[1] \in Request
    BY <2>1, <2>2
  <2> QED  BY <2>1, <2>3 DEF Request, NoRequest
<1>4. ASSUME A = "COMPLETED", NEW o \in OpsOf(i)
      PROVE  nslcmop[o].state = "COMPLETED"
  BY <1>4 DEF AllEnded, AnyFailed, Ended
<1> HIDE DEF L, U, A
<1>5. L \subseteq nsi[n].list
  BY DEF L
<1> QED  BY <1>1, <1>2, <1>3, <1>4, <1>5 DEF Reads

\* The end of a task, with what becomes of slice n.
LEMMA EndsDoes ==
    ASSUME Typed, NEW i \in Request, There(req[i].slice),
           req[i].slice \in Slice, NEW state, NEW a, Ends(i, state, a)
    PROVE  /\ req'[i].pc = "over" /\ SameTask(i) /\ OnlyReq(i)
           /\ nsi'[req[i].slice] = a /\ OnlySlice(req[i].slice)
<1>1. /\ req \in [Request -> ReqRec] /\ req[i] \in ReqRec
      /\ nsi \in [Slice -> SliceRec]
  BY DEF Typed, TypeOK
<1> QED  BY <1>1 DEF Ends, ReqRec, SameTask, OnlyReq, OnlySlice

\* A task fails: the slice is shown as failed.
Failed(i) ==
    /\ req'[i].pc = "over" /\ SameTask(i) /\ OnlyReq(i)
    /\ SameSlice(req[i].slice) /\ OnlySlice(req[i].slice)
    /\ nsi'[req[i].slice].shown = "failed"

LEMMA FailsDoes ==
    ASSUME Typed, NEW i \in Request, There(req[i].slice),
           req[i].slice \in Slice, Fails(i)
    PROVE  /\ Failed(i)
           /\ nsi'[req[i].slice].instantiated = nsi[req[i].slice].instantiated
<1> DEFINE n == req[i].slice
           a == [nsi[n] EXCEPT !.shown = "failed"]
<1>1. Ends(i, "FAILED", a)
  BY DEF Fails
<1>2. nsi[n] \in SliceRec
  BY DEF Typed, TypeOK
<1>3. /\ a.life = nsi[n].life /\ a.list = nsi[n].list /\ a.uses = nsi[n].uses
      /\ a.vld = nsi[n].vld /\ a.shown = "failed"
      /\ a.instantiated = nsi[n].instantiated
  BY <1>2 DEF SliceRec
<1> HIDE DEF a
<1>4. /\ req'[i].pc = "over" /\ SameTask(i) /\ OnlyReq(i)
      /\ nsi'[n] = a /\ OnlySlice(n)
  BY <1>1, EndsDoes
<1> QED  BY <1>3, <1>4 DEF Failed, SameSlice

\* The task of request i begins, or goes on.
Writes(i) ==
    /\ req[i].pc # "write" /\ req'[i].pc = "write" /\ SameTask(i) /\ OnlyReq(i)
    /\ req'[i].state = req[i].state
    /\ Reads(i, req'[i].read)

LEMMA WritesDoes ==
    ASSUME Typed, NEW i \in Request, req[i].slice \in Slice,
           req[i].pc # "write",
           req' = [req EXCEPT ![i].pc = "write", ![i].read = ReadNow(i)]
    PROVE  Writes(i)
<1>1. req \in [Request -> ReqRec] /\ req[i] \in ReqRec
  BY DEF Typed, TypeOK
<1> DEFINE now == ReadNow(i)
<1>2. req' = [req EXCEPT ![i].pc = "write", ![i].read = now]
  OBVIOUS
<1>3. Reads(i, now)
  BY ReadNowReads
<1> HIDE DEF now
<1>4. req'[i].pc = "write" /\ SameTask(i) /\ OnlyReq(i) /\ req'[i].read = now
      /\ req'[i].state = req[i].state
  BY <1>1, <1>2 DEF ReqRec, SameTask, OnlyReq
<1> QED  BY <1>3, <1>4 DEF Writes

LEMMA StartDoes ==
    ASSUME Typed, Undisturbed', Alive, NEW i \in Request, Start(i)
    PROVE  LET n == req[i].slice
           IN /\ Undisturbed /\ req[i].pc = "sent" /\ Turn(i)
              /\ UNCHANGED <<nsr, handler, notices, marks, faults>>
              /\ \/ /\ Failed(i) /\ UNCHANGED nslcmop
                    /\ nsi[n].instantiated => nsi'[n].instantiated
                    /\ Terminates(i) =>
                           nsi'[n].instantiated = nsi[n].instantiated
                 \/ /\ req'[i].pc = "over" /\ SameTask(i) /\ OnlyReq(i)
                    /\ UNCHANGED <<nsi, nslcmop>>
                 \/ /\ Instantiates(i) /\ Writes(i) /\ Launched(OpsOf(i))
                    /\ SameSlice(n) /\ OnlySlice(n)
                    /\ nsi'[n].instantiated /\ nsi'[n].shown = "init"
                 \/ /\ Terminates(i) /\ Writes(i) /\ Launched(Terminable(i))
                    /\ \A o \in OpsOf(i) : nslcmop[o].state # "none"
                    /\ SameSlice(n) /\ OnlySlice(n)
                    /\ nsi'[n].instantiated = nsi[n].instantiated
                    /\ nsi'[n].shown = "terminating"
<1> DEFINE n == req[i].slice
<1>1. /\ req[i].pc = "sent" /\ Turn(i) /\ Undisturbed
      /\ UNCHANGED <<nsr, handler, notices, marks, faults>>
  BY DEF Start, Undisturbed
<1>2. /\ n \in Slice /\ nsi \in [Slice -> SliceRec] /\ nsi[n] \in SliceRec
      /\ req \in [Request -> ReqRec] /\ req[i] \in ReqRec
  BY <1>1 DEF Typed, TypeOK, SliceKnown
<1>3. There(n) /\ req[i].state = "PROCESSING"
  BY <1>1 DEF Alive, Active
<1>4. ~StartNothing(i)
  BY <1>3 DEF StartNothing, Exists
<1>5. CASE StartInstantiate(i)
  <2> DEFINE started == [nsi[n] EXCEPT !.instantiated = TRUE, !.shown = "init"]
             failed == [started EXCEPT !.shown = "failed"]
  <2>1. /\ started.life = nsi[n].life /\ started.list = nsi[n].list
        /\ started.uses = nsi[n].uses /\ started.vld = nsi[n].vld
        /\ started.shown = "init" /\ started.instantiated
        /\ failed.life = nsi[n].life /\ failed.list = nsi[n].list
        /\ failed.uses = nsi[n].uses /\ failed.vld = nsi[n].vld
        /\ failed.shown = "failed" /\ failed.instantiated
    BY <1>2 DEF SliceRec
  <2>2. /\ Instantiates(i)
        /\ \/ Ends(i, "FAILED", failed) /\ UNCHANGED nslcmop
           \/ /\ nsi' = [nsi EXCEPT ![n] = started]
              /\ req' = [req EXCEPT ![i].pc = "write", ![i].read = ReadNow(i)]
              /\ Launches(OpsOf(i))
    BY <1>5 DEF StartInstantiate, Instantiates
  <2> HIDE DEF started, failed
  <2>3. CASE Ends(i, "FAILED", failed) /\ UNCHANGED nslcmop
    <3>1. /\ req'[i].pc = "over" /\ SameTask(i) /\ OnlyReq(i)
          /\ nsi'[n] = failed /\ OnlySlice(n)
      BY <1>2, <1>3, <2>3, EndsDoes
    <3>2. Failed(i) /\ nsi'[n].instantiated
      BY <2>1, <3>1 DEF Failed, SameSlice
    <3>3. ~Terminates(i)
      BY <2>2 DEF Instantiates, Terminates
    <3> QED  BY <1>1, <2>3, <3>2, <3>3
  <2>4. CASE /\ nsi' = [nsi EXCEPT ![n] = started]
             /\ req' = [req EXCEPT ![i].pc = "write", ![i].read = ReadNow(i)]
             /\ Launches(OpsOf(i))
    <3>1. Writes(i)
      BY <1>1, <1>2, <2>4, WritesDoes
    <3>2. nsi'[n] = started /\ OnlySlice(n)
      BY <1>2, <2>4 DEF OnlySlice
    <3>3. Launched(OpsOf(i))
      BY <2>4, LaunchesDoes
    <3> QED  BY <1>1, <2>1, <2>2, <3>1, <3>2, <3>3 DEF SameSlice
  <2> QED  BY <2>2, <2>3, <2>4
<1>6. CASE StartTerminate(i)
  <2>1. /\ Terminates(i)
        /\ \/ req' = [req EXCEPT ![i].pc = "over"] /\ UNCHANGED <<nsi, nslcmop>>
           \/ Fails(i) /\ UNCHANGED nslcmop
           \/ /\ nsi' = [nsi EXCEPT ![n].shown = "terminating"] /\ ~Missing(i)
              /\ req' = [req EXCEPT ![i].pc = "write", ![i].read = ReadNow(i)]
              /\ Launches(Terminable(i))
    BY <1>6 DEF StartTerminate, Terminates
  <2>2. CASE req' = [req EXCEPT ![i].pc = "over"] /\ UNCHANGED <<nsi, nslcmop>>
    <3>1. req'[i].pc = "over" /\ SameTask(i) /\ OnlyReq(i)
      BY <1>2, <2>2 DEF ReqRec, SameTask, OnlyReq
    <3> QED  BY <1>1, <2>2, <3>1
  <2>3. CASE Fails(i) /\ UNCHANGED nslcmop
    BY <1>1, <1>2, <1>3, <2>3, FailsDoes
  <2>4. CASE /\ nsi' = [nsi EXCEPT ![n].shown = "terminating"] /\ ~Missing(i)
             /\ req' = [req EXCEPT ![i].pc = "write", ![i].read = ReadNow(i)]
             /\ Launches(Terminable(i))
    <3>1. Writes(i)
      BY <1>1, <1>2, <2>4, WritesDoes
    <3>2. /\ SameSlice(n) /\ OnlySlice(n) /\ nsi'[n].shown = "terminating"
          /\ nsi'[n].instantiated = nsi[n].instantiated
      BY <1>2, <2>4 DEF SliceRec, SameSlice, OnlySlice
    <3>3. Launched(Terminable(i))
      BY <2>4, LaunchesDoes
    <3>4. \A o \in OpsOf(i) : nslcmop[o].state # "none"
      BY <2>4 DEF Missing
    <3> QED  BY <1>1, <2>1, <3>1, <3>2, <3>3, <3>4
  <2> QED  BY <2>1, <2>2, <2>3, <2>4
<1> QED  BY <1>1, <1>4, <1>5, <1>6 DEF Start

LEMMA GiveUpDoes ==
    ASSUME Typed, Undisturbed', NEW i \in Request, GiveUp(i)
    PROVE  /\ Undisturbed /\ req[i].pc = "sent" /\ req'[i].pc = "over"
           /\ SameTask(i) /\ OnlyReq(i)
           /\ UNCHANGED <<nsi, nsr, nslcmop, handler, notices, marks>>
<1>1. req \in [Request -> ReqRec] /\ req[i] \in ReqRec
  BY DEF Typed, TypeOK
<1> QED  BY <1>1 DEF GiveUp, ReqRec, SameTask, OnlyReq, Undisturbed

LEMMA PollDoes ==
    ASSUME Typed, Undisturbed', Alive, NEW i \in Request, Poll(i) \/ Late(i)
    PROVE  /\ Undisturbed /\ req[i].pc = "poll"
           /\ UNCHANGED <<nsr, nslcmop, handler, notices, marks>>
           /\ \/ /\ Failed(i)
                 /\ nsi'[req[i].slice].instantiated
                        = nsi[req[i].slice].instantiated
              \/ Writes(i) /\ UNCHANGED nsi
<1>1. /\ req[i].pc = "poll" /\ Undisturbed
      /\ UNCHANGED <<nsr, nslcmop, handler, notices, marks>>
      /\ \/ Fails(i)
         \/ /\ req' = [req EXCEPT ![i].pc = "write", ![i].read = ReadNow(i)]
            /\ UNCHANGED nsi
  BY DEF Poll, Late, Undisturbed
<1>2. req[i].slice \in Slice /\ There(req[i].slice)
  BY <1>1 DEF Typed, SliceKnown, Alive, Active
<1>3. CASE Fails(i)
  BY <1>1, <1>2, <1>3, FailsDoes
<1>4. CASE /\ req' = [req EXCEPT ![i].pc = "write", ![i].read = ReadNow(i)]
           /\ UNCHANGED nsi
  <2>1. Writes(i)
    BY <1>1, <1>2, <1>4, WritesDoes
  <2> QED  BY <1>1, <1>4, <2>1
<1> QED  BY <1>1, <1>3, <1>4

LEMMA WriteDoes ==
    ASSUME Typed, Undisturbed', Alive, NEW i \in Request, Write(i)
    PROVE  LET n == req[i].slice  read == req[i].read
           IN /\ Undisturbed /\ req[i].pc = "write"
              /\ SameTask(i) /\ OnlyReq(i) /\ OnlySlice(n)
              /\ \A r \in read.list : nsi[n].uses[r] = read.uses[r]
              /\ nsi'[n].life = nsi[n].life /\ nsi'[n].vld = nsi[n].vld
              /\ nsi'[n].list = read.list /\ nsi'[n].uses = read.uses
              /\ \/ /\ req'[i].pc = "poll" /\ req'[i].state = req[i].state
                    /\ nsi'[n].instantiated = nsi[n].instantiated
                    /\ nsi'[n].shown = nsi[n].shown
                    /\ req'[i].read = NoRead
                 \/ /\ req'[i].pc = "over" /\ nsi'[n].shown = "failed"
                    /\ nsi'[n].instantiated = nsi[n].instantiated
                 \/ /\ req'[i].pc = "over" /\ nsi'[n].shown = "terminated"
                    /\ ~nsi'[n].instantiated
                    /\ Terminates(i) /\ read.all = "COMPLETED"
                 \/ /\ req'[i].pc = "over" /\ nsi'[n].shown = "running"
                    /\ nsi'[n].instantiated = nsi[n].instantiated
                    /\ Instantiates(i) /\ read.all = "COMPLETED"
              /\ marks' = marks
              /\ UNCHANGED <<nsr, nslcmop, handler, faults>>
<1> DEFINE n == req[i].slice
           read == req[i].read
           written == [nsi[n] EXCEPT !.list = read.list, !.uses = read.uses]
           failed == [written EXCEPT !.shown = "failed"]
           done == [written EXCEPT !.instantiated = FALSE,
                                   !.shown = "terminated"]
           running == [written EXCEPT !.shown = "running"]
<1>1. req[i].pc = "write" /\ UNCHANGED <<nsr, nslcmop, handler, faults>>
  BY DEF Write
<1>2. /\ req \in [Request -> ReqRec] /\ req[i] \in ReqRec /\ n \in Slice
      /\ nsi \in [Slice -> SliceRec] /\ nsi[n] \in SliceRec
  BY <1>1 DEF Typed, TypeOK, SliceKnown
<1>3. There(n)
  BY <1>1 DEF Alive, Active
<1>4. /\ "overwritten" \notin marks' /\ marks \subseteq marks'
      /\ Undisturbed
  BY DEF Write, Undisturbed
<1>5. marks' = marks /\ \A r \in read.list : nsi[n].uses[r] = read.uses[r]
  BY <1>3, <1>4 DEF Write
<1>6. read \in ReadRec
  BY <1>2 DEF ReqRec
<1>7. \/ /\ nsi' = [nsi EXCEPT ![n] = written]
         /\ req' = [req EXCEPT ![i].pc = "poll", ![i].read = NoRead,
                               ![i].seen = {read}]
      \/ Ends(i, "FAILED", failed)
      \/ Ends(i, "COMPLETED", done) /\ Terminates(i) /\ read.all = "COMPLETED"
      \/ Ends(i, "COMPLETED", running) /\ ~Terminates(i)
             /\ read.all = "COMPLETED"
  <2>1. read.all \in {"open", "COMPLETED", "FAILED"}
    BY <1>6 DEF ReadRec
  <2> QED  BY <1>3, <2>1 DEF Write, Terminates
<1>8. Instantiates(i) \/ Terminates(i)
  BY <1>2 DEF ReqRec, Instantiates, Terminates
<1>9. /\ written.life = nsi[n].life /\ written.vld = nsi[n].vld
      /\ written.list = read.list /\ written.uses = read.uses
      /\ written.shown = nsi[n].shown
      /\ written.instantiated = nsi[n].instantiated
      /\ written \in SliceRec
  BY <1>2, <1>6 DEF SliceRec, ReadRec
<1> HIDE DEF written
<1>10. /\ failed.life = written.life /\ failed.vld = written.vld
       /\ failed.list = written.list /\ failed.uses = written.uses
       /\ failed.instantiated = written.instantiated
       /\ failed.shown = "failed"
       /\ done.life = written.life /\ done.vld = written.vld
       /\ done.list = written.list /\ done.uses = written.uses
       /\ ~done.instantiated /\ done.shown = "terminated"
       /\ running.life = written.life /\ running.vld = written.vld
       /\ running.list = written.list /\ running.uses = written.uses
       /\ running.instantiated = written.instantiated
       /\ running.shown = "running"
  BY <1>9 DEF SliceRec
<1> HIDE DEF failed, done, running
<1>11. CASE /\ nsi' = [nsi EXCEPT ![n] = written]
            /\ req' = [req EXCEPT ![i].pc = "poll", ![i].read = NoRead,
                                  ![i].seen = {read}]
  <2> HIDE DEF read
  <2>1. /\ req'[i].pc = "poll" /\ req'[i].state = req[i].state
        /\ req'[i].read = NoRead /\ SameTask(i) /\ OnlyReq(i)
    BY <1>2, <1>11 DEF ReqRec, SameTask, OnlyReq
  <2>2. nsi'[n] = written /\ OnlySlice(n)
    BY <1>2, <1>11 DEF OnlySlice
  <2> QED  BY <1>1, <1>4, <1>5, <1>9, <2>1, <2>2 DEF read
<1>12. CASE Ends(i, "FAILED", failed)
  <2>1. /\ req'[i].pc = "over" /\ SameTask(i) /\ OnlyReq(i)
        /\ nsi'[n] = failed /\ OnlySlice(n)
    BY <1>2, <1>3, <1>12, EndsDoes
  <2> QED  BY <1>1, <1>4, <1>5, <1>9, <1>10, <2>1
<1>13. CASE Ends(i, "COMPLETED", done) /\ Terminates(i) /\ read.all = "COMPLETED"
  <2>1. /\ req'[i].pc = "over" /\ SameTask(i) /\ OnlyReq(i)
        /\ nsi'[n] = done /\ OnlySlice(n)
    BY <1>2, <1>3, <1>13, EndsDoes
  <2> QED  BY <1>1, <1>4, <1>5, <1>9, <1>10, <1>13, <2>1
<1>14. CASE Ends(i, "COMPLETED", running) /\ ~Terminates(i)
              /\ read.all = "COMPLETED"
  <2>1. /\ req'[i].pc = "over" /\ SameTask(i) /\ OnlyReq(i)
        /\ nsi'[n] = running /\ OnlySlice(n)
    BY <1>2, <1>3, <1>14, EndsDoes
  <2> QED  BY <1>1, <1>4, <1>5, <1>8, <1>9, <1>10, <1>14, <2>1
<1> QED  BY <1>7, <1>11, <1>12, <1>13, <1>14

\* What the task of NS operation o does: it ends, or begins to work.
OnlyOp(o) == \A p \in Request \X Nsr \ {o} : nslcmop'[p] = nslcmop[p]
OpEnds(o, state) ==
    /\ OnlyOp(o) /\ nslcmop'[o].run = "over"
    /\ nslcmop'[o].state = IF nslcmop[o].state = "none" THEN "none" ELSE state

LEMMA NsEndsDoes ==
    ASSUME Typed, NEW o \in Request \X Nsr, NEW state, NsEnds(o, state)
    PROVE  OpEnds(o, state)
<1>1. nslcmop \in [Request \X Nsr -> NsOpRec] /\ nslcmop[o] \in NsOpRec
  BY DEF Typed, TypeOK
<1> QED  BY <1>1 DEF NsEnds, NsOpRec, OpEnds, OnlyOp

LEMMA NsStartDoes ==
    ASSUME Typed, Undisturbed', NEW o \in Request \X Nsr, NsStart(o)
    PROVE  /\ Undisturbed /\ nslcmop[o].run = "wait" /\ NsTurn(o)
           /\ \/ /\ OpEnds(o, "COMPLETED") /\ UNCHANGED nsr
                 /\ ~Processing(o) \/ Terminates(o[1])
              \/ /\ Processing(o) /\ OnlyOp(o)
                 /\ nslcmop'[o].run = "work"
                 /\ nslcmop'[o].state = nslcmop[o].state
                 /\ \A r \in Nsr :
                        nsr'[r] = IF r = o[2] THEN "instantiated" ELSE nsr[r]
           /\ UNCHANGED <<nsi, req, handler, notices, marks, faults>>
<1>1. /\ nslcmop[o].run = "wait" /\ NsTurn(o) /\ Undisturbed
      /\ UNCHANGED <<nsi, req, handler, notices, marks, faults>>
  BY DEF NsStart, Undisturbed
<1>2. nslcmop \in [Request \X Nsr -> NsOpRec] /\ nslcmop[o] \in NsOpRec
  BY DEF Typed, TypeOK
<1>3. CASE /\ ~Processing(o) \/ Terminates(o[1])
           /\ NsEnds(o, "COMPLETED") /\ UNCHANGED nsr
  BY <1>1, <1>3, NsEndsDoes
<1>4. CASE /\ Processing(o)
           /\ nslcmop' = [nslcmop EXCEPT ![o].run = "work"]
           /\ nsr' = [nsr EXCEPT ![o[2]] = "instantiated"]
  <2>1. /\ OnlyOp(o) /\ nslcmop'[o].run = "work"
        /\ nslcmop'[o].state = nslcmop[o].state
    BY <1>2, <1>4 DEF NsOpRec, OnlyOp
  <2>2. \A r \in Nsr : nsr'[r] = IF r = o[2] THEN "instantiated" ELSE nsr[r]
    BY <1>4 DEF Typed, TypeOK
  <2> QED  BY <1>1, <1>4, <2>1, <2>2
<1> QED  BY <1>3, <1>4 DEF NsStart, NsBegins, Terminates

LEMMA NsDoneDoes ==
    ASSUME Typed, Undisturbed', NEW o \in Request \X Nsr, NsDone(o)
    PROVE  /\ Undisturbed /\ nslcmop[o].run = "work" /\ OpEnds(o, "COMPLETED")
           /\ \A r \in Nsr :
                  nsr'[r] = IF /\ r = o[2] /\ Terminates(o[1])
                               /\ nsr[r] = "instantiated"
                              THEN "idle" ELSE nsr[r]
           /\ UNCHANGED <<nsi, req, handler, notices, marks, faults>>
<1>1. \A r \in Nsr :
          nsr'[r] = IF /\ r = o[2] /\ Terminates(o[1])
                       /\ nsr[r] = "instantiated"
                      THEN "idle" ELSE nsr[r]
  BY DEF NsDone, Typed, TypeOK, Terminates
<1> QED  BY <1>1, NsEndsDoes DEF NsDone, Undisturbed

LEMMA NsFailsDoes ==
    ASSUME Typed, Undisturbed', NEW o \in Request \X Nsr,
           NsFails(o) \/ NsGivesUp(o)
    PROVE  /\ Undisturbed /\ nslcmop[o].run \in {"wait", "work"}
           /\ OpEnds(o, "FAILED")
           /\ UNCHANGED <<nsi, nsr, req, handler, notices, marks>>
BY NsEndsDoes DEF NsFails, NsGivesUp, Undisturbed

-----------------------------------------------------------------------------
(* Every step of NBI's handlers keeps the invariant                         *)

\* While slices, requests and NS operations stay the same.
LEMMA RequestsStay ==
    ASSUME Sound, UNCHANGED <<nsi, nslcmop, req>>, marks \subseteq marks'
    PROVE  /\ TasksInTurn' /\ Reliance' /\ KindsInTurn' /\ VldKnown' /\ Keeping'
           /\ OpsInTurn'
<1>1. TasksInTurn'
  BY DEF Sound, TasksInTurn, Working, Terminates
<1>2. Reliance'
  BY DEF Sound, Reliance, Holds, There, Instantiates, Terminates, Untouched,
         OthersListing
<1>3. KindsInTurn'
  BY DEF Sound, KindsInTurn, Instantiates, Active
<1>4. VldKnown'
  BY DEF Sound, VldKnown, There, Instantiates, Terminates, Open, Active,
         Working, Shared
<1>5. Keeping'
  BY DEF Sound, Keeping, There, Kept, Unshaken, Instantiates, Terminates
<1>6. OpsInTurn'
  BY DEF Sound, OpsInTurn
<1> QED  BY <1>1, <1>2, <1>3, <1>4, <1>5, <1>6

LEMMA FindSharedKeeps ==
    ASSUME Typed, Sound, Undisturbed', NEW n \in Slice, FindShared(n)
    PROVE  Sound'
<1>1. /\ NbiFree /\ nsi[n].life = "new" /\ OnlyHandler(n)
      /\ UNCHANGED <<nsi, nslcmop, req, notices, faults>>
  BY FindSharedDoes
<1>2. PICK s \in SharedNs :
          /\ handler'[n] = [pc |-> "new", list |-> {s, n}]
          /\ Listed # {} => s \in Listed
          /\ Listed = {} => nsr[s] = "new"
          /\ \A r \in Nsr :
                 nsr'[r] = IF r = n \/ (r = s /\ Listed = {})
                             THEN "idle" ELSE nsr[r]
  BY FindSharedDoes
<1>3. marks \subseteq marks'
  BY DEF FindShared
<1>4. handler'[n].pc = "new" /\ handler'[n].list = {s, n}
  BY <1>2
<1>5. \A i \in Request : Untouched(<<i, n>>)
  <2> SUFFICES ASSUME NEW i \in Request
               PROVE  Untouched(<<i, n>>)
    OBVIOUS
  <2>1. n \in Nsr
    BY DEF Nsr
  <2>2. CASE req[i].pc = "free"
    BY <2>1, <2>2 DEF Sound, OpsKnown
  <2>3. CASE req[i].pc # "free"
    <3>1. req[i].slice # n
      BY <1>1, <2>3 DEF Sound, Alive
    <3> QED  BY <2>1, <3>1 DEF Sound, OpsKnown
  <2> QED  BY <2>2, <2>3
<1>6. InTurn'
  BY <1>1, <1>4 DEF Sound, InTurn, NbiFree, OnlyHandler, Open
<1>7. Alive'
  <2>1. ASSUME NEW i \in Request, Active(i)
        PROVE  req[i].slice \in Slice \ {n}
    <3>1. req[i].slice \in Slice /\ There(req[i].slice)
      BY <2>1 DEF Typed, SliceKnown, Active, Sound, Alive
    <3> QED  BY <1>1, <3>1 DEF There
  <2>2. nsi[n] = NewSlice /\ ~nsi[n].instantiated
    <3>1. nsi[n] = NewSlice
      BY <1>1 DEF Sound, Alive
    <3>2. ~NewSlice.instantiated
      BY DEF NewSlice
    <3> QED  BY <3>1, <3>2
  <2>3. ASSUME NEW m \in Slice
        PROVE  /\ nsi'[m].life = "new" => nsi'[m] = NewSlice
               /\ handler'[m].pc = "new" => nsi'[m].life = "new"
               /\ handler'[m].pc \in {"shared", "own"} => ~There(m)'
               /\ handler'[m].pc # "idle" => ~nsi'[m].instantiated
    BY <1>1, <1>4, <2>2 DEF Sound, Alive, OnlyHandler, There
  <2>4. ASSUME NEW i \in Request
        PROVE  /\ Active(i)' => /\ There(req[i].slice)'
                                /\ handler'[req[i].slice].pc = "idle"
               /\ req'[i].pc # "free" => nsi'[req'[i].slice].life # "new"
               /\ req'[i].pc \in {"sent", "poll", "write"}
                      => req'[i].state = "PROCESSING"
    BY <1>1, <2>1 DEF Sound, Alive, OnlyHandler, There, Active
  <2> QED  BY <1>1, <2>3, <2>4 DEF Alive
<1>8. Lists'
  <2>1. \A r \in Nsr : Exist(r) => Exist(r)'
    BY <1>2 DEF Exist
  <2>2. n \in Nsr /\ s \in Nsr /\ n \notin SharedNs
    BY SliceAssumption DEF Nsr
  <2>3. Exist(n)' /\ Exist(s)'
    <3>1. Exist(n)'
      BY <1>2, <2>2 DEF Exist
    <3>2. CASE Listed = {}
      BY <1>2, <2>2, <3>1, <3>2 DEF Exist
    <3>3. CASE Listed # {}
      <4>1. PICK k \in Slice : There(k) /\ s \in nsi[k].list
        BY <1>2, <3>3 DEF Listed, Shared
      <4>2. Exist(s)
        BY <4>1 DEF Sound, Lists
      <4> QED  BY <2>1, <2>2, <3>1, <4>2
    <3> QED  BY <3>2, <3>3
  <2>4. Listable(n, handler'[n].list)
    BY <1>4, <2>2 DEF Listable, Shared
  <2>5. \A m \in Slice : nsi[m].list \subseteq Nsr /\ handler[m].list \subseteq Nsr
    BY DEF Typed, TypeOK, SliceRec, HandlerRec
  <2>6. ASSUME NEW m \in Slice
        PROVE  /\ Listable(m, nsi[m].list)' /\ Listable(m, handler[m].list)'
               /\ There(m)' => \A r \in nsi'[m].list : Exist(r)'
               /\ handler'[m].pc = "new" =>
                      \A r \in handler'[m].list : Exist(r)'
    <3>1. CASE m = n
      BY <1>1, <1>4, <2>3, <2>4, <3>1 DEF Sound, Lists, Listable, Shared, There
    <3>2. CASE m # n
      BY <1>1, <2>1, <2>5, <3>2
      DEF Sound, Lists, Listable, Shared, There, OnlyHandler
    <3> QED  BY <3>1, <3>2
  <2> QED  BY <1>1, <2>6 DEF Sound, Lists, Listable, Shared, Open
<1>9. OpsKnown'
  <2>1. \A r \in Nsr : Exist(r) => Exist(r)'
    BY <1>2 DEF Exist
  <2>2. ASSUME NEW i \in Request, NEW r \in Nsr,
               nslcmop[<<i, r>>].run = "work", nsr[r] = "gone"
        PROVE  nsr'[r] = "gone"
    BY <1>2, <1>5, <2>2 DEF Untouched
  <2> QED
    BY <1>1, <2>1, <2>2
    DEF Sound, OpsKnown, Asked, Instantiates, Terminates, Untouched, Open,
        Processing
<1>10. NssInTurn'
  <2>1. ASSUME NEW q \in Request, NEW r \in Nsr, Runs(q, r), Unshaken(q, r)
        PROVE  nsr'[r] \in {"instantiated", "gone"}
    <3>1. nsr[r] \in {"instantiated", "gone"}
      BY <2>1 DEF Sound, NssInTurn
    <3>2. r # n
      BY <1>5, <2>1 DEF Runs, Untouched
    <3> QED  BY <1>2, <3>1, <3>2
  <2>2. \A q \in Request, r \in Nsr :
            /\ Runs(q, r)' = Runs(q, r) /\ Unshaken(q, r)' = Unshaken(q, r)
            /\ Pending(q, r)' = Pending(q, r)
            /\ Terminates(q)' = Terminates(q)
    BY <1>1 DEF Runs, Unshaken, Pending, Processing, NsStuck, Instantiates,
                Terminates
  <2> QED  BY <2>1, <2>2 DEF Sound, NssInTurn
<1> QED
  BY <1>1, <1>3, <1>6, <1>7, <1>8, <1>9, <1>10, RequestsStay DEF Sound

\* While a slice that nobody works on comes or goes.
LEMMA RecordChanges ==
    ASSUME Typed, Sound, NEW n \in Slice, handler[n].pc # "idle", OnlySlice(n),
           nsi'[n].life # "new", nsi'[n].shown = "none",
           ~nsi'[n].instantiated, nsi'[n].uses = NoUse,
           UNCHANGED <<nsr, nslcmop, req, marks>>
    PROVE  /\ TasksInTurn' /\ OpsKnown' /\ NssInTurn' /\ Reliance'
           /\ KindsInTurn' /\ VldKnown' /\ Keeping' /\ OpsInTurn'
<1>1. \A i \in Request : Active(i) => req[i].slice \in Slice \ {n}
  BY DEF Typed, SliceKnown, Active, Sound, Alive
<1>2. \A i \in Request : ~Open(i)
  BY DEF Sound, InTurn
<1>3. \A i \in Request :
          Active(i) => nsi'[req[i].slice] = nsi[req[i].slice]
  BY <1>1 DEF OnlySlice
<1>4. \A r \in Nsr : nsi'[n].uses[r] = NoRequest
  BY DEF NoUse
<1>5. TasksInTurn'
  BY DEF Sound, TasksInTurn, Working, Terminates
<1>6. OpsKnown'
  <2>1. ASSUME NEW m \in Slice, NEW r \in Nsr, nsi'[m].uses[r] # NoRequest
        PROVE  Asked(nsi[m].uses[r])'
    <3>1. m # n /\ nsi'[m] = nsi[m]
      BY <1>4, <2>1 DEF OnlySlice
    <3> QED  BY <2>1, <3>1 DEF Sound, OpsKnown, Asked, Instantiates
  <2> QED
    BY <2>1 DEF Sound, OpsKnown, Asked, Instantiates, Terminates, Untouched,
                Open, Processing, Exist
<1>7. NssInTurn'
  BY DEF Sound, NssInTurn, Runs, Unshaken, Pending, Processing, NsStuck,
         Instantiates, Terminates
<1>8. Reliance'
  <2>1. ASSUME NEW q \in Request, NEW s \in SharedNs, Holds(q, s)'
        PROVE  Holds(q, s)
    <3>1. q # NoRequest /\ s \in Nsr
      BY DEF Request, NoRequest, Nsr
    <3>2. CASE \E m \in Slice :
                   There(m)' /\ s \in nsi'[m].list /\ nsi'[m].uses[s] = q
      BY <1>4, <3>1, <3>2 DEF Holds, There, OnlySlice
    <3>3. CASE \E i \in Request :
                   /\ Instantiates(i)' /\ req'[i].pc \in {"own", "sent"}
                   /\ s \in nsi'[req'[i].slice].list /\ req'[i].ops[s] = q
      BY <1>3, <3>3 DEF Holds, Instantiates, Active
    <3>4. CASE \E i \in Request :
                   /\ Instantiates(i)' /\ req'[i].pc = "act"
                   /\ s \in req'[i].read.list /\ req'[i].found = q
      BY <3>4 DEF Holds, Instantiates
    <3> QED  BY <2>1, <3>2, <3>3, <3>4 DEF Holds
  <2>2. \A q, t \in Request, s \in SharedNs :
            Holds(q, s)' /\ q < t /\ Terminates(t)' => Untouched(<<t, s>>)'
    BY <2>1 DEF Sound, Reliance, Terminates, Untouched
  <2>3. \A i \in Request, s \in SharedNs :
             /\ Instantiates(i)' /\ req'[i].pc \in {"own", "sent"}
             /\ s \in nsi'[req'[i].slice].list /\ req'[i].ops[s] # NoRequest
           => nsi'[req'[i].slice].uses[s] # NoRequest
    BY <1>3 DEF Sound, Reliance, Instantiates, Active
  <2> QED  BY <1>2, <2>2, <2>3 DEF Reliance, Open
<1>9. KindsInTurn'
  BY <1>3 DEF Sound, KindsInTurn, Instantiates, Active
<1>10. VldKnown'
  <2>1. IsFiniteSet({m \in Slice : nsi'[m].life # "new"})
    <3>1. {m \in Slice : nsi'[m].life # "new"}
              = {m \in Slice : nsi[m].life # "new"} \cup {n}
      BY DEF OnlySlice, Sound, Alive
    <3>2. IsFiniteSet({m \in Slice : nsi[m].life # "new"})
      BY DEF Sound, VldKnown
    <3> QED  BY <3>1, <3>2, FS_AddElement
  <2>2. ASSUME NEW m \in Slice
        PROVE  /\ There(m)' /\ nsi'[m].instantiated
                      => Shared(nsi'[m].list) \subseteq nsi'[m].vld
               /\ nsi'[m].shown \in {"init", "running"} => nsi'[m].instantiated
    BY DEF OnlySlice, Sound, VldKnown, There, Shared
  <2>3. \A i \in Request :
           /\ Instantiates(i)' /\ req'[i].pc \in {"own", "sent"}
                  => Shared(nsi'[req'[i].slice].list)
                         \subseteq nsi'[req'[i].slice].vld
           /\ Terminates(i)' /\ Open(i)'
                  => Shared(req'[i].read.list) \subseteq nsi'[req'[i].slice].vld
           /\ Terminates(i)' /\ Active(i)'
                  => \A s \in SharedNs : req'[i].ops[s] # NoRequest
                         => s \in nsi'[req'[i].slice].vld
           /\ Working(i)' =>
                  nsi'[req'[i].slice].shown =
                      IF Instantiates(i)' THEN "init" ELSE "terminating"
    BY <1>3 DEF Sound, VldKnown, Instantiates, Terminates, Active, Open,
                Working, Shared
  <2> QED  BY <2>1, <2>2, <2>3 DEF VldKnown
<1>11. Keeping'
  <2>1. ASSUME NEW m \in Slice, There(m)', nsi'[m].shown = "running",
               NEW r \in nsi'[m].list
        PROVE  Kept(r)'
    <3>1. nsi'[m] = nsi[m]
      BY <2>1 DEF OnlySlice
    <3> QED
      BY <2>1, <3>1 DEF Sound, Keeping, Kept, Unshaken, Instantiates,
                        Terminates, There
  <2>2. \A i \in Request :
           Instantiates(i)' /\ req'[i].pc \in {"own", "sent", "poll", "write"} =>
               \A r \in nsi'[req'[i].slice].list :
                   req'[i].ops[r] # NoRequest => Unshaken(req[i].ops[r], r)'
    BY <1>3 DEF Sound, Keeping, Unshaken, Instantiates, Terminates, Active
  <2> QED  BY <2>1, <2>2 DEF Sound, Keeping, Instantiates
<1>12. OpsInTurn'
  BY DEF Sound, OpsInTurn
<1> QED  BY <1>5, <1>6, <1>7, <1>8, <1>9, <1>10, <1>11, <1>12

LEMMA CreateSliceKeeps ==
    ASSUME Typed, Sound, Undisturbed', NEW n \in Slice, CreateSlice(n)
    PROVE  Sound'
<1>1. /\ handler[n].pc = "new" /\ handler'[n] = Idle
      /\ nsi'[n].life = "there" /\ nsi'[n].list = handler[n].list
      /\ nsi'[n].instantiated = nsi[n].instantiated
      /\ nsi'[n].shown = nsi[n].shown
      /\ nsi'[n].uses = nsi[n].uses
      /\ OnlyHandler(n) /\ OnlySlice(n)
      /\ UNCHANGED <<nsr, nslcmop, req, notices, marks, faults>>
  BY CreateSliceDoes
<1>2. nsi[n] = NewSlice
  BY <1>1 DEF Sound, Alive
<1>3. ~nsi'[n].instantiated /\ nsi'[n].shown = "none" /\ nsi'[n].uses = NoUse
  BY <1>1, <1>2 DEF NewSlice
<1>4. handler'[n].pc = "idle" /\ handler'[n].list = {}
  BY <1>1 DEF Idle
<1>5. InTurn'
  BY <1>1, <1>4 DEF Sound, InTurn, OnlyHandler, Open
<1>6. Alive'
  <2>1. \A i \in Request : Active(i) => req[i].slice \in Slice \ {n}
    BY <1>1 DEF Typed, SliceKnown, Active, Sound, Alive
  <2>2. \A i \in Request : req[i].pc # "free" => req[i].slice \in Slice
    BY DEF Typed, SliceKnown
  <2> QED
    BY <1>1, <1>4, <2>1, <2>2
    DEF Sound, Alive, OnlyHandler, OnlySlice, There, Active
<1>7. Lists'
  <2>1. ASSUME NEW m \in Slice
        PROVE  /\ Listable(m, nsi[m].list)' /\ Listable(m, handler[m].list)'
               /\ There(m)' => \A r \in nsi'[m].list : Exist(r)'
               /\ handler'[m].pc = "new" =>
                      \A r \in handler'[m].list : Exist(r)'
    <3>1. CASE m = n
      BY <1>1, <1>4, <3>1 DEF Sound, Lists, Listable, Shared, Exist
    <3>2. CASE m # n
      BY <1>1, <3>2
      DEF Sound, Lists, Listable, Shared, There, OnlyHandler, OnlySlice, Exist
    <3> QED  BY <3>1, <3>2
  <2>2. \A i \in Request : ~Open(i)
    BY <1>1 DEF Sound, InTurn
  <2>3. ASSUME NEW i \in Request, req[i].pc = "write"
        PROVE  nsi'[req[i].slice] = nsi[req[i].slice]
    <3>1. req[i].slice \in Slice \ {n}
      BY <1>1, <2>3 DEF Typed, SliceKnown, Active, Sound, Alive
    <3> QED  BY <1>1, <3>1 DEF OnlySlice
  <2> QED
    BY <1>1, <2>1, <2>2, <2>3 DEF Sound, Lists, Listable, Shared, Open
<1>8. /\ TasksInTurn' /\ OpsKnown' /\ NssInTurn' /\ Reliance'
      /\ KindsInTurn' /\ VldKnown' /\ Keeping' /\ OpsInTurn'
  BY <1>1, <1>3, RecordChanges
<1> QED  BY <1>5, <1>6, <1>7, <1>8 DEF Sound

LEMMA RemoveRecordKeeps ==
    ASSUME Typed, Sound, Undisturbed', NEW n \in Slice, RemoveRecord(n)
    PROVE  Sound'
<1>1. /\ handler[n].pc = "remove" /\ handler'[n].pc \in {"shared", "own"}
      /\ handler'[n].list = handler[n].list
      /\ OnlyHandler(n) /\ OnlySlice(n)
      /\ UNCHANGED <<nsr, nslcmop, req, notices, marks, faults>>
  BY RemoveRecordDoes
<1>2. /\ ~nsi'[n].instantiated /\ nsi'[n].shown = "none"
      /\ nsi'[n].uses = NoUse /\ nsi'[n].life = "gone" /\ nsi'[n].list = {}
  <2>1. nsi'[n] = [NewSlice EXCEPT !.life = "gone"]
    BY RemoveRecordDoes
  <2> QED  BY <2>1 DEF NewSlice
<1>3. InTurn'
  BY <1>1 DEF Sound, InTurn, OnlyHandler, Open
<1>4. Alive'
  <2>1. \A i \in Request : Active(i) => req[i].slice \in Slice \ {n}
    BY <1>1 DEF Typed, SliceKnown, Active, Sound, Alive
  <2>2. \A i \in Request : req[i].pc # "free" => req[i].slice \in Slice
    BY DEF Typed, SliceKnown
  <2> QED
    BY <1>1, <1>2, <2>1, <2>2
    DEF Sound, Alive, OnlyHandler, OnlySlice, There, Active
<1>5. Lists'
  <2>1. ASSUME NEW m \in Slice
        PROVE  /\ Listable(m, nsi[m].list)' /\ Listable(m, handler[m].list)'
               /\ There(m)' => \A r \in nsi'[m].list : Exist(r)'
               /\ handler'[m].pc = "new" =>
                      \A r \in handler'[m].list : Exist(r)'
    <3>1. CASE m = n
      BY <1>1, <1>2, <3>1 DEF Sound, Lists, Listable, Shared, Exist, There
    <3>2. CASE m # n
      BY <1>1, <3>2
      DEF Sound, Lists, Listable, Shared, There, OnlyHandler, OnlySlice, Exist
    <3> QED  BY <3>1, <3>2
  <2>2. \A i \in Request : ~Open(i)
    BY <1>1 DEF Sound, InTurn
  <2>3. ASSUME NEW i \in Request, req[i].pc = "write"
        PROVE  nsi'[req[i].slice] = nsi[req[i].slice]
    <3>1. req[i].slice \in Slice \ {n}
      BY <1>1, <2>3 DEF Typed, SliceKnown, Active, Sound, Alive
    <3> QED  BY <1>1, <3>1 DEF OnlySlice
  <2> QED
    BY <1>1, <2>1, <2>2, <2>3 DEF Sound, Lists, Listable, Shared, Open
<1>6. /\ TasksInTurn' /\ OpsKnown' /\ NssInTurn' /\ Reliance'
      /\ KindsInTurn' /\ VldKnown' /\ Keeping' /\ OpsInTurn'
  BY <1>1, <1>2, RecordChanges
<1> QED  BY <1>3, <1>4, <1>5, <1>6 DEF Sound

LEMMA CheckRemoveKeeps ==
    ASSUME Typed, Sound, Undisturbed', NEW n \in Slice, CheckRemove(n),
           UNCHANGED <<nsi, nsr, nslcmop, req>>
    PROVE  Sound'
<1>1. /\ NbiFree /\ There(n) /\ ~nsi[n].instantiated
      /\ handler'[n] = [pc |-> "remove", list |-> nsi[n].list]
      /\ OnlyHandler(n)
      /\ \A i \in Request :
             req[i].slice = n => req[i].pc \notin {"sent", "poll", "write"}
  BY CheckRemoveDoes
<1>2. handler'[n].pc = "remove" /\ handler'[n].list = nsi[n].list
  BY <1>1
<1>3. marks \subseteq marks'
  BY DEF CheckRemove
<1>4. InTurn'
  BY <1>1, <1>2 DEF Sound, InTurn, NbiFree, OnlyHandler, Open
<1>5. Alive'
  <2>1. \A i \in Request : Active(i) => req[i].slice \in Slice \ {n}
    BY <1>1 DEF Typed, SliceKnown, Active, NbiFree, Open
  <2> QED
    BY <1>1, <1>2, <2>1 DEF Sound, Alive, OnlyHandler, There, Active
<1>6. Lists'
  <2>1. ASSUME NEW m \in Slice
        PROVE  /\ Listable(m, nsi[m].list)' /\ Listable(m, handler[m].list)'
               /\ There(m)' => \A r \in nsi'[m].list : Exist(r)'
               /\ handler'[m].pc = "new" =>
                      \A r \in handler'[m].list : Exist(r)'
    BY <1>1, <1>2
    DEF Sound, Lists, Listable, Shared, There, OnlyHandler, Exist
  <2> QED  BY <2>1 DEF Sound, Lists, Listable, Shared, Open
<1>7. OpsKnown'
  BY DEF Sound, OpsKnown, Asked, Instantiates, Terminates, Untouched, Open,
         Processing, Exist
<1>8. NssInTurn'
  BY DEF Sound, NssInTurn, Runs, Unshaken, Pending, Processing, NsStuck,
         Instantiates, Terminates
<1> QED  BY <1>3, <1>4, <1>5, <1>6, <1>7, <1>8, RequestsStay DEF Sound

LEMMA NothingKeeps ==
    ASSUME Sound, UNCHANGED <<nsi, nsr, nslcmop, req, handler, marks>>
    PROVE  Sound'
<1>1. InTurn' /\ Alive'
  BY DEF Sound, InTurn, Alive, Open, Active, There
<1>2. Lists'
  BY DEF Sound, Lists, Listable, Shared, There, Exist, Open
<1>3. OpsKnown'
  BY DEF Sound, OpsKnown, Asked, Instantiates, Terminates, Untouched, Open,
         Processing, Exist
<1>4. NssInTurn'
  BY DEF Sound, NssInTurn, Runs, Unshaken, Pending, Processing, NsStuck,
         Instantiates, Terminates
<1> QED  BY <1>1, <1>2, <1>3, <1>4, RequestsStay DEF Sound

LEMMA RemoveAskedKeeps ==
    ASSUME Typed, Sound, Undisturbed', NEW n \in Slice,
           RequestRemove(n) \/ AutoRemove(n)
    PROVE  Sound'
<1>1. \/ CheckRemove(n) /\ UNCHANGED <<nsi, nsr, nslcmop, req>>
      \/ UNCHANGED <<nsi, nsr, nslcmop, req, handler, marks>>
  BY DEF RequestRemove, AutoRemove
<1> QED  BY <1>1, CheckRemoveKeeps, NothingKeeps

\* Requests stay the same but for the states of their records.
SameRequests ==
    \A i \in Request :
        /\ req'[i].pc = req[i].pc /\ req'[i].slice = req[i].slice
        /\ req'[i].kind = req[i].kind /\ req'[i].ops = req[i].ops
        /\ req'[i].read = req[i].read /\ req'[i].found = req[i].found

\* Deleting NSs that no slice lists changes nothing for those that do.
LEMMA DeletionKeeps ==
    ASSUME Typed, Sound, NEW n \in Slice, NEW R, Deleted(R),
           handler[n].pc \notin {"idle", "new"},
           handler'[n].pc # "new", handler'[n].list \in {{}, handler[n].list},
           \A m \in Slice : There(m) => nsi[m].list \cap R = {},
           OnlyHandler(n), SameRequests, UNCHANGED <<nsi, marks>>
    PROVE  /\ TasksInTurn' /\ Lists' /\ OpsKnown' /\ NssInTurn' /\ Reliance'
           /\ KindsInTurn' /\ VldKnown' /\ Keeping' /\ OpsInTurn'
<1>1. \A i \in Request, r \in Nsr :
          /\ nslcmop'[<<i, r>>].run = nslcmop[<<i, r>>].run
          /\ nslcmop'[<<i, r>>].state = IF r \in R THEN "none"
                                          ELSE nslcmop[<<i, r>>].state
  BY DEF Deleted
<1>2. \A r \in Nsr : nsr'[r] = IF r \in R THEN "gone" ELSE nsr[r]
  BY DEF Deleted
<1>3. \A i \in Request : ~Open(i)
  BY DEF Sound, InTurn
<1>4. \A m \in Slice : nsi[m].list \subseteq Nsr
  BY DEF Typed, TypeOK, SliceRec
<1>5. TasksInTurn'
  BY <1>1 DEF Sound, TasksInTurn, Working, Terminates, SameRequests
<1>6. Lists'
  <2>1. ASSUME NEW m \in Slice
        PROVE  /\ Listable(m, nsi[m].list)' /\ Listable(m, handler[m].list)'
               /\ There(m)' => \A r \in nsi'[m].list : Exist(r)'
               /\ handler'[m].pc # "new"
    <3>1. Listable(m, nsi[m].list)'
      BY DEF Sound, Lists, Listable, Shared
    <3>2. Listable(m, handler[m].list)' /\ handler'[m].pc # "new"
      <4>1. CASE m = n
        BY <4>1 DEF Sound, Lists, Listable, Shared
      <4>2. CASE m # n
        BY <4>2 DEF Sound, Lists, Listable, Shared, OnlyHandler, InTurn
      <4> QED  BY <4>1, <4>2
    <3>3. There(m)' => \A r \in nsi'[m].list : Exist(r)'
      BY <1>2, <1>4 DEF Sound, Lists, There, Exist
    <3> QED  BY <3>1, <3>2, <3>3
  <2> QED
    BY <1>3, <2>1
    DEF Sound, Lists, Listable, Shared, Open, SameRequests
<1>7. OpsKnown'
  <2>1. \A q \in Request : Asked(q)' = Asked(q)
    BY DEF Asked, Instantiates, SameRequests
  <2>2. /\ \A i \in Request, r \in Nsr : req'[i].ops[r] # NoRequest =>
             /\ req'[i].pc # "free" /\ r \in SharedNs \cup {req'[i].slice}
             /\ r \in Slice \/ Terminates(i)' => req'[i].ops[r] = i
             /\ Instantiates(i)' => Asked(req[i].ops[r])'
        /\ \A m \in Slice, r \in Nsr :
             nsi'[m].uses[r] # NoRequest => Asked(nsi[m].uses[r])'
        /\ \A i \in Request :
             req'[i].pc = "act" /\ req'[i].found # NoRequest
                 => Asked(req[i].found)'
    <3>1. \A i \in Request, r \in Nsr :
              req[i].ops[r] \in Request \cup {NoRequest}
      BY DEF Typed, TypeOK, ReqRec, OpFun
    <3>2. \A m \in Slice, r \in Nsr :
              nsi[m].uses[r] \in Request \cup {NoRequest}
      BY DEF Typed, TypeOK, SliceRec, OpFun
    <3> QED
      BY <1>3, <3>1, <3>2
      DEF Sound, OpsKnown, SameRequests, Open, Asked, Instantiates, Terminates
  <2>3. ASSUME NEW i \in Request, NEW r \in Nsr
        PROVE  /\ req'[i].pc = "free" => Untouched(<<i, r>>)'
               /\ Open(i)' => /\ nslcmop'[<<i, r>>].run = "no"
                              /\ nslcmop'[<<i, r>>].state
                                     \in {"none", "PROCESSING"}
               /\ Terminates(i)' /\ req'[i].pc \in {"look", "act", "own", "sent"}
                      => nslcmop'[<<i, r>>].run = "no"
               /\ ~Untouched(<<i, r>>)' /\ r \in Slice => r = req'[i].slice
               /\ nslcmop'[<<i, r>>].state \in {"COMPLETED", "FAILED"}
                      <=> /\ nslcmop'[<<i, r>>].run = "over"
                          /\ nslcmop'[<<i, r>>].state # "none"
               /\ Processing(<<i, r>>)' => Exist(r)'
               /\ nslcmop'[<<i, r>>].run = "work"
                      => Processing(<<i, r>>)' \/ nsr'[r] = "gone"
    <3>1. /\ nslcmop'[<<i, r>>].run = nslcmop[<<i, r>>].run
          /\ nslcmop'[<<i, r>>].state = IF r \in R THEN "none"
                                          ELSE nslcmop[<<i, r>>].state
          /\ nsr'[r] = IF r \in R THEN "gone" ELSE nsr[r]
      BY <1>1, <1>2
    <3>2. /\ req[i].pc = "free" => Untouched(<<i, r>>)
          /\ Open(i) => /\ nslcmop[<<i, r>>].run = "no"
                        /\ nslcmop[<<i, r>>].state \in {"none", "PROCESSING"}
          /\ Terminates(i) /\ req[i].pc \in {"look", "act", "own", "sent"}
                 => nslcmop[<<i, r>>].run = "no"
          /\ ~Untouched(<<i, r>>) /\ r \in Slice => r = req[i].slice
          /\ nslcmop[<<i, r>>].state \in {"COMPLETED", "FAILED"}
                 <=> /\ nslcmop[<<i, r>>].run = "over"
                     /\ nslcmop[<<i, r>>].state # "none"
          /\ Processing(<<i, r>>) => Exist(r)
          /\ nslcmop[<<i, r>>].run = "work"
                 => Processing(<<i, r>>) \/ nsr[r] = "gone"
      BY DEF Sound, OpsKnown
    <3> QED
      BY <3>1, <3>2
      DEF Terminates, Untouched, Open, Processing, Exist, SameRequests
  <2> QED  BY <2>2, <2>3 DEF OpsKnown
<1>8. NssInTurn'
  <2>1. \A q \in Request, r \in Nsr : Runs(q, r)' => Runs(q, r)
    BY <1>1 DEF Runs, Instantiates, SameRequests
  <2>2. \A q \in Request, r \in Nsr : Pending(q, r)' => Pending(q, r)
    BY <1>1 DEF Pending, Processing, NsStuck, SameRequests
  <2>3. \A q \in Request, r \in Nsr : Unshaken(q, r)' => Unshaken(q, r)
    BY <1>1 DEF Unshaken, Terminates, SameRequests
  <2>4. \A q \in Request : Terminates(q)' <=> Terminates(q)
    BY DEF Terminates, SameRequests
  <2> QED  BY <1>2, <2>1, <2>2, <2>3, <2>4 DEF Sound, NssInTurn
<1>9. Reliance'
  <2>1. \A q \in Request, s \in SharedNs : Holds(q, s)' => Holds(q, s)
    BY DEF Holds, There, Instantiates, SameRequests
  <2>2. SharedNs \subseteq Nsr
    BY DEF Nsr
  <2> QED
    BY <1>1, <1>3, <2>1, <2>2
    DEF Sound, Reliance, Instantiates, Terminates, Untouched, SameRequests, Open
<1>10. KindsInTurn'
  BY DEF Sound, KindsInTurn, Instantiates, Active, SameRequests
<1>11. VldKnown'
  BY DEF Sound, VldKnown, There, Instantiates, Terminates, Open, Active,
         Working, Shared, SameRequests
<1>12. Keeping'
  <2>1. ASSUME NEW m \in Slice, There(m), nsi[m].shown = "running",
               NEW r \in nsi[m].list
        PROVE  Kept(r)'
    <3>1. r \in Nsr /\ r \notin R
      BY <1>4, <2>1
    <3>2. PICK q \in Request :
              /\ Instantiates(q) /\ nslcmop[<<q, r>>].state = "COMPLETED"
              /\ Unshaken(q, r)
      BY <2>1 DEF Sound, Keeping, Kept
    <3> QED
      BY <1>1, <3>1, <3>2
      DEF Kept, Unshaken, Instantiates, Terminates, SameRequests
  <2>2. \A i \in Request :
           Instantiates(i)' /\ req'[i].pc \in {"own", "sent", "poll", "write"} =>
               \A r \in nsi'[req'[i].slice].list :
                   req'[i].ops[r] # NoRequest => Unshaken(req[i].ops[r], r)'
    <3>1. ASSUME NEW i \in Request, req[i].pc # "free",
                 NEW r \in nsi[req[i].slice].list
          PROVE  Unshaken(req[i].ops[r], r)' = Unshaken(req[i].ops[r], r)
      <4>1. r \in Nsr
        BY <1>4, <3>1 DEF Typed, SliceKnown
      <4> QED  BY <1>1, <4>1 DEF Unshaken, Terminates, SameRequests
    <3> QED
      BY <3>1 DEF Sound, Keeping, Instantiates, SameRequests
  <2>3. ASSUME NEW i \in Request, Instantiates(i), req[i].pc = "write",
               req[i].read.all = "COMPLETED", NEW r \in req[i].read.list
        PROVE  /\ req[i].ops[r] # NoRequest
               /\ nslcmop'[<<req[i].ops[r], r>>].state = "COMPLETED"
    <3>1. /\ req[i].slice \in Slice /\ There(req[i].slice)
          /\ r \in nsi[req[i].slice].list
      BY <2>3 DEF Typed, SliceKnown, Sound, Alive, Active, Lists
    <3>2. r \in Nsr /\ r \notin R
      BY <1>4, <3>1
    <3>3. /\ req[i].ops[r] # NoRequest
          /\ nslcmop[<<req[i].ops[r], r>>].state = "COMPLETED"
      BY <2>3 DEF Sound, Keeping
    <3>4. req[i].ops[r] \in Request
      BY <3>2, <3>3 DEF Typed, TypeOK, ReqRec, OpFun
    <3> QED  BY <1>1, <3>2, <3>3, <3>4
  <2> QED
    BY <2>1, <2>2, <2>3 DEF Keeping, There, Instantiates, SameRequests
<1>13. OpsInTurn'
  BY DEF Sound, OpsInTurn, SameRequests
<1> QED
  BY <1>5, <1>6, <1>7, <1>8, <1>9, <1>10, <1>11, <1>12, <1>13

LEMMA RemoveSharedKeeps ==
    ASSUME Typed, Sound, Undisturbed', NEW n \in Slice, RemoveShared(n)
    PROVE  Sound'
<1>1. /\ handler[n].pc = "shared"
      /\ \/ handler'[n] = Idle
         \/ handler'[n].pc = "own" /\ handler'[n].list = handler[n].list
      /\ OnlyHandler(n)
      /\ UNCHANGED <<nsi, req, notices, marks, faults>>
  BY RemoveSharedDoes
<1>2. PICK R \in SUBSET SharedNs :
          Deleted(R) /\ \A s \in R : OthersListing(n, s) = {}
  BY RemoveSharedDoes
<1>3. /\ handler'[n].pc \in {"idle", "own"}
      /\ handler'[n].list \in {{}, handler[n].list}
  BY <1>1 DEF Idle
<1>4. ~There(n)
  BY <1>1 DEF Sound, Alive
<1>5. \A m \in Slice : There(m) => nsi[m].list \cap R = {}
  BY <1>2, <1>4 DEF OthersListing
<1>6. SameRequests
  BY <1>1 DEF SameRequests
<1>7. /\ TasksInTurn' /\ Lists' /\ OpsKnown' /\ NssInTurn' /\ Reliance'
      /\ KindsInTurn' /\ VldKnown' /\ Keeping' /\ OpsInTurn'
  BY <1>1, <1>2, <1>3, <1>5, <1>6, DeletionKeeps
<1>8. InTurn'
  BY <1>1, <1>3 DEF Sound, InTurn, OnlyHandler, Open
<1>9. Alive'
  <2>1. \A i \in Request : Active(i) => req[i].slice \in Slice \ {n}
    BY <1>1 DEF Typed, SliceKnown, Active, Sound, Alive
  <2>2. \A i \in Request : req[i].pc # "free" => req[i].slice \in Slice
    BY DEF Typed, SliceKnown
  <2> QED
    BY <1>1, <1>3, <2>1, <2>2 DEF Sound, Alive, OnlyHandler, There, Active
<1> QED  BY <1>7, <1>8, <1>9 DEF Sound

LEMMA RemoveOwnKeeps ==
    ASSUME Typed, Sound, Undisturbed', NEW n \in Slice, RemoveOwn(n)
    PROVE  Sound'
<1>1. /\ handler[n].pc = "own" /\ handler'[n] = Idle
      /\ OnlyHandler(n)
      /\ UNCHANGED <<nsi, notices, marks, faults>>
  BY RemoveOwnDoes
<1>2. PICK R \in SUBSET {n} : Deleted(R)
  BY RemoveOwnDoes
<1>3. handler'[n].pc = "idle" /\ handler'[n].list = {}
  BY <1>1 DEF Idle
<1>4. ~There(n)
  BY <1>1 DEF Sound, Alive
<1>5. \A m \in Slice : There(m) => nsi[m].list \cap R = {}
  BY <1>2, <1>4, SliceAssumption DEF Sound, Lists, Listable
<1>6. ASSUME NEW i \in Request
      PROVE  /\ req'[i].pc = req[i].pc /\ req'[i].slice = req[i].slice
             /\ req'[i].kind = req[i].kind /\ req'[i].ops = req[i].ops
             /\ req'[i].read = req[i].read /\ req'[i].found = req[i].found
             /\ req[i].slice # n => req'[i].state = req[i].state
  <2>1. \/ req'[i] = req[i]
        \/ req[i].slice = n /\ req'[i] = [req[i] EXCEPT !.state = "none"]
    BY RemoveOwnDoes
  <2>2. req[i] \in ReqRec
    BY DEF Typed, TypeOK
  <2> QED  BY <2>1, <2>2 DEF ReqRec
<1>7. SameRequests
  BY <1>6 DEF SameRequests
<1>8. /\ TasksInTurn' /\ Lists' /\ OpsKnown' /\ NssInTurn' /\ Reliance'
      /\ KindsInTurn' /\ VldKnown' /\ Keeping' /\ OpsInTurn'
  BY <1>1, <1>2, <1>3, <1>5, <1>7, DeletionKeeps
<1>9. InTurn'
  BY <1>1, <1>3, <1>7 DEF Sound, InTurn, OnlyHandler, Open, SameRequests
<1>10. Alive'
  <2>1. \A i \in Request : Active(i) => req[i].slice \in Slice \ {n}
    BY <1>1 DEF Typed, SliceKnown, Active, Sound, Alive
  <2>2. \A i \in Request : req[i].pc # "free" => req[i].slice \in Slice
    BY DEF Typed, SliceKnown
  <2>3. \A m \in Slice :
            /\ nsi'[m].life = "new" => nsi'[m] = NewSlice
            /\ handler'[m].pc = "new" => nsi'[m].life = "new"
            /\ handler'[m].pc \in {"shared", "own"} => ~There(m)'
            /\ handler'[m].pc # "idle" => ~nsi'[m].instantiated
    BY <1>1, <1>3 DEF Sound, Alive, OnlyHandler, There
  <2>4. \A i \in Request :
            Active(i)' => /\ There(req[i].slice)'
                          /\ handler'[req[i].slice].pc = "idle"
    BY <1>1, <1>6, <2>1 DEF Sound, Alive, OnlyHandler, There, Active
  <2>5. \A i \in Request :
            /\ req'[i].pc # "free" => nsi'[req'[i].slice].life # "new"
            /\ req'[i].pc \in {"sent", "poll", "write"}
                   => req'[i].state = "PROCESSING"
    BY <1>1, <1>6, <2>1, <2>2 DEF Sound, Alive, Active
  <2> QED  BY <1>6, <2>3, <2>4, <2>5 DEF Alive
<1> QED  BY <1>8, <1>9, <1>10 DEF Sound

-----------------------------------------------------------------------------
(* Every step of a request at NBI keeps the invariant                       *)

LEMMA AskKeeps ==
    ASSUME Typed, Sound, Undisturbed', NEW i \in Request, NEW n \in Slice,
           NEW kind \in Kinds, NEW auto \in BOOLEAN, Ask(i, n, kind, auto),
           marks \subseteq {"together"}
    PROVE  Sound'
<1>1. /\ NbiFree /\ There(n) /\ nsi[n].instantiated = (kind = "terminate")
      /\ req[i].pc = "free" /\ \A q \in 1 .. i - 1 : req[q].pc # "free"
      /\ req'[i].pc \in {"look", "own"}
      /\ req'[i].pc = "own" => Shared(nsi[n].list) = {}
      /\ req'[i].slice = n /\ req'[i].kind = kind
      /\ kind \in {"instantiate", "terminate"}
      /\ req'[i].ops = NoUse /\ req'[i].found = NoRequest
      /\ req'[i].read.list = nsi[n].list
      /\ OnlyReq(i)
      /\ UNCHANGED <<nsi, nsr, nslcmop, handler, notices, faults>>
      /\ "repeated" \notin marks' =>
             \A j \in Request :
                 ~(/\ req[j].slice = n /\ req[j].kind = kind
                   /\ req[j].pc \in {"sent", "poll", "write"})
  BY AskDoes
<1>2. \A j \in Request : j # i => req'[j] = req[j]
  BY <1>1 DEF OnlyReq
<1>3. \A r \in Nsr : Untouched(<<i, r>>) /\ req'[i].ops[r] = NoRequest
  BY <1>1 DEF Sound, OpsKnown, NoUse
<1>4. \A j \in Request : i < j => req[j].pc = "free"
  BY <1>1 DEF Sound, InTurn
<1>5. \A j \in Request : j < i => req[j].pc # "free"
  BY <1>1 DEF Request
<1>6. \A j \in Request : ~Open(j)
  BY <1>1 DEF NbiFree
<1>7. SharedNs \subseteq Nsr
  BY DEF Nsr
<1>8. \A q \in Int, r \in Nsr : Unshaken(q, r) => Unshaken(q, r)'
  BY <1>1, <1>2, <1>3 DEF Unshaken, Terminates, Untouched
<1>9. InTurn'
  <2>1. ASSUME NEW a \in Request, NEW b \in Request, a < b,
               req'[a].pc = "free" \/ Open(a)'
        PROVE  req'[b].pc = "free"
    <3>1. CASE a = i
      BY <1>2, <1>4, <2>1, <3>1 DEF Request
    <3>2. CASE a # i
      <4>1. req[a].pc = "free"
        BY <1>2, <1>6, <2>1, <3>2 DEF Open
      <4>2. req[b].pc = "free" /\ i < a
        BY <1>5, <2>1, <3>2, <4>1 DEF Sound, InTurn, Request
      <4> QED  BY <1>2, <2>1, <4>2 DEF Request
    <3> QED  BY <3>1, <3>2
  <2> QED  BY <1>1, <2>1 DEF InTurn, NbiFree
<1>10. Alive'
  BY <1>1, <1>2 DEF Sound, Alive, Active, There, NbiFree
<1>11. TasksInTurn'
  <2>1. ASSUME NEW a \in Request, NEW q \in Request, a < q,
               req'[a].slice = req'[q].slice, Working(q)'
        PROVE  req'[a].pc = "over"
    <3>1. q # i
      BY <1>1, <2>1 DEF Working
    <3>2. a # i
      BY <1>2, <1>4, <2>1, <3>1 DEF Working
    <3> QED  BY <1>2, <2>1, <3>1, <3>2 DEF Sound, TasksInTurn, Working
  <2>2. ASSUME NEW a \in Request, NEW q \in Request, NEW r \in Nsr, a < q,
               req'[a].slice = req'[q].slice, Terminates(q)',
               nslcmop'[<<q, r>>].run # "no"
        PROVE  req'[a].pc = "over"
    <3>1. q # i
      BY <1>1, <1>3, <2>2 DEF Untouched
    <3>2. a # i
      BY <1>1, <1>4, <2>2 DEF Sound, OpsKnown, Untouched
    <3> QED  BY <1>1, <1>2, <2>2, <3>1, <3>2 DEF Sound, TasksInTurn, Terminates
  <2> QED  BY <2>1, <2>2 DEF TasksInTurn
<1>12. Lists'
  BY <1>1, <1>2 DEF Sound, Lists, Listable, Shared, Open, There, Exist
<1>13. OpsKnown'
  <2>1. \A q \in Request : Asked(q) => Asked(q)'
    BY <1>1, <1>2 DEF Asked, Instantiates
  <2>2. \A j \in Request, r \in Nsr :
            req[j].ops[r] \in Request \cup {NoRequest}
    BY DEF Typed, TypeOK, ReqRec, OpFun
  <2>3. \A m \in Slice, r \in Nsr :
            nsi[m].uses[r] \in Request \cup {NoRequest}
    BY DEF Typed, TypeOK, SliceRec, OpFun
  <2>4. ASSUME NEW j \in Request, NEW r \in Nsr, req'[j].ops[r] # NoRequest
        PROVE  /\ req'[j].pc # "free" /\ r \in SharedNs \cup {req'[j].slice}
               /\ r \in Slice \/ Terminates(j)' => req'[j].ops[r] = j
               /\ Instantiates(j)' => Asked(req[j].ops[r])'
    <3>1. j # i
      BY <1>3, <2>4
    <3>2. /\ req[j].pc # "free" /\ r \in SharedNs \cup {req[j].slice}
          /\ r \in Slice \/ Terminates(j) => req[j].ops[r] = j
          /\ Instantiates(j) => Asked(req[j].ops[r])
      BY <1>2, <2>4, <3>1 DEF Sound, OpsKnown
    <3>3. req'[j] = req[j] /\ req[j].ops[r] \in Request
      BY <1>2, <2>2, <2>4, <3>1
    <3> QED
      BY <1>1, <1>2, <3>1, <3>2, <3>3
      DEF Asked, Terminates, Instantiates
  <2>5. \A m \in Slice, r \in Nsr :
            nsi'[m].uses[r] # NoRequest => Asked(nsi[m].uses[r])'
    BY <1>1, <2>1, <2>3 DEF Sound, OpsKnown, Asked, Instantiates
  <2>6. ASSUME NEW j \in Request
        PROVE  req'[j].pc = "act" /\ req'[j].found # NoRequest
                   => Asked(req[j].found)'
    BY <1>1, <1>2, <1>6 DEF Open
  <2>7. ASSUME NEW j \in Request, NEW r \in Nsr
        PROVE  /\ req'[j].pc = "free" => Untouched(<<j, r>>)'
               /\ Open(j)' => /\ nslcmop'[<<j, r>>].run = "no"
                              /\ nslcmop'[<<j, r>>].state
                                     \in {"none", "PROCESSING"}
               /\ Terminates(j)' /\ req'[j].pc \in {"look", "act", "own", "sent"}
                      => nslcmop'[<<j, r>>].run = "no"
               /\ ~Untouched(<<j, r>>)' /\ r \in Slice => r = req'[j].slice
               /\ nslcmop'[<<j, r>>].state \in {"COMPLETED", "FAILED"}
                      <=> /\ nslcmop'[<<j, r>>].run = "over"
                          /\ nslcmop'[<<j, r>>].state # "none"
               /\ Processing(<<j, r>>)' => Exist(r)'
               /\ nslcmop'[<<j, r>>].run = "work"
                      => Processing(<<j, r>>)' \/ nsr'[r] = "gone"
    <3>1. CASE j = i
      BY <1>1, <1>3, <3>1 DEF Untouched, Processing
    <3>2. CASE j # i
      BY <1>1, <1>2, <3>2
      DEF Sound, OpsKnown, Untouched, Open, Terminates, Processing, Exist
    <3> QED  BY <3>1, <3>2
  <2> QED  BY <2>4, <2>5, <2>6, <2>7 DEF OpsKnown
<1>14. NssInTurn'
  <2>1. ASSUME NEW q \in Request, NEW r \in Nsr, Runs(q, r)'
        PROVE  q # i /\ Runs(q, r)
    BY <1>1, <1>2, <1>3, <2>1 DEF Runs, Instantiates, Untouched
  <2>2. ASSUME NEW t \in Request, NEW r \in Nsr, Terminates(t)', Pending(t, r)'
        PROVE  Terminates(t) /\ Pending(t, r)
    <3>1. t # i
      BY <1>1, <1>3, <2>2 DEF Pending, Processing, Untouched
    <3> QED
      BY <1>1, <1>2, <2>2, <3>1 DEF Pending, Processing, NsStuck, Terminates
  <2>3. \A q \in Request, r \in Nsr : Unshaken(q, r)' => Unshaken(q, r)
    BY <1>1, <1>2, <1>3 DEF Unshaken, Terminates, Untouched
  <2> QED  BY <1>1, <2>1, <2>2, <2>3 DEF Sound, NssInTurn
<1>15. Reliance'
  <2>1. ASSUME NEW q \in Request, NEW s \in SharedNs, Holds(q, s)'
        PROVE  Holds(q, s)
    <3>1. q # NoRequest /\ s \in Nsr
      BY <1>7 DEF Request, NoRequest
    <3>2. req'[i].ops[s] = NoRequest /\ req'[i].pc # "act"
      BY <1>1, <1>3, <3>1
    <3>3. CASE \E m \in Slice :
                   There(m)' /\ s \in nsi'[m].list /\ nsi'[m].uses[s] = q
      BY <1>1, <3>3 DEF Holds, There
    <3>4. CASE \E j \in Request :
                   /\ Instantiates(j)' /\ req'[j].pc \in {"own", "sent"}
                   /\ s \in nsi'[req'[j].slice].list /\ req'[j].ops[s] = q
      <4>1. PICK j \in Request :
                   /\ Instantiates(j)' /\ req'[j].pc \in {"own", "sent"}
                   /\ s \in nsi'[req'[j].slice].list /\ req'[j].ops[s] = q
        BY <3>4
      <4>2. j # i
        BY <3>1, <3>2, <4>1
      <4>3. req'[j] = req[j] /\ nsi' = nsi
        BY <1>1, <1>2, <4>2
      <4> QED  BY <4>1, <4>3 DEF Holds, Instantiates
    <3>5. CASE \E j \in Request :
                   /\ Instantiates(j)' /\ req'[j].pc = "act"
                   /\ s \in req'[j].read.list /\ req'[j].found = q
      BY <1>2, <3>2, <3>5 DEF Holds, Instantiates
    <3> QED  BY <2>1, <3>3, <3>4, <3>5 DEF Holds
  <2>2. ASSUME NEW q \in Request, NEW t \in Request, NEW s \in SharedNs,
               Holds(q, s)', q < t, Terminates(t)'
        PROVE  Untouched(<<t, s>>)'
    <3>1. Holds(q, s)
      BY <2>1, <2>2
    <3>2. CASE t = i
      BY <1>1, <1>3, <1>7, <3>2 DEF Untouched
    <3>3. CASE t # i
      BY <1>1, <1>2, <2>2, <3>1, <3>3 DEF Sound, Reliance, Terminates, Untouched
    <3> QED  BY <3>2, <3>3
  <2>3. ASSUME NEW j \in Request, NEW s \in SharedNs, Instantiates(j)',
               req'[j].pc \in {"own", "sent"},
               s \in nsi'[req'[j].slice].list, req'[j].ops[s] # NoRequest
        PROVE  nsi'[req'[j].slice].uses[s] # NoRequest
    <3>1. j # i
      BY <1>3, <1>7, <2>3
    <3>2. req'[j] = req[j] /\ nsi' = nsi
      BY <1>1, <1>2, <3>1
    <3> QED  BY <2>3, <3>2 DEF Sound, Reliance, Instantiates
  <2>4. \A j \in Request : req'[j].pc # "act"
    BY <1>1, <1>2, <1>6 DEF Open
  <2> QED  BY <2>2, <2>3, <2>4 DEF Reliance
<1>16. KindsInTurn'
  <2>1. ASSUME NEW a \in Request, NEW t \in Request, Instantiates(a)',
               req'[a].pc \in {"look", "act", "own", "sent"}, a < t,
               req'[t].slice = req'[a].slice, req'[t].pc # "free"
        PROVE  Instantiates(t)'
    <3>1. a # i
      BY <1>2, <1>4, <2>1 DEF Request
    <3>2. CASE t = i
      <4>1. ~nsi[n].instantiated
        BY <1>1, <1>2, <2>1, <3>1, <3>2 DEF Sound, KindsInTurn, Instantiates
      <4> QED  BY <1>1, <3>2, <4>1 DEF Instantiates
    <3>3. CASE t # i
      BY <1>2, <2>1, <3>1, <3>3 DEF Sound, KindsInTurn, Instantiates
    <3> QED  BY <3>2, <3>3
  <2>2. ASSUME NEW a \in Request, Instantiates(a)',
               req'[a].pc \in {"look", "act", "own", "sent"}
        PROVE  ~nsi'[req'[a].slice].instantiated
    <3>1. CASE a = i
      BY <1>1, <2>2, <3>1 DEF Instantiates
    <3>2. CASE a # i
      BY <1>1, <1>2, <2>2, <3>2 DEF Sound, KindsInTurn, Instantiates
    <3> QED  BY <3>1, <3>2
  <2>3. ASSUME NEW a \in Request, NEW q \in Request, a # q, Active(a)',
               Active(q)', req'[a].slice = req'[q].slice,
               req'[a].kind = req'[q].kind
        PROVE  "repeated" \in marks'
    <3>1. CASE a = i
      BY <1>1, <1>2, <1>6, <2>3, <3>1 DEF Active, Open
    <3>2. CASE q = i
      BY <1>1, <1>2, <1>6, <2>3, <3>2 DEF Active, Open
    <3>3. CASE a # i /\ q # i
      BY <1>1, <1>2, <2>3, <3>3 DEF Sound, KindsInTurn, Active
    <3> QED  BY <3>1, <3>2, <3>3
  <2> QED  BY <2>1, <2>2, <2>3 DEF KindsInTurn
<1>17. VldKnown'
  <2>1. Terminates(i)' => Shared(nsi[n].list) \subseteq nsi[n].vld
    BY <1>1 DEF Sound, VldKnown, Terminates
  <2>2. ASSUME NEW j \in Request
        PROVE  /\ Instantiates(j)' /\ req'[j].pc \in {"own", "sent"}
                      => Shared(nsi'[req'[j].slice].list)
                             \subseteq nsi'[req'[j].slice].vld
               /\ Terminates(j)' /\ Open(j)'
                      => Shared(req'[j].read.list)
                             \subseteq nsi'[req'[j].slice].vld
               /\ Terminates(j)' /\ Active(j)'
                      => \A s \in SharedNs : req'[j].ops[s] # NoRequest
                             => s \in nsi'[req'[j].slice].vld
               /\ Working(j)' =>
                      nsi'[req'[j].slice].shown =
                          IF Instantiates(j)' THEN "init" ELSE "terminating"
    <3>1. CASE j = i
      BY <1>1, <1>3, <1>7, <2>1, <3>1 DEF Working
    <3>2. CASE j # i
      BY <1>1, <1>2, <3>2 DEF Sound, VldKnown, Instantiates, Terminates, Active,
                               Open, Working, Shared
    <3> QED  BY <3>1, <3>2
  <2> QED  BY <1>1, <2>2 DEF Sound, VldKnown, There, Shared
<1>18. Keeping'
  <2>1. \A m \in Slice : nsi[m].list \subseteq Nsr
    BY DEF Typed, TypeOK, SliceRec
  <2>2. ASSUME NEW m \in Slice, There(m), nsi[m].shown = "running",
               NEW r \in nsi[m].list
        PROVE  Kept(r)'
    <3>1. PICK q \in Request :
              /\ Instantiates(q) /\ nslcmop[<<q, r>>].state = "COMPLETED"
              /\ Unshaken(q, r)
      BY <2>2 DEF Sound, Keeping, Kept
    <3>2. r \in Nsr /\ q \in Int
      BY <2>1, <2>2 DEF Request
    <3>3. q # i
      BY <1>3, <3>1, <3>2 DEF Untouched
    <3> QED  BY <1>1, <1>2, <1>8, <3>1, <3>2, <3>3 DEF Kept, Instantiates
  <2>3. ASSUME NEW j \in Request, Instantiates(j)',
               req'[j].pc \in {"own", "sent", "poll", "write"},
               NEW r \in nsi'[req'[j].slice].list, req'[j].ops[r] # NoRequest
        PROVE  Unshaken(req[j].ops[r], r)'
    <3>1. req'[j].slice \in Slice
      BY <1>1, <1>2, <2>3 DEF Typed, SliceKnown
    <3>2. r \in Nsr
      BY <1>1, <2>1, <2>3, <3>1
    <3>3. j # i
      BY <1>3, <2>3, <3>2
    <3>4. req'[j] = req[j]
      BY <1>2, <3>3
    <3>5. Unshaken(req[j].ops[r], r)
      BY <1>1, <2>3, <3>4 DEF Sound, Keeping, Instantiates
    <3>6. req[j].ops[r] \in Int
      <4>1. req[j].ops[r] \in Request \cup {NoRequest}
        BY <3>2 DEF Typed, TypeOK, ReqRec, OpFun
      <4> QED  BY <4>1 DEF Request, NoRequest
    <3>7. Unshaken(req[j].ops[r], r)' <=>
              \A t \in Request :
                  req[j].ops[r] < t /\ Terminates(t)'
                      => nslcmop'[<<t, r>>].run = "no"
      BY <3>4 DEF Unshaken
    <3> DEFINE q == req[j].ops[r]
    <3>8. \A t \in Request :
              q < t /\ Terminates(t)' => nslcmop'[<<t, r>>].run = "no"
      BY <1>8, <3>2, <3>5, <3>6 DEF Unshaken
    <3> QED  BY <3>7, <3>8
  <2>4. \A j \in Request :
             /\ Instantiates(j)' /\ req'[j].pc = "write"
             /\ req'[j].read.all = "COMPLETED"
           =>     \A r \in req'[j].read.list :
                      /\ req'[j].ops[r] # NoRequest
                      /\ nslcmop'[<<req'[j].ops[r], r>>].state = "COMPLETED"
    BY <1>1, <1>2 DEF Sound, Keeping, Instantiates
  <2> QED  BY <1>1, <2>2, <2>3, <2>4 DEF Keeping, There
<1>19. OpsInTurn'
  <2>1. ASSUME NEW j \in Request, NEW r \in Nsr
        PROVE  req'[j].ops[r] <= j
    <3>1. CASE j = i
      <4>1. req'[i].ops[r] = 0
        BY <1>3 DEF NoRequest
      <4> QED  BY <3>1, <4>1 DEF Request
    <3>2. CASE j # i
      BY <1>2, <3>2 DEF Sound, OpsInTurn
    <3> QED  BY <3>1, <3>2
  <2> QED  BY <2>1 DEF OpsInTurn
<1> QED
  BY <1>9, <1>10, <1>11, <1>12, <1>13, <1>14, <1>15, <1>16, <1>17, <1>18,
     <1>19
  DEF Sound

-----------------------------------------------------------------------------
(* Every step of a task keeps the invariant                                 *)

\* Nothing of the slice before request i is under way.
Begun(i) ==
    \A a \in Request : a < i /\ req[a].slice = req[i].slice => req[a].pc = "over"

\* When its turn has come, and while it works.
LEMMA TurnBegins ==
    ASSUME Typed, Sound, NEW i \in Request,
           (req[i].pc = "sent" /\ Turn(i)) \/ Working(i)
    PROVE  Begun(i)
<1> SUFFICES ASSUME NEW a \in Request, a < i, req[a].slice = req[i].slice
             PROVE  req[a].pc = "over"
  BY DEF Begun
<1>1. CASE Working(i)
  BY <1>1 DEF Sound, TasksInTurn
<1>2. CASE req[i].pc = "sent" /\ Turn(i)
  <2>1. req[a].pc # "free" /\ ~Open(a)
    BY <1>2 DEF Sound, InTurn
  <2>2. a \in 1 .. i - 1
    BY DEF Request
  <2>3. req[a].state = "PROCESSING" => req[a].pc = "over"
    BY <1>2, <2>2 DEF Turn, EarlierRequests, SliceStuck
  <2>4. req[a].pc \in {"sent", "poll", "write"} => req[a].state = "PROCESSING"
    BY DEF Sound, Alive
  <2>5. req[a] \in ReqRec
    BY DEF Typed, TypeOK
  <2> QED  BY <2>1, <2>3, <2>4, <2>5 DEF ReqRec, Open
<1> QED  BY <1>1, <1>2

\* A step of the task of request i on its slice.
TaskStep(i) ==
    LET n == req[i].slice
    IN /\ req[i].pc \in {"sent", "poll", "write"}
       /\ req'[i].pc \in {"poll", "write", "over"}
       /\ Working(i)' => req'[i].state = req[i].state
       /\ SameTask(i) /\ OnlyReq(i) /\ OnlySlice(n)
       /\ nsi'[n].life = nsi[n].life /\ nsi'[n].vld = nsi[n].vld
       /\ nsi'[n].list \subseteq nsi[n].list
       /\ \A r \in nsi'[n].list : nsi'[n].uses[r] = nsi[n].uses[r]
       /\ \A r \in Nsr : nsi'[n].uses[r] \in {nsi[n].uses[r], NoRequest}
       /\ nsi'[n].instantiated =>
              nsi[n].instantiated \/ (Instantiates(i) /\ req[i].pc = "sent")
       /\ nsi'[n].shown \in {"init", "running"} => nsi'[n].instantiated
       /\ Working(i)' =>
              nsi'[n].shown = IF Instantiates(i) THEN "init" ELSE "terminating"
       /\ Begun(i) \/ (UNCHANGED nsi /\ req'[i].pc = "over")
       /\ req'[i].pc = "write" =>
              /\ nsi'[n].list = nsi[n].list /\ req'[i].read.list \subseteq nsi[n].list
              /\ \A r \in Nsr \ req'[i].read.list :
                     req'[i].read.uses[r] = NoRequest
       /\ UNCHANGED <<nsr, handler, marks>>

\* The operations that a task starts are those of its request.
MayLaunch(i, O) ==
    /\ O \subseteq OpsOf(i)
    /\ O # {} => req[i].pc = "sent" /\ req'[i].pc = "write"
    /\ Terminates(i) => \A o \in O : nslcmop[o].state # "none"

LEMMA TaskFacts ==
    ASSUME Typed, Sound, NEW i \in Request, TaskStep(i)
    PROVE  /\ req[i].slice \in Slice /\ There(req[i].slice)
           /\ \A j \in Request :
                  /\ req'[j].slice = req[j].slice /\ req'[j].kind = req[j].kind
                  /\ req'[j].ops = req[j].ops
                  /\ req'[j].pc = "free" <=> req[j].pc = "free"
                  /\ Open(j)' <=> Open(j)
                  /\ Active(j)' => Active(j)
                  /\ j # i => req'[j] = req[j]
           /\ \A m \in Slice :
                  /\ nsi'[m].life = nsi[m].life /\ nsi'[m].vld = nsi[m].vld
                  /\ nsi'[m].list \subseteq nsi[m].list
                  /\ \A r \in nsi'[m].list : nsi'[m].uses[r] = nsi[m].uses[r]
                  /\ nsi[m].list \subseteq Nsr
<1>1. /\ req[i].pc \in {"sent", "poll", "write"}
      /\ req'[i].pc \in {"poll", "write", "over"}
      /\ SameTask(i) /\ OnlyReq(i) /\ OnlySlice(req[i].slice)
  BY DEF TaskStep
<1>2. req[i].slice \in Slice /\ There(req[i].slice)
  BY <1>1 DEF Typed, SliceKnown, Sound, Alive, Active
<1>3. ASSUME NEW j \in Request
      PROVE  /\ req'[j].slice = req[j].slice /\ req'[j].kind = req[j].kind
             /\ req'[j].ops = req[j].ops
             /\ req'[j].pc = "free" <=> req[j].pc = "free"
             /\ Open(j)' <=> Open(j)
             /\ Active(j)' => Active(j)
             /\ j # i => req'[j] = req[j]
  <2>1. CASE j = i
    BY <1>1, <2>1 DEF SameTask, Open, Active
  <2>2. CASE j # i
    BY <1>1, <2>2 DEF OnlyReq, Open, Active
  <2> QED  BY <2>1, <2>2
<1>4. ASSUME NEW m \in Slice
      PROVE  /\ nsi'[m].life = nsi[m].life /\ nsi'[m].vld = nsi[m].vld
             /\ nsi'[m].list \subseteq nsi[m].list
             /\ \A r \in nsi'[m].list : nsi'[m].uses[r] = nsi[m].uses[r]
             /\ nsi[m].list \subseteq Nsr
  <2>1. nsi[m].list \subseteq Nsr
    BY DEF Typed, TypeOK, SliceRec
  <2>2. CASE m = req[i].slice
    BY <2>1, <2>2 DEF TaskStep
  <2>3. CASE m # req[i].slice
    BY <1>1, <2>1, <2>3 DEF OnlySlice
  <2> QED  BY <2>2, <2>3
<1> QED  BY <1>2, <1>3, <1>4

\* What tasks start: operations of their own, and of instantiations.
Launching(i, O) ==
    \A j \in Request, r \in Nsr :
        /\ nslcmop'[<<j, r>>].state = nslcmop[<<j, r>>].state
        /\ \/ nslcmop'[<<j, r>>].run = nslcmop[<<j, r>>].run
           \/ /\ nslcmop[<<j, r>>].run = "no"
              /\ nslcmop'[<<j, r>>].run = "wait"
              /\ <<j, r>> \in O
              /\ req[i].pc = "sent" /\ req'[i].pc = "write"
              /\ req[i].ops[r] = j /\ j <= i
              /\ req[j].pc # "free" /\ ~Open(j)
              /\ r \in Slice => r = req[j].slice
              /\ Terminates(j) =>
                     j = i /\ nslcmop[<<j, r>>].state # "none"

LEMMA LaunchFacts ==
    ASSUME Typed, Sound, NEW i \in Request, TaskStep(i), NEW O,
           MayLaunch(i, O), Launched(O)
    PROVE  Launching(i, O)
<1> SUFFICES ASSUME NEW j \in Request, NEW r \in Nsr
             PROVE  /\ nslcmop'[<<j, r>>].state = nslcmop[<<j, r>>].state
                    /\ \/ nslcmop'[<<j, r>>].run = nslcmop[<<j, r>>].run
                       \/ /\ nslcmop[<<j, r>>].run = "no"
                          /\ nslcmop'[<<j, r>>].run = "wait"
                          /\ <<j, r>> \in O
                          /\ req[i].pc = "sent" /\ req'[i].pc = "write"
                          /\ req[i].ops[r] = j /\ j <= i
                          /\ req[j].pc # "free" /\ ~Open(j)
                          /\ r \in Slice => r = req[j].slice
                          /\ Terminates(j) =>
                                 j = i /\ nslcmop[<<j, r>>].state # "none"
  BY DEF Launching
<1>1. /\ nslcmop'[<<j, r>>].state = nslcmop[<<j, r>>].state
      /\ nslcmop'[<<j, r>>].run = IF <<j, r>> \in O /\ nslcmop[<<j, r>>].run = "no"
                                    THEN "wait" ELSE nslcmop[<<j, r>>].run
  BY DEF Launched
<1>2. CASE <<j, r>> \in O /\ nslcmop[<<j, r>>].run = "no"
  <2>1. req[i].pc = "sent" /\ req'[i].pc = "write"
    BY <1>2 DEF MayLaunch
  <2>2. <<j, r>> \in OpsOf(i)
    BY <1>2 DEF MayLaunch
  <2>3. req[i].ops[r] = j /\ j # NoRequest
    BY <2>2 DEF OpsOf, Request, NoRequest
  <2>4. j <= i
    BY <2>3 DEF Sound, OpsInTurn
  <2>5. req[j].pc # "free" /\ ~Open(j)
    <3>1. j = i \/ j < i
      BY <2>4 DEF Request
    <3> QED  BY <2>1, <3>1 DEF Sound, InTurn, Open
  <2>6. /\ r \in SharedNs \cup {req[i].slice}
        /\ r \in Slice \/ Terminates(i) => j = i
        /\ Instantiates(i) => Asked(j)
    BY <2>3 DEF Sound, OpsKnown
  <2>7. r \in Slice => r = req[j].slice
    BY <2>6, SliceAssumption
  <2>8. Instantiates(i) \/ Terminates(i)
    BY DEF Typed, TypeOK, ReqRec, Instantiates, Terminates
  <2>9. Terminates(j) => j = i /\ nslcmop[<<j, r>>].state # "none"
    BY <1>2, <2>6, <2>8 DEF MayLaunch, Asked, Instantiates, Terminates
  <2> QED  BY <1>1, <1>2, <2>1, <2>3, <2>4, <2>5, <2>7, <2>9
<1> QED  BY <1>1, <1>2

LEMMA TaskKeepsRequests ==
    ASSUME Typed, Sound, NEW i \in Request, TaskStep(i), NEW O,
           MayLaunch(i, O), Launched(O)
    PROVE  InTurn' /\ Alive' /\ TasksInTurn' /\ Lists' /\ OpsInTurn'
<1> DEFINE n == req[i].slice
<1>1. n \in Slice /\ There(n)
  BY TaskFacts
<1>2. \A j \in Request :
          /\ req'[j].slice = req[j].slice /\ req'[j].kind = req[j].kind
          /\ req'[j].ops = req[j].ops
          /\ req'[j].pc = "free" <=> req[j].pc = "free"
          /\ Open(j)' <=> Open(j)
          /\ Active(j)' => Active(j)
          /\ j # i => req'[j] = req[j]
  BY TaskFacts
<1>3. \A m \in Slice :
          /\ nsi'[m].life = nsi[m].life /\ nsi'[m].vld = nsi[m].vld
          /\ nsi'[m].list \subseteq nsi[m].list
          /\ \A r \in nsi'[m].list : nsi'[m].uses[r] = nsi[m].uses[r]
          /\ nsi[m].list \subseteq Nsr
  BY TaskFacts
<1>4. /\ req[i].pc \in {"sent", "poll", "write"}
      /\ req'[i].pc \in {"poll", "write", "over"}
      /\ Working(i)' => req'[i].state = req[i].state
      /\ OnlySlice(n) /\ UNCHANGED <<nsr, handler, marks>>
      /\ Begun(i) \/ (UNCHANGED nsi /\ req'[i].pc = "over")
      /\ req'[i].pc = "write" =>
             /\ nsi'[n].list = nsi[n].list /\ req'[i].read.list \subseteq nsi[n].list
             /\ \A r \in Nsr \ req'[i].read.list :
                    req'[i].read.uses[r] = NoRequest
  BY DEF TaskStep
<1>5. \A m \in Slice \ {n} : nsi'[m] = nsi[m]
  BY <1>4 DEF OnlySlice
<1>6. \A j \in Request : req[j].pc # "free" => req[j].slice \in Slice
  BY DEF Typed, SliceKnown
<1> HIDE DEF n
<1>6a. Launching(i, O)
  BY LaunchFacts
<1>7. InTurn'
  BY <1>2, <1>4 DEF Sound, InTurn
<1>8. Alive'
  <2>1. ASSUME NEW m \in Slice
        PROVE  /\ nsi'[m].life = "new" => nsi'[m] = NewSlice
               /\ handler'[m].pc = "new" => nsi'[m].life = "new"
               /\ handler'[m].pc \in {"shared", "own"} => ~There(m)'
               /\ handler'[m].pc # "idle" => ~nsi'[m].instantiated
    <3>1. CASE m = n
      <4>1. handler[n].pc = "idle"
        BY <1>4 DEF Sound, Alive, Active, n
      <4> QED  BY <1>1, <1>3, <1>4, <3>1, <4>1 DEF There
    <3>2. CASE m # n
      BY <1>4, <1>5, <3>2 DEF Sound, Alive, There
    <3> QED  BY <3>1, <3>2
  <2>2. ASSUME NEW j \in Request
        PROVE  /\ Active(j)' => /\ There(req[j].slice)'
                                /\ handler'[req[j].slice].pc = "idle"
               /\ req'[j].pc # "free" => nsi'[req[j].slice].life # "new"
               /\ req'[j].pc \in {"sent", "poll", "write"}
                      => req'[j].state = "PROCESSING"
    <3>1. Active(j)' => /\ There(req[j].slice)'
                        /\ handler'[req[j].slice].pc = "idle"
      <4> HAVE Active(j)'
      <4>1. Active(j) /\ req[j].slice \in Slice
        BY <1>2, <1>6 DEF Active
      <4>2. There(req[j].slice) /\ handler[req[j].slice].pc = "idle"
        BY <4>1 DEF Sound, Alive
      <4>3. req'[j].slice = req[j].slice
        BY <1>2
      <4> QED  BY <1>3, <1>4, <4>1, <4>2, <4>3 DEF There
    <3>2. req'[j].pc # "free" => nsi'[req[j].slice].life # "new"
      BY <1>2, <1>3, <1>6 DEF Sound, Alive
    <3>3. req'[j].pc \in {"sent", "poll", "write"}
              => req'[j].state = "PROCESSING"
      <4>1. CASE j = i
        BY <1>4, <4>1 DEF Sound, Alive, Working
      <4>2. CASE j # i
        BY <1>2, <4>2 DEF Sound, Alive
      <4> QED  BY <4>1, <4>2
    <3> QED  BY <3>1, <3>2, <3>3
  <2>3. \A j \in Request : req'[j].slice = req[j].slice
    BY <1>2
  <2> QED  BY <2>1, <2>2, <2>3 DEF Alive
<1>9. TasksInTurn'
  <2>1. ASSUME NEW a \in Request, NEW q \in Request, a < q,
               req'[a].slice = req'[q].slice, Working(q)'
        PROVE  req'[a].pc = "over"
    <3>1. req[a].pc = "over"
      <4>1. CASE q = i
        BY <1>2, <1>4, <2>1, <4>1 DEF Begun, Working
      <4>2. CASE q # i
        BY <1>2, <2>1, <4>2 DEF Sound, TasksInTurn, Working
      <4> QED  BY <4>1, <4>2
    <3> QED  BY <1>2, <1>4, <3>1
  <2>2. ASSUME NEW a \in Request, NEW q \in Request, NEW r \in Nsr, a < q,
               req'[a].slice = req'[q].slice, Terminates(q)',
               nslcmop'[<<q, r>>].run # "no"
        PROVE  req'[a].pc = "over"
    <3>1. Terminates(q)
      BY <1>2, <2>2 DEF Terminates
    <3>2. req[a].pc = "over"
      <4>1. CASE nslcmop[<<q, r>>].run # "no"
        BY <1>2, <2>2, <3>1, <4>1 DEF Sound, TasksInTurn
      <4>2. CASE nslcmop[<<q, r>>].run = "no"
        <5>1. q = i /\ req'[i].pc = "write"
          BY <1>6a, <2>2, <3>1, <4>2 DEF Launching
        <5>2. Begun(i)
          BY <1>4, <5>1
        <5> QED  BY <1>2, <2>2, <5>1, <5>2 DEF Begun
      <4> QED  BY <4>1, <4>2
    <3> QED  BY <1>2, <1>4, <3>2
  <2> QED  BY <2>1, <2>2 DEF TasksInTurn
<1>10. Lists'
  <2>1. ASSUME NEW m \in Slice
        PROVE  /\ Listable(m, nsi[m].list)' /\ Listable(m, handler[m].list)'
               /\ There(m)' => \A r \in nsi'[m].list : Exist(r)'
               /\ handler'[m].pc = "new" =>
                      \A r \in handler'[m].list : Exist(r)'
    BY <1>3, <1>4 DEF Sound, Lists, Listable, Shared, There, Exist
  <2>2. ASSUME NEW j \in Request
        PROVE  /\ Open(j)' =>
                      /\ Listable(req[j].slice, req[j].read.list)'
                      /\ nsi'[req[j].slice].list \subseteq req'[j].read.list
               /\ req'[j].pc = "write" =>
                      /\ req'[j].read.list \subseteq nsi'[req[j].slice].list
                      /\ \A r \in Nsr \ req'[j].read.list :
                             req'[j].read.uses[r] = NoRequest
    <3>1. CASE j = i
      BY <1>4, <3>1 DEF Open, n
    <3>2. CASE j # i
      <4>1. req'[j] = req[j]
        BY <1>2, <3>2
      <4>2. ASSUME Open(j)'
            PROVE  /\ Listable(req[j].slice, req[j].read.list)'
                   /\ nsi'[req[j].slice].list \subseteq req'[j].read.list
        <5>1. Open(j) /\ req[j].slice \in Slice
          BY <1>2, <1>6, <4>2 DEF Open
        <5>2. /\ Listable(req[j].slice, req[j].read.list)
              /\ nsi[req[j].slice].list \subseteq req[j].read.list
          BY <5>1 DEF Sound, Lists
        <5> QED  BY <1>3, <4>1, <5>1, <5>2 DEF Listable, Shared
      <4>3. ASSUME req'[j].pc = "write"
            PROVE  /\ req'[j].read.list \subseteq nsi'[req[j].slice].list
                   /\ \A r \in Nsr \ req'[j].read.list :
                          req'[j].read.uses[r] = NoRequest
        <5>1. req[j].pc = "write" /\ req[j].slice \in Slice
          BY <1>6, <4>1, <4>3
        <5>2. nsi'[req[j].slice] = nsi[req[j].slice]
          <6>1. CASE req[j].slice # n
            BY <1>5, <5>1, <6>1
          <6>2. CASE req[j].slice = n /\ Begun(i)
            <7>1. ~(j < i)
              BY <5>1, <6>2 DEF Begun, n
            <7>2. ~(i < j)
              BY <1>4, <5>1, <6>2 DEF Sound, TasksInTurn, Working, n
            <7> QED  BY <3>2, <7>1, <7>2 DEF Request
          <6> QED  BY <1>4, <6>1, <6>2
        <5> QED  BY <4>1, <5>1, <5>2 DEF Sound, Lists
      <4> QED  BY <4>2, <4>3
    <3> QED  BY <3>1, <3>2
  <2>3. \A j \in Request : req'[j].slice = req[j].slice
    BY <1>2
  <2> QED  BY <2>1, <2>2, <2>3 DEF Lists
<1>11. OpsInTurn'
  BY <1>2 DEF Sound, OpsInTurn
<1> QED  BY <1>7, <1>8, <1>9, <1>10, <1>11

LEMMA TaskKeepsOps ==
    ASSUME Typed, Sound, NEW i \in Request, TaskStep(i), NEW O,
           MayLaunch(i, O), Launched(O)
    PROVE  OpsKnown' /\ NssInTurn'
<1>1. \A j \in Request :
          /\ req'[j].slice = req[j].slice /\ req'[j].kind = req[j].kind
          /\ req'[j].ops = req[j].ops
          /\ req'[j].pc = "free" <=> req[j].pc = "free"
          /\ Open(j)' <=> Open(j)
          /\ Active(j)' => Active(j)
          /\ j # i => req'[j] = req[j]
  BY TaskFacts
<1>2. /\ req[i].pc \in {"sent", "poll", "write"}
      /\ req'[i].pc \in {"poll", "write", "over"}
      /\ \A r \in Nsr : nsi'[req[i].slice].uses[r]
                            \in {nsi[req[i].slice].uses[r], NoRequest}
      /\ OnlySlice(req[i].slice) /\ UNCHANGED <<nsr, handler, marks>>
  BY DEF TaskStep
<1>3. Launching(i, O)
  BY LaunchFacts
<1>4. OpsKnown'
  <2>1. \A j \in Request, r \in Nsr :
            req[j].ops[r] \in Request \cup {NoRequest}
    BY DEF Typed, TypeOK, ReqRec, OpFun
  <2>2. \A m \in Slice, r \in Nsr :
            nsi[m].uses[r] \in Request \cup {NoRequest}
    BY DEF Typed, TypeOK, SliceRec, OpFun
  <2>3. \A j \in Request : Asked(j) => Asked(j)'
    BY <1>1 DEF Asked, Instantiates
  <2>4. ASSUME NEW j \in Request, NEW r \in Nsr, req'[j].ops[r] # NoRequest
        PROVE  /\ req'[j].pc # "free" /\ r \in SharedNs \cup {req'[j].slice}
               /\ r \in Slice \/ Terminates(j)' => req'[j].ops[r] = j
               /\ Instantiates(j)' => Asked(req[j].ops[r])'
    <3>1. req'[j].ops = req[j].ops /\ req[j].ops[r] \in Request
      BY <1>1, <2>1, <2>4
    <3>2. /\ req[j].pc # "free" /\ r \in SharedNs \cup {req[j].slice}
          /\ r \in Slice \/ Terminates(j) => req[j].ops[r] = j
          /\ Instantiates(j) => Asked(req[j].ops[r])
      BY <2>4, <3>1 DEF Sound, OpsKnown
    <3>3. /\ req'[j].pc # "free" /\ r \in SharedNs \cup {req'[j].slice}
          /\ r \in Slice \/ Terminates(j)' => req'[j].ops[r] = j
      BY <1>1, <3>2 DEF Terminates
    <3>4. Instantiates(j)' => Asked(req[j].ops[r])'
      BY <1>1, <3>1, <3>2 DEF Instantiates, Asked
    <3> QED  BY <3>3, <3>4
  <2>5. ASSUME NEW m \in Slice, NEW r \in Nsr, nsi'[m].uses[r] # NoRequest
        PROVE  Asked(nsi[m].uses[r])'
    <3>1. nsi'[m].uses[r] = nsi[m].uses[r]
      <4>1. CASE m = req[i].slice
        BY <1>2, <2>5, <4>1
      <4>2. CASE m # req[i].slice
        BY <1>2, <4>2 DEF OnlySlice
      <4> QED  BY <4>1, <4>2
    <3>2. nsi[m].uses[r] \in Request /\ Asked(nsi[m].uses[r])
      BY <2>2, <2>5, <3>1 DEF Sound, OpsKnown
    <3> QED  BY <1>1, <3>1, <3>2 DEF Asked, Instantiates
  <2>6. ASSUME NEW j \in Request, req'[j].pc = "act", req'[j].found # NoRequest
        PROVE  Asked(req[j].found)'
    <3>1. req'[j] = req[j]
      BY <1>1, <1>2, <2>6
    <3>2. Asked(req[j].found) /\ req[j].found \in Request
      BY <2>6, <3>1 DEF Sound, OpsKnown, Typed, TypeOK, ReqRec
    <3> QED  BY <1>1, <3>1, <3>2 DEF Asked, Instantiates
  <2>7. ASSUME NEW j \in Request, NEW r \in Nsr
        PROVE  /\ req'[j].pc = "free" => Untouched(<<j, r>>)'
               /\ Open(j)' => /\ nslcmop'[<<j, r>>].run = "no"
                              /\ nslcmop'[<<j, r>>].state
                                     \in {"none", "PROCESSING"}
               /\ Terminates(j)' /\ req'[j].pc \in {"look", "act", "own", "sent"}
                      => nslcmop'[<<j, r>>].run = "no"
               /\ ~Untouched(<<j, r>>)' /\ r \in Slice => r = req'[j].slice
               /\ nslcmop'[<<j, r>>].state \in {"COMPLETED", "FAILED"}
                      <=> /\ nslcmop'[<<j, r>>].run = "over"
                          /\ nslcmop'[<<j, r>>].state # "none"
               /\ Processing(<<j, r>>)' => Exist(r)'
               /\ nslcmop'[<<j, r>>].run = "work"
                      => Processing(<<j, r>>)' \/ nsr'[r] = "gone"
    <3>1. /\ req[j].pc = "free" => Untouched(<<j, r>>)
          /\ Open(j) => /\ nslcmop[<<j, r>>].run = "no"
                        /\ nslcmop[<<j, r>>].state \in {"none", "PROCESSING"}
          /\ Terminates(j) /\ req[j].pc \in {"look", "act", "own", "sent"}
                 => nslcmop[<<j, r>>].run = "no"
          /\ ~Untouched(<<j, r>>) /\ r \in Slice => r = req[j].slice
          /\ nslcmop[<<j, r>>].state \in {"COMPLETED", "FAILED"}
                 <=> /\ nslcmop[<<j, r>>].run = "over"
                     /\ nslcmop[<<j, r>>].state # "none"
          /\ Processing(<<j, r>>) => Exist(r)
          /\ nslcmop[<<j, r>>].run = "work"
                 => Processing(<<j, r>>) \/ nsr[r] = "gone"
      BY DEF Sound, OpsKnown
    <3>2. /\ req'[j].slice = req[j].slice
          /\ req'[j].pc = "free" <=> req[j].pc = "free"
          /\ Open(j)' <=> Open(j)
          /\ Terminates(j)' <=> Terminates(j)
          /\ req'[j].pc \in {"look", "act", "own", "sent"}
                 => /\ req[j].pc \in {"look", "act", "own", "sent"} /\ j # i
      BY <1>1, <1>2 DEF Terminates
    <3>3. nslcmop'[<<j, r>>].state = nslcmop[<<j, r>>].state /\ nsr' = nsr
      BY <1>2, <1>3 DEF Launching
    <3>4. CASE nslcmop'[<<j, r>>].run = nslcmop[<<j, r>>].run
      BY <3>1, <3>2, <3>3, <3>4 DEF Untouched, Processing, Exist
    <3>5. CASE /\ nslcmop[<<j, r>>].run = "no"
               /\ nslcmop'[<<j, r>>].run = "wait"
               /\ req[j].pc # "free" /\ ~Open(j)
               /\ r \in Slice => r = req[j].slice
               /\ Terminates(j) => j = i
      BY <3>1, <3>2, <3>3, <3>5 DEF Untouched, Processing, Exist
    <3> QED  BY <1>3, <3>4, <3>5 DEF Launching
  <2> QED  BY <2>4, <2>5, <2>6, <2>7 DEF OpsKnown
<1>5. NssInTurn'
  <2>1. \A q \in Request : Terminates(q)' <=> Terminates(q)
    BY <1>1 DEF Terminates
  <2>2. \A q \in Request, r \in Nsr : Runs(q, r)' => Runs(q, r)
    <3> SUFFICES ASSUME NEW q \in Request, NEW r \in Nsr, Runs(q, r)'
                 PROVE  Runs(q, r)
      OBVIOUS
    <3>1. /\ nslcmop'[<<q, r>>].state = nslcmop[<<q, r>>].state
          /\ \/ nslcmop'[<<q, r>>].run = nslcmop[<<q, r>>].run
             \/ nslcmop'[<<q, r>>].run = "wait"
      BY <1>3 DEF Launching
    <3> QED  BY <1>1, <3>1 DEF Runs, Instantiates
  <2>3. ASSUME NEW t \in Request, NEW r \in Nsr, Terminates(t), Pending(t, r)'
        PROVE  Pending(t, r)
    <3>1. Processing(<<t, r>>)
      BY <1>3, <2>3 DEF Pending, Processing, Launching
    <3>2. nslcmop'[<<t, r>>].run # "no" \/ req'[t].pc \notin {"poll", "write", "over"}
      BY <2>3 DEF Pending, NsStuck
    <3>3. req[t].pc \in {"poll", "write", "over"}
              => req'[t].pc \in {"poll", "write", "over"}
      BY <1>1, <1>2
    <3>4. \/ nslcmop'[<<t, r>>].run = nslcmop[<<t, r>>].run
          \/ t = i /\ req[i].pc = "sent"
      BY <1>3, <2>3 DEF Launching
    <3> QED  BY <3>1, <3>2, <3>3, <3>4 DEF Pending, NsStuck
  <2>4. ASSUME NEW q \in Request, NEW r \in Nsr, Unshaken(q, r)'
        PROVE  Unshaken(q, r)
    <3> SUFFICES ASSUME NEW t \in Request, q < t, Terminates(t)
                 PROVE  nslcmop[<<t, r>>].run = "no"
      BY DEF Unshaken
    <3>1. nslcmop'[<<t, r>>].run = "no"
      BY <2>1, <2>4 DEF Unshaken
    <3>2. \/ nslcmop'[<<t, r>>].run = nslcmop[<<t, r>>].run
          \/ nslcmop[<<t, r>>].run = "no"
      BY <1>3 DEF Launching
    <3> QED  BY <3>1, <3>2
  <2> QED  BY <1>2, <2>1, <2>2, <2>3, <2>4 DEF Sound, NssInTurn
<1> QED  BY <1>4, <1>5

LEMMA TaskKeepsSlices ==
    ASSUME Typed, Sound, Undisturbed', NEW i \in Request, TaskStep(i), NEW O,
           MayLaunch(i, O), Launched(O)
    PROVE  Reliance' /\ KindsInTurn' /\ VldKnown'
<1> DEFINE n == req[i].slice
<1>1. n \in Slice /\ There(n)
  BY TaskFacts
<1>2. \A j \in Request :
          /\ req'[j].slice = req[j].slice /\ req'[j].kind = req[j].kind
          /\ req'[j].ops = req[j].ops
          /\ req'[j].pc = "free" <=> req[j].pc = "free"
          /\ Open(j)' <=> Open(j)
          /\ Active(j)' => Active(j)
          /\ j # i => req'[j] = req[j]
  BY TaskFacts
<1>3. \A m \in Slice :
          /\ nsi'[m].life = nsi[m].life /\ nsi'[m].vld = nsi[m].vld
          /\ nsi'[m].list \subseteq nsi[m].list
          /\ \A r \in nsi'[m].list : nsi'[m].uses[r] = nsi[m].uses[r]
          /\ nsi[m].list \subseteq Nsr
  BY TaskFacts
<1>4. /\ req[i].pc \in {"sent", "poll", "write"}
      /\ req'[i].pc \in {"poll", "write", "over"}
      /\ UNCHANGED <<nsr, handler, marks>>
      /\ nsi'[n].instantiated =>
             nsi[n].instantiated \/ (Instantiates(i) /\ req[i].pc = "sent")
      /\ nsi'[n].shown \in {"init", "running"} => nsi'[n].instantiated
      /\ Working(i)' =>
             nsi'[n].shown = IF Instantiates(i) THEN "init" ELSE "terminating"
      /\ Begun(i) \/ (UNCHANGED nsi /\ req'[i].pc = "over")
  BY DEF TaskStep
<1>5. \A m \in Slice \ {n} : nsi'[m] = nsi[m]
  BY DEF TaskStep, OnlySlice
<1>6. \A j \in Request : req[j].pc # "free" => req[j].slice \in Slice
  BY DEF Typed, SliceKnown
<1>7. \A j \in Request :
          /\ Instantiates(j)' <=> Instantiates(j)
          /\ Terminates(j)' <=> Terminates(j)
  BY <1>2 DEF Instantiates, Terminates
<1>8. \A j \in Request :
          req'[j].pc \in {"look", "act", "own", "sent"}
              => j # i /\ req'[j] = req[j] /\ req[j].slice \in Slice
  BY <1>2, <1>4, <1>6
<1>8a. Launching(i, O)
  BY LaunchFacts
<1>9. Reliance'
  <2>1. ASSUME NEW q \in Request, NEW s \in SharedNs, Holds(q, s)'
        PROVE  Holds(q, s)
    <3>1. CASE \E m \in Slice :
                   There(m)' /\ s \in nsi'[m].list /\ nsi'[m].uses[s] = q
      BY <1>3, <3>1 DEF Holds, There
    <3>2. CASE \E j \in Request :
                   /\ Instantiates(j)' /\ req'[j].pc \in {"own", "sent"}
                   /\ s \in nsi'[req'[j].slice].list /\ req'[j].ops[s] = q
      <4>1. PICK j \in Request :
                   /\ Instantiates(j)' /\ req'[j].pc \in {"own", "sent"}
                   /\ s \in nsi'[req'[j].slice].list /\ req'[j].ops[s] = q
        BY <3>2
      <4>2. req'[j] = req[j] /\ req[j].slice \in Slice /\ Instantiates(j)
        BY <1>7, <1>8, <4>1
      <4>3. s \in nsi[req[j].slice].list
        BY <1>3, <4>1, <4>2
      <4> QED  BY <4>1, <4>2, <4>3 DEF Holds
    <3>3. CASE \E j \in Request :
                   /\ Instantiates(j)' /\ req'[j].pc = "act"
                   /\ s \in req'[j].read.list /\ req'[j].found = q
      BY <1>7, <1>8, <3>3 DEF Holds
    <3> QED  BY <2>1, <3>1, <3>2, <3>3 DEF Holds
  <2>2. ASSUME NEW q \in Request, NEW t \in Request, NEW s \in SharedNs,
               Holds(q, s)', q < t, Terminates(t)'
        PROVE  Untouched(<<t, s>>)'
    <3>1. Terminates(t) /\ s \in Nsr
      BY <1>7, <2>2 DEF Nsr
    <3>2. Untouched(<<t, s>>)
      BY <2>1, <2>2, <3>1 DEF Sound, Reliance
    <3> QED  BY <1>8a, <3>1, <3>2 DEF Untouched, Launching
  <2>3. ASSUME NEW j \in Request, NEW s \in SharedNs, Instantiates(j)',
               req'[j].pc \in {"own", "sent"},
               s \in nsi'[req'[j].slice].list, req'[j].ops[s] # NoRequest
        PROVE  nsi'[req'[j].slice].uses[s] # NoRequest
    <3>1. req'[j] = req[j] /\ req[j].slice \in Slice /\ Instantiates(j)
      BY <1>7, <1>8, <2>3
    <3>2. s \in nsi[req[j].slice].list
      BY <1>3, <2>3, <3>1
    <3>3. nsi[req[j].slice].uses[s] # NoRequest
      BY <2>3, <3>1, <3>2 DEF Sound, Reliance
    <3> QED  BY <1>3, <2>3, <3>1, <3>3
  <2>4. ASSUME NEW j \in Request, NEW s \in SharedNs, Terminates(j)',
               req'[j].pc = "act", req'[j].found = NoRequest,
               s \in req'[j].read.list,
               NEW m \in OthersListing(req[j].slice, s)'
        PROVE  nsi'[m].uses[s] = NoRequest
    <3>1. req'[j] = req[j] /\ Terminates(j)
      BY <1>7, <1>8, <2>4
    <3>2. m \in Slice /\ s \in nsi'[m].list /\ m \in OthersListing(req[j].slice, s)
      BY <1>3, <2>4, <3>1 DEF OthersListing, There
    <3>3. nsi[m].uses[s] = NoRequest
      BY <2>4, <3>1, <3>2 DEF Sound, Reliance
    <3> QED  BY <1>3, <3>2, <3>3
  <2> QED  BY <2>2, <2>3, <2>4 DEF Reliance
<1>10. KindsInTurn'
  <2>1. ASSUME NEW j \in Request, NEW t \in Request, Instantiates(j)',
               req'[j].pc \in {"look", "act", "own", "sent"}, j < t,
               req'[t].slice = req'[j].slice, req'[t].pc # "free"
        PROVE  Instantiates(t)'
    BY <1>2, <1>7, <1>8, <2>1 DEF Sound, KindsInTurn
  <2>2. ASSUME NEW j \in Request, Instantiates(j)',
               req'[j].pc \in {"look", "act", "own", "sent"},
               "repeated" \notin marks'
        PROVE  ~nsi'[req'[j].slice].instantiated
    <3>1. req'[j] = req[j] /\ Instantiates(j) /\ j # i /\ req[j].slice \in Slice
      BY <1>7, <1>8, <2>2
    <3>2. ~nsi[req[j].slice].instantiated
      BY <1>4, <2>2, <3>1 DEF Sound, KindsInTurn
    <3>3. CASE req[j].slice = n
      <4>1. ~Instantiates(i)
        BY <1>4, <2>2, <3>1, <3>3
        DEF Sound, KindsInTurn, Active, Instantiates
      <4> QED  BY <1>4, <3>1, <3>2, <3>3, <4>1
    <3>4. CASE req[j].slice # n
      BY <1>5, <3>1, <3>2, <3>4
    <3> QED  BY <3>3, <3>4
  <2>3. ASSUME NEW j \in Request, NEW q \in Request, j # q, Active(j)',
               Active(q)', req'[j].slice = req'[q].slice,
               req'[j].kind = req'[q].kind
        PROVE  "repeated" \in marks'
    BY <1>2, <1>4, <2>3 DEF Sound, KindsInTurn
  <2> QED  BY <2>1, <2>2, <2>3 DEF KindsInTurn
<1>11. VldKnown'
  <2>1. ASSUME NEW m \in Slice
        PROVE  /\ There(m)' /\ nsi'[m].instantiated
                      => Shared(nsi'[m].list) \subseteq nsi'[m].vld
               /\ nsi'[m].shown \in {"init", "running"} => nsi'[m].instantiated
    <3>1. CASE m # n
      BY <1>5, <3>1 DEF Sound, VldKnown, There, Shared
    <3>2. CASE m = n
      <4>1. nsi'[n].instantiated => Shared(nsi[n].list) \subseteq nsi[n].vld
        BY <1>1, <1>4 DEF Sound, VldKnown
      <4> QED  BY <1>1, <1>3, <1>4, <3>2, <4>1 DEF Shared
    <3> QED  BY <3>1, <3>2
  <2>2. ASSUME NEW j \in Request
        PROVE  /\ Instantiates(j)' /\ req'[j].pc \in {"own", "sent"}
                      => Shared(nsi'[req'[j].slice].list)
                             \subseteq nsi'[req'[j].slice].vld
               /\ Terminates(j)' /\ Open(j)'
                      => Shared(req'[j].read.list)
                             \subseteq nsi'[req'[j].slice].vld
               /\ Terminates(j)' /\ Active(j)'
                      => \A s \in SharedNs : req'[j].ops[s] # NoRequest
                             => s \in nsi'[req'[j].slice].vld
               /\ Working(j)' =>
                      nsi'[req'[j].slice].shown =
                          IF Instantiates(j)' THEN "init" ELSE "terminating"
    <3>1. Instantiates(j)' /\ req'[j].pc \in {"own", "sent"}
              => Shared(nsi'[req'[j].slice].list) \subseteq nsi'[req'[j].slice].vld
      <4> HAVE Instantiates(j)' /\ req'[j].pc \in {"own", "sent"}
      <4>1. req'[j] = req[j] /\ req[j].slice \in Slice /\ Instantiates(j)
        BY <1>7, <1>8
      <4>2. Shared(nsi[req[j].slice].list) \subseteq nsi[req[j].slice].vld
        BY <4>1 DEF Sound, VldKnown
      <4> QED  BY <1>3, <4>1, <4>2 DEF Shared
    <3>2. Terminates(j)' /\ Open(j)'
              => Shared(req'[j].read.list) \subseteq nsi'[req'[j].slice].vld
      <4> HAVE Terminates(j)' /\ Open(j)'
      <4>1. req'[j] = req[j] /\ req[j].slice \in Slice /\ Terminates(j) /\ Open(j)
        BY <1>2, <1>7, <1>8 DEF Open
      <4>2. Shared(req[j].read.list) \subseteq nsi[req[j].slice].vld
        BY <4>1 DEF Sound, VldKnown
      <4> QED  BY <1>3, <4>1, <4>2
    <3>3. Terminates(j)' /\ Active(j)'
              => \A s \in SharedNs : req'[j].ops[s] # NoRequest
                     => s \in nsi'[req'[j].slice].vld
      <4> HAVE Terminates(j)' /\ Active(j)'
      <4>1. /\ Terminates(j) /\ Active(j) /\ req'[j].ops = req[j].ops
            /\ req'[j].slice = req[j].slice
        BY <1>2, <1>7
      <4>2. req[j].slice \in Slice
        BY <1>6, <4>1 DEF Active
      <4>3. \A s \in SharedNs : req[j].ops[s] # NoRequest
                                    => s \in nsi[req[j].slice].vld
        BY <4>1 DEF Sound, VldKnown
      <4> QED  BY <1>3, <4>1, <4>2, <4>3
    <3>4. Working(j)' => nsi'[req'[j].slice].shown =
                             IF Instantiates(j)' THEN "init" ELSE "terminating"
      <4>1. CASE j = i
        BY <1>2, <1>4, <1>7, <4>1
      <4>2. CASE j # i
        <5> HAVE Working(j)'
        <5>1. req'[j] = req[j] /\ Working(j) /\ req[j].slice \in Slice
          BY <1>2, <1>6, <4>2 DEF Working
        <5>2. nsi'[req[j].slice] = nsi[req[j].slice]
          <6>1. CASE req[j].slice # n
            BY <1>5, <5>1, <6>1
          <6>2. CASE req[j].slice = n /\ Begun(i)
            <7>1. ~(j < i)
              BY <5>1, <6>2 DEF Begun, Working
            <7>2. ~(i < j)
              BY <1>4, <5>1, <6>2 DEF Sound, TasksInTurn
            <7> QED  BY <4>2, <7>1, <7>2 DEF Request
          <6> QED  BY <1>4, <6>1, <6>2
        <5> QED  BY <1>7, <5>1, <5>2 DEF Sound, VldKnown
      <4> QED  BY <4>1, <4>2
    <3> QED  BY <3>1, <3>2, <3>3, <3>4
  <2>3. IsFiniteSet({m \in Slice : nsi'[m].life # "new"})
    <3>1. {m \in Slice : nsi'[m].life # "new"}
              = {m \in Slice : nsi[m].life # "new"}
      BY <1>3
    <3>2. IsFiniteSet({m \in Slice : nsi[m].life # "new"})
      BY DEF Sound, VldKnown
    <3> QED  BY <3>1, <3>2
  <2> QED  BY <2>1, <2>2, <2>3 DEF VldKnown
<1> QED  BY <1>9, <1>10, <1>11

\* What a task is about to write, when all its operations are completed.
AllCompleted(i) ==
    Instantiates(i) /\ req[i].read.all = "COMPLETED" =>
        \A r \in req[i].read.list :
            /\ req[i].ops[r] # NoRequest
            /\ nslcmop[<<req[i].ops[r], r>>].state = "COMPLETED"

\* A task that starts no termination disturbs no NS.
LEMMA TaskKeepsKeeping ==
    ASSUME Typed, Sound, NEW i \in Request, TaskStep(i), NEW O,
           MayLaunch(i, O), Launched(O), O = {} \/ Instantiates(i),
           nsi'[req[i].slice].shown = "running" =>
               \/ nsi[req[i].slice].shown = "running"
               \/ \A r \in nsi'[req[i].slice].list : Kept(r),
           req'[i].pc = "write" => AllCompleted(i)'
    PROVE  Keeping'
<1> DEFINE n == req[i].slice
<1>1. n \in Slice /\ There(n)
  BY TaskFacts
<1>2. \A j \in Request :
          /\ req'[j].slice = req[j].slice /\ req'[j].kind = req[j].kind
          /\ req'[j].ops = req[j].ops
          /\ req'[j].pc = "free" <=> req[j].pc = "free"
          /\ Open(j)' <=> Open(j)
          /\ Active(j)' => Active(j)
          /\ j # i => req'[j] = req[j]
  BY TaskFacts
<1>3. \A m \in Slice :
          /\ nsi'[m].life = nsi[m].life /\ nsi'[m].vld = nsi[m].vld
          /\ nsi'[m].list \subseteq nsi[m].list
          /\ \A r \in nsi'[m].list : nsi'[m].uses[r] = nsi[m].uses[r]
          /\ nsi[m].list \subseteq Nsr
  BY TaskFacts
<1>4. /\ req[i].pc \in {"sent", "poll", "write"}
      /\ req'[i].pc \in {"poll", "write", "over"}
  BY DEF TaskStep
<1>5. \A m \in Slice \ {n} : nsi'[m] = nsi[m]
  BY DEF TaskStep, OnlySlice
<1>6. \A j \in Request : req[j].pc # "free" => req[j].slice \in Slice
  BY DEF Typed, SliceKnown
<1>7. \A j \in Request :
          /\ Instantiates(j)' <=> Instantiates(j)
          /\ Terminates(j)' <=> Terminates(j)
  BY <1>2 DEF Instantiates, Terminates
<1>8. ASSUME NEW q, NEW r \in Nsr, Unshaken(q, r)
      PROVE  \A t \in Request :
                 q < t /\ Terminates(t)' => nslcmop'[<<t, r>>].run = "no"
  <2> SUFFICES ASSUME NEW t \in Request, q < t, Terminates(t)'
               PROVE  nslcmop'[<<t, r>>].run = "no"
    OBVIOUS
  <2>1. Terminates(t) /\ nslcmop[<<t, r>>].run = "no"
    BY <1>7, <1>8 DEF Unshaken
  <2>2. Launching(i, O)
    BY LaunchFacts
  <2>3. \/ nslcmop'[<<t, r>>].run = nslcmop[<<t, r>>].run
        \/ t = i /\ O # {}
    BY <2>1, <2>2 DEF Launching
  <2>4. ~(Terminates(i) /\ Instantiates(i))
    BY DEF Instantiates, Terminates
  <2> QED  BY <2>1, <2>3, <2>4
<1>9. ASSUME NEW r \in Nsr, Kept(r)
      PROVE  Kept(r)'
  <2>1. PICK q \in Request :
            /\ Instantiates(q) /\ nslcmop[<<q, r>>].state = "COMPLETED"
            /\ Unshaken(q, r)
    BY <1>9 DEF Kept
  <2>2. nslcmop'[<<q, r>>].state = "COMPLETED"
    BY <2>1, LaunchFacts DEF Launching
  <2>3. \A t \in Request :
            q < t /\ Terminates(t)' => nslcmop'[<<t, r>>].run = "no"
    BY <1>8, <2>1
  <2> QED  BY <1>7, <2>1, <2>2, <2>3 DEF Kept, Unshaken
<1>10. ASSUME NEW m \in Slice, There(m)', nsi'[m].shown = "running",
              NEW r \in nsi'[m].list
       PROVE  Kept(r)'
  <2>1. r \in nsi[m].list /\ r \in Nsr /\ There(m)
    BY <1>3, <1>10 DEF There
  <2>2. Kept(r)
    <3>1. CASE nsi[m].shown = "running"
      BY <2>1, <3>1 DEF Sound, Keeping
    <3>2. CASE nsi[m].shown # "running"
      <4>1. m = n
        BY <1>5, <1>10, <3>2
      <4> QED  BY <1>10, <3>2, <4>1
    <3> QED  BY <3>1, <3>2
  <2> QED  BY <1>9, <2>1, <2>2
<1>11. ASSUME NEW j \in Request, Instantiates(j)',
              req'[j].pc \in {"own", "sent", "poll", "write"},
              NEW r \in nsi'[req'[j].slice].list, req'[j].ops[r] # NoRequest
       PROVE  Unshaken(req[j].ops[r], r)'
  <2>1. /\ Instantiates(j) /\ req[j].pc \in {"own", "sent", "poll", "write"}
        /\ req'[j].slice = req[j].slice /\ req'[j].ops = req[j].ops
        /\ req[j].slice \in Slice
    BY <1>2, <1>4, <1>6, <1>7, <1>11
  <2>2. r \in nsi[req[j].slice].list /\ r \in Nsr
    BY <1>3, <1>11, <2>1
  <2>3. Unshaken(req[j].ops[r], r)
    BY <1>11, <2>1, <2>2 DEF Sound, Keeping
  <2> DEFINE q == req[j].ops[r]
  <2>4. \A t \in Request :
            q < t /\ Terminates(t)' => nslcmop'[<<t, r>>].run = "no"
    BY <1>8, <2>2, <2>3
  <2>5. Unshaken(req[j].ops[r], r)' <=>
            \A t \in Request :
                req[j].ops[r] < t /\ Terminates(t)'
                    => nslcmop'[<<t, r>>].run = "no"
    BY <2>1 DEF Unshaken
  <2> QED  BY <2>4, <2>5
<1>12. ASSUME NEW j \in Request, Instantiates(j)', req'[j].pc = "write",
              req'[j].read.all = "COMPLETED", NEW r \in req'[j].read.list
       PROVE  /\ req'[j].ops[r] # NoRequest
              /\ nslcmop'[<<req'[j].ops[r], r>>].state = "COMPLETED"
  <2>1. CASE j = i
    BY <1>12, <2>1 DEF AllCompleted
  <2>2. CASE j # i
    <3>1. req'[j] = req[j] /\ Instantiates(j) /\ req[j].slice \in Slice
      BY <1>2, <1>6, <1>7, <1>12, <2>2
    <3>2. /\ req[j].ops[r] # NoRequest
          /\ nslcmop[<<req[j].ops[r], r>>].state = "COMPLETED"
      BY <1>12, <3>1 DEF Sound, Keeping
    <3>3. r \in Nsr
      BY <1>3, <1>12, <3>1 DEF Sound, Lists
    <3>4. req[j].ops[r] \in Request
      BY <3>2, <3>3 DEF Typed, TypeOK, ReqRec, OpFun
    <3> QED  BY <3>1, <3>2, <3>3, <3>4, LaunchFacts DEF Launching
  <2> QED  BY <2>1, <2>2
<1> QED  BY <1>10, <1>11, <1>12 DEF Keeping

\* A step that starts no termination keeps the invariant.
LEMMA TaskKeeps ==
    ASSUME Typed, Sound, Undisturbed', NEW i \in Request, TaskStep(i), NEW O,
           MayLaunch(i, O), Launched(O), O = {} \/ Instantiates(i),
           nsi'[req[i].slice].shown = "running" =>
               \/ nsi[req[i].slice].shown = "running"
               \/ \A r \in nsi'[req[i].slice].list : Kept(r),
           req'[i].pc = "write" => AllCompleted(i)'
    PROVE  Sound'
<1>1. InTurn' /\ Alive' /\ TasksInTurn' /\ Lists' /\ OpsInTurn'
  BY TaskKeepsRequests
<1>2. OpsKnown' /\ NssInTurn'
  BY TaskKeepsOps
<1>3. Reliance' /\ KindsInTurn' /\ VldKnown'
  BY TaskKeepsSlices
<1>4. Keeping'
  BY TaskKeepsKeeping
<1> QED  BY <1>1, <1>2, <1>3, <1>4 DEF Sound

LEMMA NothingLaunched ==
    ASSUME NEW i \in Request, UNCHANGED nslcmop
    PROVE  MayLaunch(i, {}) /\ Launched({})
BY DEF MayLaunch, Launched

\* What is read is what is written.
LEMMA ReadsAll ==
    ASSUME Typed, NEW i \in Request, req[i].slice \in Slice,
           Writes(i), NEW O, Launched(O)
    PROVE  AllCompleted(i)'
<1>1. req'[i].ops = req[i].ops /\ Reads(i, req'[i].read)
  BY DEF Writes, SameTask
<1>2. ASSUME NEW r \in req'[i].read.list, req'[i].read.all = "COMPLETED"
      PROVE  /\ req'[i].ops[r] # NoRequest
             /\ nslcmop'[<<req'[i].ops[r], r>>].state = "COMPLETED"
  <2>1. /\ r \in Nsr /\ req[i].ops[r] # NoRequest
        /\ nslcmop[<<req[i].ops[r], r>>].state = "COMPLETED"
    BY <1>1, <1>2 DEF Reads
  <2>2. req[i].ops[r] \in Request
    BY <2>1 DEF Typed, TypeOK, ReqRec, OpFun
  <2> QED  BY <1>1, <2>1, <2>2 DEF Launched
<1> QED  BY <1>2 DEF AllCompleted

LEMMA EndKeeps ==
    ASSUME Typed, Sound, Undisturbed', NEW i \in Request,
           req[i].pc \in {"sent", "poll", "write"}, req'[i].pc = "over",
           SameTask(i), OnlyReq(i), UNCHANGED <<nsi, nsr, nslcmop, handler, marks>>
    PROVE  Sound'
<1> DEFINE n == req[i].slice
<1>1. n \in Slice
  BY DEF Typed, SliceKnown
<1>2. nsi[n].shown \in {"init", "running"} => nsi[n].instantiated
  BY <1>1 DEF Sound, VldKnown
<1>3. TaskStep(i)
  BY <1>1, <1>2 DEF TaskStep, OnlySlice, Working
<1>4. MayLaunch(i, {}) /\ Launched({})
  BY NothingLaunched
<1> QED  BY <1>3, <1>4, TaskKeeps

LEMMA FailedKeeps ==
    ASSUME Typed, Sound, Undisturbed', NEW i \in Request,
           req[i].pc \in {"sent", "poll", "write"}, Begun(i), Failed(i),
           nsi'[req[i].slice].instantiated =>
               \/ nsi[req[i].slice].instantiated
               \/ (Instantiates(i) /\ req[i].pc = "sent"),
           UNCHANGED <<nsr, nslcmop, handler, marks>>
    PROVE  Sound'
<1> DEFINE n == req[i].slice
<1>1. n \in Slice
  BY DEF Typed, SliceKnown
<1>2. TaskStep(i)
  BY <1>1 DEF TaskStep, Failed, SameSlice, Working
<1>3. MayLaunch(i, {}) /\ Launched({})
  BY NothingLaunched
<1>4. nsi'[n].shown # "running" /\ req'[i].pc # "write"
  BY DEF Failed
<1> QED  BY <1>2, <1>3, <1>4, TaskKeeps

LEMMA GiveUpKeeps ==
    ASSUME Typed, Sound, Undisturbed', NEW i \in Request, GiveUp(i)
    PROVE  Sound'
BY GiveUpDoes, EndKeeps

LEMMA PollKeeps ==
    ASSUME Typed, Sound, Undisturbed', NEW i \in Request, Poll(i) \/ Late(i)
    PROVE  Sound'
<1> DEFINE n == req[i].slice
<1>1. /\ req[i].pc = "poll"
      /\ UNCHANGED <<nsr, nslcmop, handler, notices, marks>>
      /\ \/ /\ Failed(i)
            /\ nsi'[n].instantiated = nsi[n].instantiated
         \/ Writes(i) /\ UNCHANGED nsi
  BY PollDoes DEF Sound
<1>2. Begun(i)
  BY <1>1, TurnBegins DEF Working
<1>3. n \in Slice
  BY <1>1 DEF Typed, SliceKnown
<1>4. CASE /\ Failed(i)
           /\ nsi'[n].instantiated = nsi[n].instantiated
  BY <1>1, <1>2, <1>4, FailedKeeps
<1>5. CASE Writes(i) /\ UNCHANGED nsi
  <2>1. /\ nsi[n].shown \in {"init", "running"} => nsi[n].instantiated
        /\ nsi[n].shown = IF Instantiates(i) THEN "init" ELSE "terminating"
    BY <1>1, <1>3 DEF Sound, VldKnown, Working
  <2>2. TaskStep(i)
    BY <1>1, <1>2, <1>3, <1>5, <2>1
    DEF TaskStep, Writes, Reads, OnlySlice, Working
  <2>3. MayLaunch(i, {}) /\ Launched({})
    BY <1>1, NothingLaunched
  <2>4. AllCompleted(i)'
    BY <1>3, <1>5, <2>3, ReadsAll
  <2> QED  BY <1>5, <2>2, <2>3, <2>4, TaskKeeps
<1> QED  BY <1>1, <1>4, <1>5

LEMMA WriteKeeps ==
    ASSUME Typed, Sound, Undisturbed', NEW i \in Request, Write(i)
    PROVE  Sound'
<1> DEFINE n == req[i].slice
           read == req[i].read
<1>1. /\ req[i].pc = "write"
      /\ SameTask(i) /\ OnlyReq(i) /\ OnlySlice(n)
      /\ \A r \in read.list : nsi[n].uses[r] = read.uses[r]
      /\ nsi'[n].life = nsi[n].life /\ nsi'[n].vld = nsi[n].vld
      /\ nsi'[n].list = read.list /\ nsi'[n].uses = read.uses
      /\ \/ /\ req'[i].pc = "poll" /\ req'[i].state = req[i].state
            /\ nsi'[n].instantiated = nsi[n].instantiated
            /\ nsi'[n].shown = nsi[n].shown
            /\ req'[i].read = NoRead
         \/ /\ req'[i].pc = "over" /\ nsi'[n].shown = "failed"
            /\ nsi'[n].instantiated = nsi[n].instantiated
         \/ /\ req'[i].pc = "over" /\ nsi'[n].shown = "terminated"
            /\ ~nsi'[n].instantiated
            /\ Terminates(i) /\ read.all = "COMPLETED"
         \/ /\ req'[i].pc = "over" /\ nsi'[n].shown = "running"
            /\ nsi'[n].instantiated = nsi[n].instantiated
            /\ Instantiates(i) /\ read.all = "COMPLETED"
      /\ marks' = marks
      /\ UNCHANGED <<nsr, nslcmop, handler, faults>>
  BY WriteDoes DEF Sound
<1>2. Begun(i)
  BY <1>1, TurnBegins DEF Working
<1>3. n \in Slice
  BY <1>1 DEF Typed, SliceKnown
<1>4. /\ nsi[n].shown \in {"init", "running"} => nsi[n].instantiated
      /\ nsi[n].shown = IF Instantiates(i) THEN "init" ELSE "terminating"
  BY <1>1, <1>3 DEF Sound, VldKnown, Working
<1>5. /\ read.list \subseteq nsi[n].list
      /\ \A r \in Nsr \ read.list : read.uses[r] = NoRequest
  BY <1>1 DEF Sound, Lists
<1>6. Instantiates(i) => nsi[n].instantiated
  BY <1>4
<1>7. /\ Working(i)' => req'[i].state = req[i].state
      /\ nsi'[n].instantiated => nsi[n].instantiated
      /\ nsi'[n].shown \in {"init", "running"} => nsi'[n].instantiated
      /\ Working(i)' =>
             nsi'[n].shown = IF Instantiates(i) THEN "init" ELSE "terminating"
      /\ req'[i].pc \in {"poll", "over"}
  BY <1>1, <1>4, <1>6 DEF Working
<1>8. /\ \A r \in nsi'[n].list : nsi'[n].uses[r] = nsi[n].uses[r]
      /\ \A r \in Nsr : nsi'[n].uses[r] \in {nsi[n].uses[r], NoRequest}
  BY <1>1, <1>5
<1>9. TaskStep(i)
  BY <1>1, <1>2, <1>5, <1>7, <1>8 DEF TaskStep
<1>10. MayLaunch(i, {}) /\ Launched({})
  BY <1>1, NothingLaunched
<1>11. ASSUME nsi'[n].shown = "running"
       PROVE  \/ nsi[n].shown = "running"
              \/ \A r \in nsi'[n].list : Kept(r)
  <2> SUFFICES ASSUME nsi[n].shown # "running", NEW r \in nsi'[n].list
               PROVE  Kept(r)
    OBVIOUS
  <2>1. Instantiates(i) /\ read.all = "COMPLETED"
    BY <1>1, <1>11
  <2>2. r \in read.list /\ r \in nsi[n].list /\ r \in Nsr
    BY <1>1, <1>3, <1>5 DEF Typed, TypeOK, SliceRec
  <2>3. /\ req[i].ops[r] # NoRequest
        /\ nslcmop[<<req[i].ops[r], r>>].state = "COMPLETED"
    BY <1>1, <2>1, <2>2 DEF Sound, Keeping
  <2>4. Unshaken(req[i].ops[r], r)
    BY <1>1, <2>1, <2>2, <2>3 DEF Sound, Keeping
  <2>5. Asked(req[i].ops[r])
    BY <2>1, <2>2, <2>3 DEF Sound, OpsKnown
  <2>6. req[i].ops[r] \in Request
    BY <2>2, <2>3 DEF Typed, TypeOK, ReqRec, OpFun
  <2> QED  BY <2>3, <2>4, <2>5, <2>6 DEF Kept, Asked
<1>12. req'[i].pc # "write"
  BY <1>7
<1> QED  BY <1>9, <1>10, <1>11, <1>12, TaskKeeps

\* A termination starts only where nobody else needs the NS.
LEMMA NobodyNeeds ==
    ASSUME Typed, Sound, NEW i \in Request, Terminates(i), req[i].pc = "sent",
           Begun(i), NEW r \in Nsr, <<i, r>> \in Terminable(i),
           nslcmop[<<i, r>>].state # "none",
           NEW m \in Slice \ {req[i].slice}, There(m), r \in nsi[m].list,
           nsi[m].shown \in {"init", "running"}
    PROVE  FALSE
<1> DEFINE n == req[i].slice
           P == {k \in Slice : nsi[k].life # "new"}
           N == {n, m}
<1>1. n \in Slice /\ There(n)
  BY DEF Typed, SliceKnown, Sound, Alive, Active
<1>2. req[i].ops[r] = i /\ Cardinality(InUse(n, r)) < 2
  BY DEF Terminable, OpsOf
<1>3. r \in SharedNs \cup {n}
  BY <1>2 DEF Sound, OpsKnown, Request, NoRequest
<1>4. r \in SharedNs
  <2>1. r \in SharedNs \cup {m}
    BY DEF Sound, Lists, Listable
  <2> QED  BY <1>3, <2>1
<1>5. r \in nsi[n].vld
  BY <1>2, <1>4 DEF Sound, VldKnown, Active, Request, NoRequest
<1>6. r \in nsi[m].vld
  BY <1>4 DEF Sound, VldKnown, Shared
<1>7. N \subseteq InUse(n, r)
  BY <1>1, <1>5, <1>6 DEF InUse
<1>8. IsFiniteSet(P)
  BY DEF Sound, VldKnown
<1>9. InUse(n, r) \subseteq P
  BY DEF InUse, There
<1>10. IsFiniteSet(InUse(n, r))
  BY <1>8, <1>9, FS_Subset
<1>11. Cardinality(N) = 2
  <2>1. IsFiniteSet({n}) /\ Cardinality({n}) = 1
    BY FS_Singleton
  <2>2. Cardinality({n} \cup {m}) = Cardinality({n}) + 1
    BY <2>1, FS_AddElement
  <2>3. N = {n} \cup {m}
    OBVIOUS
  <2> QED  BY <2>1, <2>2, <2>3
<1>12. Cardinality(N) <= Cardinality(InUse(n, r))
  BY <1>7, <1>10, FS_Subset
<1>13. Cardinality(InUse(n, r)) \in Nat
  BY <1>10, FS_CardinalityType
<1> QED  BY <1>2, <1>11, <1>12, <1>13

LEMMA TerminationKeepsKeeping ==
    ASSUME Typed, Sound, NEW i \in Request, Terminates(i), req[i].pc = "sent",
           TaskStep(i), Begun(i), MayLaunch(i, Terminable(i)),
           Launched(Terminable(i)), nsi'[req[i].slice].shown = "terminating"
    PROVE  Keeping'
<1> DEFINE n == req[i].slice
           O == Terminable(i)
<1>1. n \in Slice /\ There(n)
  BY TaskFacts
<1>2. \A j \in Request :
          /\ req'[j].slice = req[j].slice /\ req'[j].kind = req[j].kind
          /\ req'[j].ops = req[j].ops
          /\ req'[j].pc = "free" <=> req[j].pc = "free"
          /\ Open(j)' <=> Open(j)
          /\ Active(j)' => Active(j)
          /\ j # i => req'[j] = req[j]
  BY TaskFacts
<1>3. \A m \in Slice :
          /\ nsi'[m].life = nsi[m].life /\ nsi'[m].vld = nsi[m].vld
          /\ nsi'[m].list \subseteq nsi[m].list
          /\ \A r \in nsi'[m].list : nsi'[m].uses[r] = nsi[m].uses[r]
          /\ nsi[m].list \subseteq Nsr
  BY TaskFacts
<1>4. \A m \in Slice \ {n} : nsi'[m] = nsi[m]
  BY DEF TaskStep, OnlySlice
<1>5. \A j \in Request : req[j].pc # "free" => req[j].slice \in Slice
  BY DEF Typed, SliceKnown
<1>6. \A j \in Request :
          /\ Instantiates(j)' <=> Instantiates(j)
          /\ Terminates(j)' <=> Terminates(j)
  BY <1>2 DEF Instantiates, Terminates
<1>7. ~Instantiates(i)
  BY DEF Instantiates, Terminates
<1>8. Launching(i, O)
  BY LaunchFacts
<1> HIDE DEF O
\* What begins to run is a termination of request i.
<1>9. ASSUME NEW q, NEW r \in Nsr, Unshaken(q, r), NEW t \in Request, q < t,
             Terminates(t)', nslcmop'[<<t, r>>].run # "no"
      PROVE  /\ t = i /\ <<i, r>> \in O /\ nslcmop[<<i, r>>].state # "none"
             /\ nslcmop'[<<i, r>>].run = "wait"
             /\ r \in Slice => r = n
  <2>1. Terminates(t) /\ nslcmop[<<t, r>>].run = "no"
    BY <1>6, <1>9 DEF Unshaken
  <2> QED  BY <1>8, <1>9, <2>1 DEF Launching
<1>10. ASSUME NEW m \in Slice, There(m)', nsi'[m].shown = "running",
              NEW r \in nsi'[m].list
       PROVE  Kept(r)'
  <2>1. /\ m # n /\ nsi'[m] = nsi[m] /\ There(m) /\ r \in nsi[m].list
        /\ r \in Nsr /\ nsi[m].shown = "running"
    BY <1>3, <1>4, <1>10 DEF There
  <2>2. PICK q \in Request :
            /\ Instantiates(q) /\ nslcmop[<<q, r>>].state = "COMPLETED"
            /\ Unshaken(q, r)
    BY <2>1 DEF Sound, Keeping, Kept
  <2>3. nslcmop'[<<q, r>>].state = "COMPLETED"
    BY <1>8, <2>1, <2>2 DEF Launching
  <2>4. ASSUME NEW t \in Request, q < t, Terminates(t)'
        PROVE  nslcmop'[<<t, r>>].run = "no"
    <3> SUFFICES ASSUME nslcmop'[<<t, r>>].run # "no"
                 PROVE  FALSE
      OBVIOUS
    <3>1. <<i, r>> \in Terminable(i) /\ nslcmop[<<i, r>>].state # "none"
      BY <1>9, <2>1, <2>2, <2>4 DEF O
    <3> QED  BY <2>1, <3>1, NobodyNeeds
  <2> QED  BY <1>6, <2>2, <2>3, <2>4 DEF Kept, Unshaken
<1>11. ASSUME NEW j \in Request, Instantiates(j)',
              req'[j].pc \in {"own", "sent", "poll", "write"},
              NEW r \in nsi'[req'[j].slice].list, req'[j].ops[r] # NoRequest
       PROVE  Unshaken(req[j].ops[r], r)'
  <2> DEFINE q == req[j].ops[r]
  <2>1. j # i /\ req'[j] = req[j] /\ Instantiates(j) /\ req[j].slice \in Slice
    BY <1>2, <1>5, <1>6, <1>7, <1>11
  <2>2. r \in nsi[req[j].slice].list /\ r \in Nsr
    BY <1>3, <1>11, <2>1
  <2>3. q \in Request
    BY <1>11, <2>1, <2>2 DEF Typed, TypeOK, ReqRec, OpFun
  <2>4. Unshaken(q, r)
    BY <1>11, <2>1, <2>2 DEF Sound, Keeping
  <2>5. /\ r \in SharedNs \cup {req[j].slice}
        /\ r \in Slice => q = j
    BY <1>11, <2>1, <2>2 DEF Sound, OpsKnown
  <2>6. ASSUME NEW t \in Request, q < t, Terminates(t)'
        PROVE  nslcmop'[<<t, r>>].run = "no"
    <3> SUFFICES ASSUME nslcmop'[<<t, r>>].run # "no"
                 PROVE  FALSE
      OBVIOUS
    <3>1. /\ t = i /\ <<i, r>> \in Terminable(i)
          /\ nslcmop[<<i, r>>].state # "none"
          /\ r \in Slice => r = n
      BY <1>9, <2>2, <2>4, <2>6 DEF O
    <3>2. CASE r \in Slice
      <4>1. j < i /\ req[j].slice = n
        BY <2>5, <2>6, <3>1, <3>2, SliceAssumption
      <4>2. req[j].pc = "over"
        BY <4>1 DEF Begun
      <4> QED  BY <1>11, <2>1, <4>2
    <3>3. CASE r \in SharedNs /\ req[j].pc \in {"own", "sent"}
      <4>1. Holds(q, r)
        BY <2>1, <2>2, <3>3 DEF Holds
      <4>2. Untouched(<<i, r>>)
        BY <2>3, <2>6, <3>1, <3>3, <4>1 DEF Sound, Reliance
      <4> QED  BY <3>1, <4>2 DEF Untouched
    <3>4. CASE r \in SharedNs /\ Working(j)
      <4>1. req[j].slice # n
        <5> SUFFICES ASSUME req[j].slice = n
                     PROVE  FALSE
          OBVIOUS
        <5>1. CASE j < i
          BY <3>4, <5>1 DEF Begun, Working
        <5>2. CASE i < j
          BY <3>4, <5>2 DEF Sound, TasksInTurn
        <5> QED  BY <2>1, <5>1, <5>2 DEF Request
      <4>2. There(req[j].slice) /\ nsi[req[j].slice].shown = "init"
        BY <2>1, <3>4 DEF Sound, Alive, VldKnown, Working, Active
      <4> QED  BY <2>1, <2>2, <3>1, <4>1, <4>2, NobodyNeeds
    <3> QED  BY <1>11, <2>1, <2>2, <3>2, <3>3, <3>4 DEF Working, Nsr
  <2>7. Unshaken(req[j].ops[r], r)' <=>
            \A t \in Request :
                req[j].ops[r] < t /\ Terminates(t)'
                    => nslcmop'[<<t, r>>].run = "no"
    BY <2>1 DEF Unshaken
  <2> QED  BY <2>6, <2>7
<1>12. ASSUME NEW j \in Request, Instantiates(j)', req'[j].pc = "write",
              req'[j].read.all = "COMPLETED", NEW r \in req'[j].read.list
       PROVE  /\ req'[j].ops[r] # NoRequest
              /\ nslcmop'[<<req'[j].ops[r], r>>].state = "COMPLETED"
  <2>1. req'[j] = req[j] /\ Instantiates(j) /\ req[j].slice \in Slice
    BY <1>2, <1>5, <1>6, <1>7, <1>12
  <2>2. /\ req[j].ops[r] # NoRequest
        /\ nslcmop[<<req[j].ops[r], r>>].state = "COMPLETED"
    BY <1>12, <2>1 DEF Sound, Keeping
  <2>3. r \in Nsr
    BY <1>3, <1>12, <2>1 DEF Sound, Lists
  <2>4. req[j].ops[r] \in Request
    BY <2>2, <2>3 DEF Typed, TypeOK, ReqRec, OpFun
  <2> QED  BY <1>8, <2>1, <2>2, <2>3, <2>4 DEF Launching
<1> QED  BY <1>10, <1>11, <1>12 DEF Keeping

LEMMA StartKeeps ==
    ASSUME Typed, Sound, Undisturbed', NEW i \in Request, Start(i)
    PROVE  Sound'
<1> DEFINE n == req[i].slice
<1>1. /\ Undisturbed /\ req[i].pc = "sent" /\ Turn(i)
      /\ UNCHANGED <<nsr, handler, notices, marks, faults>>
      /\ \/ /\ Failed(i) /\ UNCHANGED nslcmop
            /\ nsi[n].instantiated => nsi'[n].instantiated
            /\ Terminates(i) => nsi'[n].instantiated = nsi[n].instantiated
         \/ /\ req'[i].pc = "over" /\ SameTask(i) /\ OnlyReq(i)
            /\ UNCHANGED <<nsi, nslcmop>>
         \/ /\ Instantiates(i) /\ Writes(i) /\ Launched(OpsOf(i))
            /\ SameSlice(n) /\ OnlySlice(n)
            /\ nsi'[n].instantiated /\ nsi'[n].shown = "init"
         \/ /\ Terminates(i) /\ Writes(i) /\ Launched(Terminable(i))
            /\ \A o \in OpsOf(i) : nslcmop[o].state # "none"
            /\ SameSlice(n) /\ OnlySlice(n)
            /\ nsi'[n].instantiated = nsi[n].instantiated
            /\ nsi'[n].shown = "terminating"
  BY StartDoes DEF Sound
<1>2. Begun(i)
  BY <1>1, TurnBegins
<1>3. n \in Slice
  BY <1>1 DEF Typed, SliceKnown
<1>4. Instantiates(i) \/ Terminates(i)
  BY DEF Typed, TypeOK, ReqRec, Instantiates, Terminates
<1>5. ~(Instantiates(i) /\ Terminates(i))
  BY DEF Instantiates, Terminates
<1>6. CASE /\ Failed(i) /\ UNCHANGED nslcmop
           /\ nsi[n].instantiated => nsi'[n].instantiated
           /\ Terminates(i) => nsi'[n].instantiated = nsi[n].instantiated
  <2>1. nsi'[n].instantiated =>
            nsi[n].instantiated \/ (Instantiates(i) /\ req[i].pc = "sent")
    BY <1>1, <1>4, <1>6
  <2> QED  BY <1>1, <1>2, <1>6, <2>1, FailedKeeps
<1>7. CASE /\ req'[i].pc = "over" /\ SameTask(i) /\ OnlyReq(i)
           /\ UNCHANGED <<nsi, nslcmop>>
  BY <1>1, <1>7, EndKeeps
<1>8. CASE /\ Instantiates(i) /\ Writes(i) /\ Launched(OpsOf(i))
           /\ SameSlice(n) /\ OnlySlice(n)
           /\ nsi'[n].instantiated /\ nsi'[n].shown = "init"
  <2>1. TaskStep(i)
    BY <1>1, <1>2, <1>3, <1>8
    DEF TaskStep, Writes, Reads, SameSlice, Working
  <2>2. MayLaunch(i, OpsOf(i))
    BY <1>1, <1>5, <1>8 DEF MayLaunch, Writes
  <2>3. AllCompleted(i)'
    BY <1>3, <1>8, ReadsAll
  <2>4. nsi'[n].shown # "running"
    BY <1>8
  <2> QED  BY <1>8, <2>1, <2>2, <2>3, <2>4, TaskKeeps
<1>9. CASE /\ Terminates(i) /\ Writes(i) /\ Launched(Terminable(i))
           /\ \A o \in OpsOf(i) : nslcmop[o].state # "none"
           /\ SameSlice(n) /\ OnlySlice(n)
           /\ nsi'[n].instantiated = nsi[n].instantiated
           /\ nsi'[n].shown = "terminating"
  <2>1. TaskStep(i)
    BY <1>1, <1>2, <1>3, <1>5, <1>9
    DEF TaskStep, Writes, Reads, SameSlice, Working
  <2>2. Terminable(i) \subseteq OpsOf(i)
    BY DEF Terminable
  <2>3. MayLaunch(i, Terminable(i))
    BY <1>1, <1>9, <2>2 DEF MayLaunch, Writes
  <2>4. InTurn' /\ Alive' /\ TasksInTurn' /\ Lists' /\ OpsInTurn'
    BY <1>9, <2>1, <2>3, TaskKeepsRequests
  <2>5. OpsKnown' /\ NssInTurn'
    BY <1>9, <2>1, <2>3, TaskKeepsOps
  <2>6. Reliance' /\ KindsInTurn' /\ VldKnown'
    BY <1>9, <2>1, <2>3, TaskKeepsSlices
  <2>7. Keeping'
    BY <1>1, <1>2, <1>9, <2>1, <2>3, TerminationKeepsKeeping
  <2> QED  BY <2>4, <2>5, <2>6, <2>7 DEF Sound
<1> QED  BY <1>1, <1>6, <1>7, <1>8, <1>9

-----------------------------------------------------------------------------
(* Every step of an NS task keeps the invariant                             *)

\* An NS task goes on with the operation of request k on NS x.
NsTaskStep(k, x) ==
    /\ nslcmop[<<k, x>>].run \in {"wait", "work"}
    /\ \A p \in Request \X Nsr \ {<<k, x>>} : nslcmop'[p] = nslcmop[p]
    /\ \/ /\ nslcmop'[<<k, x>>].run = "over"
          /\ nslcmop'[<<k, x>>].state \in {"none", "COMPLETED", "FAILED"}
          /\ nslcmop'[<<k, x>>].state = "none" <=> nslcmop[<<k, x>>].state = "none"
       \/ /\ nslcmop'[<<k, x>>].run = "work" /\ Processing(<<k, x>>)
          /\ nslcmop'[<<k, x>>].state = "PROCESSING"
    /\ \A r \in Nsr : /\ Exist(r) => Exist(r)'
                      /\ nsr[r] = "gone" => nsr'[r] = "gone"
    /\ UNCHANGED <<nsi, req, handler, marks>>

LEMMA NsTaskKeeps ==
    ASSUME Typed, Sound, NEW k \in Request, NEW x \in Nsr, NsTaskStep(k, x)
    PROVE  /\ InTurn' /\ Alive' /\ TasksInTurn' /\ Lists' /\ OpsKnown'
           /\ Reliance' /\ KindsInTurn' /\ VldKnown' /\ Keeping' /\ OpsInTurn'
<1>1. UNCHANGED <<nsi, req, handler, marks>>
  BY DEF NsTaskStep
<1>2. \A r \in Nsr : /\ Exist(r) => Exist(r)'
                     /\ nsr[r] = "gone" => nsr'[r] = "gone"
  BY DEF NsTaskStep
<1>3. \A j \in Request, r \in Nsr :
          \/ nslcmop'[<<j, r>>] = nslcmop[<<j, r>>]
          \/ j = k /\ r = x
  BY DEF NsTaskStep
<1>4. /\ nslcmop[<<k, x>>].run \in {"wait", "work"}
      /\ \/ /\ nslcmop'[<<k, x>>].run = "over"
            /\ nslcmop'[<<k, x>>].state \in {"none", "COMPLETED", "FAILED"}
            /\ nslcmop'[<<k, x>>].state = "none" <=> nslcmop[<<k, x>>].state = "none"
         \/ /\ nslcmop'[<<k, x>>].run = "work" /\ Processing(<<k, x>>)
            /\ nslcmop'[<<k, x>>].state = "PROCESSING"
  BY DEF NsTaskStep
<1>5. \A j \in Request, r \in Nsr :
          /\ nslcmop'[<<j, r>>].run = "no" <=> nslcmop[<<j, r>>].run = "no"
          /\ Untouched(<<j, r>>) => Untouched(<<j, r>>)'
  BY <1>3, <1>4 DEF Untouched
<1>6. \A j \in Request, r \in Nsr :
          nslcmop[<<j, r>>].state = "COMPLETED"
              => nslcmop'[<<j, r>>].state = "COMPLETED"
  <2> SUFFICES ASSUME NEW j \in Request, NEW r \in Nsr,
                      nslcmop[<<j, r>>].state = "COMPLETED"
               PROVE  nslcmop'[<<j, r>>].state = "COMPLETED"
    OBVIOUS
  <2>1. nslcmop[<<j, r>>].run = "over"
    BY DEF Sound, OpsKnown
  <2> QED  BY <1>3, <1>4, <2>1
<1>7. \A m \in Slice : nsi[m].list \subseteq Nsr /\ handler[m].list \subseteq Nsr
  BY DEF Typed, TypeOK, SliceRec, HandlerRec
<1>8. InTurn' /\ Alive' /\ OpsInTurn'
  BY <1>1 DEF Sound, InTurn, Alive, Open, Active, There, OpsInTurn
<1>9. TasksInTurn'
  BY <1>1, <1>5 DEF Sound, TasksInTurn, Working, Terminates
<1>10. Lists'
  BY <1>1, <1>2, <1>7 DEF Sound, Lists, Listable, Shared, There, Open
<1>11. KindsInTurn'
  BY <1>1 DEF Sound, KindsInTurn, Instantiates, Active
<1>12. VldKnown'
  BY <1>1 DEF Sound, VldKnown, There, Instantiates, Terminates, Open, Active,
              Working, Shared
<1>13. OpsKnown'
  <2>1. ASSUME NEW j \in Request, NEW r \in Nsr
        PROVE  /\ req'[j].pc = "free" => Untouched(<<j, r>>)'
               /\ Open(j)' => /\ nslcmop'[<<j, r>>].run = "no"
                              /\ nslcmop'[<<j, r>>].state
                                     \in {"none", "PROCESSING"}
               /\ Terminates(j)' /\ req'[j].pc \in {"look", "act", "own", "sent"}
                      => nslcmop'[<<j, r>>].run = "no"
               /\ ~Untouched(<<j, r>>)' /\ r \in Slice => r = req'[j].slice
               /\ nslcmop'[<<j, r>>].state \in {"COMPLETED", "FAILED"}
                      <=> /\ nslcmop'[<<j, r>>].run = "over"
                          /\ nslcmop'[<<j, r>>].state # "none"
               /\ Processing(<<j, r>>)' => Exist(r)'
               /\ nslcmop'[<<j, r>>].run = "work"
                      => Processing(<<j, r>>)' \/ nsr'[r] = "gone"
    <3>1. /\ req[j].pc = "free" => Untouched(<<j, r>>)
          /\ Open(j) => /\ nslcmop[<<j, r>>].run = "no"
                        /\ nslcmop[<<j, r>>].state \in {"none", "PROCESSING"}
          /\ Terminates(j) /\ req[j].pc \in {"look", "act", "own", "sent"}
                 => nslcmop[<<j, r>>].run = "no"
          /\ ~Untouched(<<j, r>>) /\ r \in Slice => r = req[j].slice
          /\ nslcmop[<<j, r>>].state \in {"COMPLETED", "FAILED"}
                 <=> /\ nslcmop[<<j, r>>].run = "over"
                     /\ nslcmop[<<j, r>>].state # "none"
          /\ Processing(<<j, r>>) => Exist(r)
          /\ nslcmop[<<j, r>>].run = "work"
                 => Processing(<<j, r>>) \/ nsr[r] = "gone"
      BY DEF Sound, OpsKnown
    <3>2. /\ req'[j] = req[j] /\ (Open(j)' <=> Open(j))
          /\ Terminates(j)' <=> Terminates(j)
      BY <1>1 DEF Open, Terminates
    <3>3. CASE nslcmop'[<<j, r>>] = nslcmop[<<j, r>>]
      BY <1>2, <3>1, <3>2, <3>3 DEF Untouched, Processing
    <3>4. CASE j = k /\ r = x
      BY <1>2, <1>4, <3>1, <3>2, <3>4 DEF Untouched, Processing
    <3> QED  BY <1>3, <3>3, <3>4
  <2> QED  BY <1>1, <2>1 DEF Sound, OpsKnown, Asked, Instantiates, Terminates
<1>14. Reliance'
  <2>1. SharedNs \subseteq Nsr
    BY DEF Nsr
  <2> QED
    BY <1>1, <1>5, <2>1 DEF Sound, Reliance, Holds, There, Instantiates,
                            Terminates, OthersListing
<1>15. ASSUME NEW q, NEW r \in Nsr, Unshaken(q, r)
       PROVE  \A t \in Request :
                 q < t /\ Terminates(t)' => nslcmop'[<<t, r>>].run = "no"
  BY <1>1, <1>5, <1>15 DEF Unshaken, Terminates
<1>16. Keeping'
  <2>1. ASSUME NEW m \in Slice, There(m), nsi[m].shown = "running",
               NEW r \in nsi[m].list
        PROVE  Kept(r)'
    <3>1. PICK q \in Request :
              /\ Instantiates(q) /\ nslcmop[<<q, r>>].state = "COMPLETED"
              /\ Unshaken(q, r)
      BY <2>1 DEF Sound, Keeping, Kept
    <3>2. r \in Nsr
      BY <1>7, <2>1
    <3>3. \A t \in Request :
              q < t /\ Terminates(t)' => nslcmop'[<<t, r>>].run = "no"
      BY <1>15, <3>1, <3>2
    <3> QED  BY <1>1, <1>6, <3>1, <3>2, <3>3 DEF Kept, Unshaken, Instantiates
  <2>2. ASSUME NEW j \in Request, Instantiates(j),
               req[j].pc \in {"own", "sent", "poll", "write"},
               NEW r \in nsi[req[j].slice].list, req[j].ops[r] # NoRequest
        PROVE  Unshaken(req[j].ops[r], r)'
    <3>1. r \in Nsr
      BY <1>7, <2>2 DEF Typed, SliceKnown
    <3>2. Unshaken(req[j].ops[r], r)
      BY <2>2 DEF Sound, Keeping
    <3> DEFINE q == req[j].ops[r]
    <3>3. \A t \in Request :
              q < t /\ Terminates(t)' => nslcmop'[<<t, r>>].run = "no"
      BY <1>15, <3>1, <3>2
    <3> QED  BY <1>1, <3>3 DEF Unshaken
  <2>3. ASSUME NEW j \in Request, Instantiates(j), req[j].pc = "write",
               req[j].read.all = "COMPLETED", NEW r \in req[j].read.list
        PROVE  /\ req[j].ops[r] # NoRequest
               /\ nslcmop'[<<req[j].ops[r], r>>].state = "COMPLETED"
    <3>1. /\ req[j].ops[r] # NoRequest
          /\ nslcmop[<<req[j].ops[r], r>>].state = "COMPLETED"
      BY <2>3 DEF Sound, Keeping
    <3>2. r \in Nsr
      BY <1>7, <2>3 DEF Sound, Lists, Typed, SliceKnown
    <3>3. req[j].ops[r] \in Request
      BY <3>1, <3>2 DEF Typed, TypeOK, ReqRec, OpFun
    <3> QED  BY <1>6, <3>1, <3>2, <3>3
  <2> QED
    BY <1>1, <2>1, <2>2, <2>3 DEF Keeping, There, Instantiates
<1> QED
  BY <1>8, <1>9, <1>10, <1>11, <1>12, <1>13, <1>14, <1>16

\* An instantiation begins to work after the operations before it; and what is
\* instantiated stays so.
BeginsInTurn(k, x) ==
    \A q \in Request, r \in Nsr :
        Runs(q, r)' =>
            \/ Runs(q, r)
            \/ /\ q = k /\ r = x /\ nsr'[r] = "instantiated"
               /\ \A t \in Request : t < q => ~Pending(t, r)
StaysUp ==
    \A q \in Request, r \in Nsr :
          /\ Runs(q, r) /\ Unshaken(q, r)
          /\ nsr[r] \in {"instantiated", "gone"}
        => nsr'[r] \in {"instantiated", "gone"}

\* What is known of the operations on an NS stays known.
LEMMA NssStay ==
    ASSUME Typed, Sound, NEW k \in Request, NEW x \in Nsr, NsTaskStep(k, x),
           BeginsInTurn(k, x), StaysUp
    PROVE  NssInTurn'
<1>1. UNCHANGED req
  BY DEF NsTaskStep
<1>2. \A j \in Request, r \in Nsr :
          /\ nslcmop'[<<j, r>>].run = "no" <=> nslcmop[<<j, r>>].run = "no"
          /\ nslcmop'[<<j, r>>].state = "PROCESSING"
                 => nslcmop[<<j, r>>].state = "PROCESSING"
  BY DEF NsTaskStep, Processing
<1>3. \A t \in Request, r \in Nsr : Pending(t, r)' => Pending(t, r)
  BY <1>1, <1>2 DEF Pending, Processing, NsStuck
<1>4. \A q \in Request, r \in Nsr : Unshaken(q, r)' => Unshaken(q, r)
  BY <1>1, <1>2 DEF Unshaken, Terminates
<1>5. \A t \in Request : Terminates(t)' <=> Terminates(t)
  BY <1>1 DEF Terminates
<1> SUFFICES ASSUME NEW q \in Request, NEW r \in Nsr, Runs(q, r)'
             PROVE  /\ \A t \in Request : t < q /\ Terminates(t)' => ~Pending(t, r)'
                    /\ Unshaken(q, r)' => nsr'[r] \in {"instantiated", "gone"}
  BY DEF NssInTurn
<1>6. CASE Runs(q, r)
  BY <1>3, <1>4, <1>5, <1>6 DEF Sound, NssInTurn, StaysUp
<1>7. CASE /\ q = k /\ r = x /\ nsr'[r] = "instantiated"
           /\ \A t \in Request : t < q => ~Pending(t, r)
  BY <1>3, <1>7
<1> QED  BY <1>6, <1>7 DEF BeginsInTurn

\* The end of the task of an NS operation.
LEMMA OpEndsSteps ==
    ASSUME Typed, Sound, NEW k \in Request, NEW x \in Nsr,
           nslcmop[<<k, x>>].run \in {"wait", "work"},
           NEW state \in {"COMPLETED", "FAILED"}, OpEnds(<<k, x>>, state),
           \A r \in Nsr : /\ Exist(r) => Exist(r)'
                          /\ nsr[r] = "gone" => nsr'[r] = "gone",
           UNCHANGED <<nsi, req, handler, marks>>
    PROVE  NsTaskStep(k, x)
BY DEF NsTaskStep, OpEnds, OnlyOp

LEMMA NsStartKeeps ==
    ASSUME Typed, Sound, Undisturbed', NEW k \in Request, NEW x \in Nsr,
           NsStart(<<k, x>>)
    PROVE  Sound'
<1> DEFINE o == <<k, x>>
<1>1. /\ nslcmop[o].run = "wait" /\ NsTurn(o)
      /\ \/ /\ OpEnds(o, "COMPLETED") /\ UNCHANGED nsr
            /\ ~Processing(o) \/ Terminates(k)
         \/ /\ Processing(o) /\ OnlyOp(o)
            /\ nslcmop'[o].run = "work"
            /\ nslcmop'[o].state = nslcmop[o].state
            /\ \A r \in Nsr :
                   nsr'[r] = IF r = x THEN "instantiated" ELSE nsr[r]
      /\ UNCHANGED <<nsi, req, handler, notices, marks, faults>>
  <2>1. o \in Request \X Nsr /\ o[1] = k /\ o[2] = x
    OBVIOUS
  <2> HIDE DEF o
  <2> QED  BY <2>1, NsStartDoes DEF o
<1>2. CASE /\ OpEnds(o, "COMPLETED") /\ UNCHANGED nsr
           /\ ~Processing(o) \/ Terminates(k)
  <2>1. NsTaskStep(k, x)
    BY <1>1, <1>2, OpEndsSteps DEF Exist
  <2>2. \A q \in Request, r \in Nsr : Runs(q, r)' => Runs(q, r)
    <3> SUFFICES ASSUME NEW q \in Request, NEW r \in Nsr, Runs(q, r)'
                 PROVE  Runs(q, r)
      OBVIOUS
    <3>1. CASE q = k /\ r = x
      <4>1. /\ nslcmop'[o].run = "over"
            /\ nslcmop'[o].state = IF nslcmop[o].state = "none" THEN "none"
                                                                ELSE "COMPLETED"
        BY <1>2 DEF OpEnds
      <4>2. nslcmop[o].state \notin {"COMPLETED", "FAILED"}
        BY <1>1 DEF Sound, OpsKnown
      <4>3. nslcmop[o].state \in {"none", "PROCESSING", "COMPLETED", "FAILED"}
        BY DEF Typed, TypeOK, NsOpRec
      <4>4. ~Terminates(k)
        BY <1>1, <3>1 DEF Runs, Instantiates, Terminates
      <4>5. nslcmop[o].state = "none"
        BY <1>2, <4>2, <4>3, <4>4 DEF Processing
      <4> QED  BY <3>1, <4>1, <4>5 DEF Runs
    <3>2. CASE ~(q = k /\ r = x)
      <4>1. nslcmop'[<<q, r>>] = nslcmop[<<q, r>>]
        BY <1>2, <3>2 DEF OpEnds, OnlyOp
      <4> QED  BY <1>1, <4>1 DEF Runs, Instantiates
    <3> QED  BY <3>1, <3>2
  <2>3. BeginsInTurn(k, x) /\ StaysUp
    BY <1>2, <2>2 DEF BeginsInTurn, StaysUp
  <2>4. NssInTurn'
    BY <2>1, <2>3, NssStay
  <2> QED  BY <2>1, <2>4, NsTaskKeeps DEF Sound
<1>3. CASE /\ Processing(o) /\ OnlyOp(o)
           /\ nslcmop'[o].run = "work"
           /\ nslcmop'[o].state = nslcmop[o].state
           /\ \A r \in Nsr :
                  nsr'[r] = IF r = x THEN "instantiated" ELSE nsr[r]
  <2>1. Exist(x)
    BY <1>3 DEF Sound, OpsKnown
  <2>2. NsTaskStep(k, x)
    BY <1>1, <1>3, <2>1 DEF NsTaskStep, OnlyOp, Exist, Processing
  <2>3. ASSUME NEW t \in Request, t < k
        PROVE  ~Pending(t, x)
    <3> DEFINE p == <<t, x>>
    <3>1. CASE Processing(p)
      <4>1. p \in EarlierNsOps(o)
        BY <2>3, <3>1 DEF EarlierNsOps
      <4>2. NsStuck(p)
        BY <1>1, <4>1 DEF NsTurn
      <4> QED  BY <4>2 DEF Pending
    <3>2. CASE ~Processing(p)
      BY <3>2 DEF Pending
    <3> QED  BY <3>1, <3>2
  <2>4. ASSUME NEW q \in Request, NEW r \in Nsr, Runs(q, r)'
        PROVE  \/ Runs(q, r)
               \/ /\ q = k /\ r = x /\ nsr'[r] = "instantiated"
                  /\ \A t \in Request : t < q => ~Pending(t, r)
    <3>1. CASE q = k /\ r = x
      BY <1>3, <2>3, <3>1
    <3>2. CASE ~(q = k /\ r = x)
      <4>1. nslcmop'[<<q, r>>] = nslcmop[<<q, r>>]
        BY <1>3, <3>2 DEF OnlyOp
      <4> QED  BY <1>1, <2>4, <4>1 DEF Runs, Instantiates
    <3> QED  BY <3>1, <3>2
  <2>5. \A r \in Nsr : nsr[r] \in {"instantiated", "gone"}
                           => nsr'[r] \in {"instantiated", "gone"}
    BY <1>3
  <2>6. BeginsInTurn(k, x) /\ StaysUp
    BY <2>4, <2>5 DEF BeginsInTurn, StaysUp
  <2>7. NssInTurn'
    BY <2>2, <2>6, NssStay
  <2> QED  BY <2>2, <2>7, NsTaskKeeps DEF Sound
<1> QED  BY <1>1, <1>2, <1>3

LEMMA NsDoneKeeps ==
    ASSUME Typed, Sound, Undisturbed', NEW k \in Request, NEW x \in Nsr,
           NsDone(<<k, x>>)
    PROVE  Sound'
<1> DEFINE o == <<k, x>>
<1>1. /\ nslcmop[o].run = "work" /\ OpEnds(o, "COMPLETED")
      /\ \A r \in Nsr :
             nsr'[r] = IF r = x /\ Terminates(k) /\ nsr[r] = "instantiated"
                         THEN "idle" ELSE nsr[r]
      /\ UNCHANGED <<nsi, req, handler, notices, marks, faults>>
  <2>1. o \in Request \X Nsr /\ o[1] = k /\ o[2] = x
    OBVIOUS
  <2> HIDE DEF o
  <2> QED  BY <2>1, NsDoneDoes DEF o
<1>2. NsTaskStep(k, x)
  BY <1>1, OpEndsSteps DEF Exist
<1>3. ASSUME NEW q \in Request, NEW r \in Nsr, Runs(q, r)'
      PROVE  Runs(q, r)
  <2>1. CASE q = k /\ r = x
    BY <1>1, <1>3, <2>1 DEF Runs, Instantiates
  <2>2. CASE ~(q = k /\ r = x)
    <3>1. nslcmop'[<<q, r>>] = nslcmop[<<q, r>>]
      BY <1>1, <2>2 DEF OpEnds, OnlyOp
    <3> QED  BY <1>1, <1>3, <3>1 DEF Runs, Instantiates
  <2> QED  BY <2>1, <2>2
\* A termination at work ends only what no later instantiation has begun.
<1>4. ASSUME NEW q \in Request, NEW r \in Nsr, Runs(q, r), Unshaken(q, r),
             nsr[r] \in {"instantiated", "gone"}
      PROVE  nsr'[r] \in {"instantiated", "gone"}
  <2> SUFFICES ASSUME r = x, Terminates(k), nsr[x] = "instantiated"
               PROVE  FALSE
    BY <1>1, <1>4
  <2>1. Processing(o)
    BY <1>1 DEF Sound, OpsKnown
  <2>2. Pending(k, x)
    BY <1>1, <2>1 DEF Pending, NsStuck
  <2>3. ~(k < q)
    BY <1>4, <2>2 DEF Sound, NssInTurn
  <2>4. ~(q < k)
    BY <1>1, <1>4 DEF Unshaken
  <2>5. q # k
    BY <1>4 DEF Runs, Instantiates, Terminates
  <2> QED  BY <2>3, <2>4, <2>5 DEF Request
<1>5. BeginsInTurn(k, x) /\ StaysUp
  BY <1>3, <1>4 DEF BeginsInTurn, StaysUp
<1>6. NssInTurn'
  BY <1>2, <1>5, NssStay
<1> QED  BY <1>2, <1>6, NsTaskKeeps DEF Sound

LEMMA NsFailsKeeps ==
    ASSUME Typed, Sound, Undisturbed', NEW k \in Request, NEW x \in Nsr,
           NsFails(<<k, x>>) \/ NsGivesUp(<<k, x>>)
    PROVE  Sound'
<1> DEFINE o == <<k, x>>
<1>1. /\ nslcmop[o].run \in {"wait", "work"} /\ OpEnds(o, "FAILED")
      /\ UNCHANGED <<nsi, nsr, req, handler, notices, marks>>
  <2>1. o \in Request \X Nsr
    OBVIOUS
  <2> HIDE DEF o
  <2> QED  BY <2>1, NsFailsDoes DEF o
<1>2. NsTaskStep(k, x)
  BY <1>1, OpEndsSteps DEF Exist
<1>3. ASSUME NEW q \in Request, NEW r \in Nsr, Runs(q, r)'
      PROVE  Runs(q, r)
  <2>1. CASE q = k /\ r = x
    BY <1>1, <1>3, <2>1 DEF OpEnds, Runs
  <2>2. CASE ~(q = k /\ r = x)
    <3>1. nslcmop'[<<q, r>>] = nslcmop[<<q, r>>]
      BY <1>1, <2>2 DEF OpEnds, OnlyOp
    <3> QED  BY <1>1, <1>3, <3>1 DEF Runs, Instantiates
  <2> QED  BY <2>1, <2>2
<1>4. BeginsInTurn(k, x) /\ StaysUp
  BY <1>1, <1>3 DEF BeginsInTurn, StaysUp
<1>5. NssInTurn'
  BY <1>2, <1>4, NssStay
<1> QED  BY <1>2, <1>5, NsTaskKeeps DEF Sound

-----------------------------------------------------------------------------
(* The steps of a request at NBI that is not refused                        *)

\* Request i goes on, and creates operations on the NSs R.
RequestStep(i, R) ==
    LET n == req[i].slice
    IN /\ Open(i) /\ req'[i].pc \in {"act", "own", "sent"}
       /\ req'[i].slice = n /\ req'[i].kind = req[i].kind
       /\ OnlyReq(i) /\ OnlySlice(n)
       /\ Open(i)' => req'[i].read = req[i].read
       /\ req'[i].pc = "sent" => req'[i].state = "PROCESSING"
       /\ R \subseteq SharedNs \cup {n} /\ Created(i, R)
       /\ \A r \in Nsr :
              \/ req'[i].ops[r] = req[i].ops[r]
              \/ req'[i].ops[r] = i /\ r \in SharedNs \cup {n}
              \/ /\ Instantiates(i) /\ r \in SharedNs /\ req[i].pc = "act"
                 /\ req'[i].ops[r] = req[i].found
       /\ req'[i].pc = "act" /\ req'[i].found # NoRequest
              => req'[i].found \in Request /\ Asked(req'[i].found)
       /\ nsi'[n].life = nsi[n].life /\ nsi'[n].list = nsi[n].list
       /\ nsi'[n].shown = nsi[n].shown
       /\ nsi'[n].instantiated = nsi[n].instantiated
       /\ nsi[n].vld \subseteq nsi'[n].vld
       /\ \A r \in Nsr :
              \/ nsi'[n].uses[r] \in {nsi[n].uses[r], NoRequest}
              \/ Instantiates(i) /\ nsi'[n].uses[r] = req'[i].ops[r]
       /\ UNCHANGED <<nsr, handler, marks>>

\* What it leaves as it was.
RequestFact(i, R) ==
    /\ req[i].slice \in Slice /\ There(req[i].slice)
    /\ \A j \in Request :
           /\ req'[j].slice = req[j].slice /\ req'[j].kind = req[j].kind
           /\ req'[j].pc = "free" <=> req[j].pc = "free"
           /\ Instantiates(j)' <=> Instantiates(j)
           /\ Terminates(j)' <=> Terminates(j)
           /\ Asked(j)' <=> Asked(j)
           /\ j # i => req'[j] = req[j] /\ ~Open(j)
           /\ i < j => req[j].pc = "free"
           /\ req[j].pc # "free" => req[j].slice \in Slice
    /\ \A t \in Request, r \in Nsr :
           /\ nslcmop'[<<t, r>>].run = nslcmop[<<t, r>>].run
           /\ nslcmop'[<<t, r>>].state = "COMPLETED"
                  <=> nslcmop[<<t, r>>].state = "COMPLETED"
           /\ \/ nslcmop'[<<t, r>>] = nslcmop[<<t, r>>]
              \/ /\ t = i /\ r \in R /\ Exist(r)
                 /\ nslcmop'[<<t, r>>].run = "no"
                 /\ nslcmop'[<<t, r>>].state = "PROCESSING"
           /\ i < t => Untouched(<<t, r>>)
    /\ \A m \in Slice :
           /\ nsi'[m].life = nsi[m].life /\ nsi'[m].list = nsi[m].list
           /\ nsi'[m].shown = nsi[m].shown
           /\ nsi'[m].instantiated = nsi[m].instantiated
           /\ nsi[m].vld \subseteq nsi'[m].vld
           /\ nsi[m].list \subseteq Nsr

LEMMA RequestFacts ==
    ASSUME Typed, Sound, NEW i \in Request, NEW R, RequestStep(i, R)
    PROVE  RequestFact(i, R)
<1> DEFINE n == req[i].slice
<1>1. /\ Open(i) /\ req'[i].pc \in {"act", "own", "sent"}
      /\ req'[i].slice = n /\ req'[i].kind = req[i].kind
      /\ OnlyReq(i) /\ OnlySlice(n) /\ Created(i, R)
      /\ nsi'[n].life = nsi[n].life /\ nsi'[n].list = nsi[n].list
      /\ nsi'[n].shown = nsi[n].shown
      /\ nsi'[n].instantiated = nsi[n].instantiated
      /\ nsi[n].vld \subseteq nsi'[n].vld
  BY DEF RequestStep
<1>2. n \in Slice /\ There(n)
  BY <1>1 DEF Typed, SliceKnown, Sound, Alive, Active, Open
<1>3. ASSUME NEW j \in Request, i < j
      PROVE  req[j].pc = "free"
  BY <1>1, <1>3 DEF Sound, InTurn
<1>4. ASSUME NEW j \in Request, j # i
      PROVE  req'[j] = req[j] /\ ~Open(j)
  <2>1. req'[j] = req[j]
    BY <1>1, <1>4 DEF OnlyReq
  <2>2. CASE i < j
    BY <1>3, <2>1, <2>2 DEF Open
  <2>3. CASE j < i
    BY <1>1, <2>1, <2>3 DEF Sound, InTurn, Open
  <2> QED  BY <1>4, <2>1, <2>2, <2>3 DEF Request
<1>5. ASSUME NEW j \in Request
      PROVE  /\ req'[j].slice = req[j].slice /\ req'[j].kind = req[j].kind
             /\ req'[j].pc = "free" <=> req[j].pc = "free"
             /\ Instantiates(j)' <=> Instantiates(j)
             /\ Terminates(j)' <=> Terminates(j)
             /\ Asked(j)' <=> Asked(j)
             /\ j # i => req'[j] = req[j] /\ ~Open(j)
             /\ i < j => req[j].pc = "free"
             /\ req[j].pc # "free" => req[j].slice \in Slice
  <2>1. /\ req'[j].slice = req[j].slice /\ req'[j].kind = req[j].kind
        /\ req'[j].pc = "free" <=> req[j].pc = "free"
    BY <1>1, <1>4 DEF Open
  <2> QED
    BY <1>3, <1>4, <2>1
    DEF Instantiates, Terminates, Asked, Typed, SliceKnown
<1>6. ASSUME NEW t \in Request, NEW r \in Nsr
      PROVE  /\ nslcmop'[<<t, r>>].run = nslcmop[<<t, r>>].run
             /\ nslcmop'[<<t, r>>].state = "COMPLETED"
                    <=> nslcmop[<<t, r>>].state = "COMPLETED"
             /\ \/ nslcmop'[<<t, r>>] = nslcmop[<<t, r>>]
                \/ /\ t = i /\ r \in R /\ Exist(r)
                   /\ nslcmop'[<<t, r>>].run = "no"
                   /\ nslcmop'[<<t, r>>].state = "PROCESSING"
             /\ i < t => Untouched(<<t, r>>)
  <2>1. nslcmop'[<<t, r>>] = IF t = i /\ r \in R /\ Exist(r)
                               THEN [state |-> "PROCESSING", run |-> "no"]
                               ELSE nslcmop[<<t, r>>]
    BY <1>1 DEF Created
  <2>2. /\ nslcmop[<<i, r>>].run = "no"
        /\ nslcmop[<<i, r>>].state \in {"none", "PROCESSING"}
    BY <1>1 DEF Sound, OpsKnown
  <2>3. i < t => Untouched(<<t, r>>)
    BY <1>3 DEF Sound, OpsKnown
  <2>4. CASE t = i /\ r \in R /\ Exist(r)
    BY <2>1, <2>2, <2>3, <2>4
  <2>5. CASE ~(t = i /\ r \in R /\ Exist(r))
    BY <2>1, <2>3, <2>5
  <2> QED  BY <2>4, <2>5
<1>7. ASSUME NEW m \in Slice
      PROVE  /\ nsi'[m].life = nsi[m].life /\ nsi'[m].list = nsi[m].list
             /\ nsi'[m].shown = nsi[m].shown
             /\ nsi'[m].instantiated = nsi[m].instantiated
             /\ nsi[m].vld \subseteq nsi'[m].vld
             /\ nsi[m].list \subseteq Nsr
  <2>1. nsi[m].list \subseteq Nsr
    BY DEF Typed, TypeOK, SliceRec
  <2>2. CASE m = n
    BY <1>1, <2>1, <2>2
  <2>3. CASE m # n
    BY <1>1, <2>1, <2>3 DEF OnlySlice
  <2> QED  BY <2>2, <2>3
<1> QED  BY <1>2, <1>5, <1>6, <1>7 DEF RequestFact

LEMMA RequestKeeps ==
    ASSUME Typed, Sound, NEW i \in Request, NEW R, RequestStep(i, R)
    PROVE  /\ InTurn' /\ Alive' /\ TasksInTurn' /\ Lists' /\ OpsKnown'
           /\ NssInTurn' /\ KindsInTurn' /\ OpsInTurn'
<1> DEFINE n == req[i].slice
<1>1. /\ Open(i) /\ req'[i].pc \in {"act", "own", "sent"}
      /\ OnlyReq(i) /\ OnlySlice(n)
      /\ Open(i)' => req'[i].read = req[i].read
      /\ req'[i].pc = "sent" => req'[i].state = "PROCESSING"
      /\ R \subseteq SharedNs \cup {n}
      /\ \A r \in Nsr :
             \/ req'[i].ops[r] = req[i].ops[r]
             \/ req'[i].ops[r] = i /\ r \in SharedNs \cup {n}
             \/ /\ Instantiates(i) /\ r \in SharedNs /\ req[i].pc = "act"
                /\ req'[i].ops[r] = req[i].found
      /\ req'[i].pc = "act" /\ req'[i].found # NoRequest
             => req'[i].found \in Request /\ Asked(req'[i].found)
      /\ \A r \in Nsr :
             \/ nsi'[n].uses[r] \in {nsi[n].uses[r], NoRequest}
             \/ Instantiates(i) /\ nsi'[n].uses[r] = req'[i].ops[r]
      /\ UNCHANGED <<nsr, handler, marks>>
  BY DEF RequestStep
<1>2. RequestFact(i, R)
  BY RequestFacts
<1>3. n \in Slice /\ There(n)
  BY <1>2 DEF RequestFact
<1>4. \A j \in Request :
          /\ req'[j].slice = req[j].slice /\ req'[j].kind = req[j].kind
          /\ req'[j].pc = "free" <=> req[j].pc = "free"
          /\ Instantiates(j)' <=> Instantiates(j)
          /\ Terminates(j)' <=> Terminates(j)
          /\ Asked(j)' <=> Asked(j)
          /\ j # i => req'[j] = req[j] /\ ~Open(j)
          /\ i < j => req[j].pc = "free"
          /\ req[j].pc # "free" => req[j].slice \in Slice
  BY <1>2 DEF RequestFact
<1>5. \A t \in Request, r \in Nsr :
          /\ nslcmop'[<<t, r>>].run = nslcmop[<<t, r>>].run
          /\ nslcmop'[<<t, r>>].state = "COMPLETED"
                 <=> nslcmop[<<t, r>>].state = "COMPLETED"
          /\ \/ nslcmop'[<<t, r>>] = nslcmop[<<t, r>>]
             \/ /\ t = i /\ r \in R /\ Exist(r)
                /\ nslcmop'[<<t, r>>].run = "no"
                /\ nslcmop'[<<t, r>>].state = "PROCESSING"
          /\ i < t => Untouched(<<t, r>>)
  BY <1>2 DEF RequestFact
<1>6. \A m \in Slice :
          /\ nsi'[m].life = nsi[m].life /\ nsi'[m].list = nsi[m].list
          /\ nsi'[m].shown = nsi[m].shown
          /\ nsi'[m].instantiated = nsi[m].instantiated
          /\ nsi[m].vld \subseteq nsi'[m].vld
          /\ nsi[m].list \subseteq Nsr
  BY <1>2 DEF RequestFact
<1>7. \A m \in Slice \ {n} : nsi'[m] = nsi[m]
  BY <1>1 DEF OnlySlice
<1> HIDE DEF n
<1>8. req[i].found # NoRequest /\ req[i].pc = "act"
          => /\ req[i].found \in Request /\ Asked(req[i].found)
             /\ req[i].found <= i
  <2> HAVE req[i].found # NoRequest /\ req[i].pc = "act"
  <2>1. req[i].found \in Request /\ Asked(req[i].found)
    BY DEF Typed, TypeOK, ReqRec, Sound, OpsKnown
  <2>2. ~(i < req[i].found)
    BY <1>4, <2>1 DEF Asked
  <2> QED  BY <2>1, <2>2 DEF Request
<1>9. InTurn'
  <2>1. ASSUME NEW a \in Request, NEW b \in Request, a < b,
               req'[a].pc = "free" \/ Open(a)'
        PROVE  req'[b].pc = "free"
    <3>1. CASE a = i
      BY <1>4, <2>1, <3>1
    <3>2. CASE a # i
      <4>1. req'[a] = req[a]
        BY <1>4, <2>1, <3>2
      <4>2. req[a].pc = "free" \/ Open(a)
        BY <2>1, <4>1 DEF Open
      <4> QED  BY <1>4, <2>1, <4>2 DEF Sound, InTurn
    <3> QED  BY <3>1, <3>2
  <2> QED  BY <1>1, <2>1 DEF Sound, InTurn
<1>10. Alive'
  <2>1. ASSUME NEW m \in Slice
        PROVE  /\ nsi'[m].life = "new" => nsi'[m] = NewSlice
               /\ handler'[m].pc = "new" => nsi'[m].life = "new"
               /\ handler'[m].pc \in {"shared", "own"} => ~There(m)'
               /\ handler'[m].pc # "idle" => ~nsi'[m].instantiated
    <3>1. CASE m = n
      BY <1>1, <1>3, <1>6, <3>1 DEF Sound, InTurn, There
    <3>2. CASE m # n
      BY <1>1, <1>7, <3>2 DEF Sound, Alive, There
    <3> QED  BY <3>1, <3>2
  <2>2. ASSUME NEW j \in Request
        PROVE  /\ Active(j)' => /\ There(req[j].slice)'
                                /\ handler'[req[j].slice].pc = "idle"
               /\ req'[j].pc # "free" => nsi'[req[j].slice].life # "new"
               /\ req'[j].pc \in {"sent", "poll", "write"}
                      => req'[j].state = "PROCESSING"
    <3>1. Active(j)' => Active(j)
      BY <1>1, <1>4 DEF Active, Open
    <3>2. /\ Active(j) => /\ There(req[j].slice)
                          /\ handler[req[j].slice].pc = "idle"
          /\ req[j].pc # "free" => nsi[req[j].slice].life # "new"
          /\ req[j].pc \in {"sent", "poll", "write"}
                 => req[j].state = "PROCESSING"
      BY DEF Sound, Alive
    <3>4. req'[j].pc # "free" => nsi'[req[j].slice].life # "new"
      BY <1>4, <1>6, <3>2
    <3>5. req'[j].pc \in {"sent", "poll", "write"}
              => req'[j].state = "PROCESSING"
      BY <1>1, <1>4, <3>2
    <3>6. CASE Active(j)'
      <4>1. req[j].slice \in Slice /\ req'[j].slice = req[j].slice
        BY <1>4, <3>1, <3>6 DEF Active
      <4>2. There(req[j].slice)'
        BY <1>6, <3>1, <3>2, <3>6, <4>1 DEF There
      <4> QED  BY <1>1, <3>1, <3>2, <3>6, <3>4, <3>5, <4>1, <4>2
    <3> QED  BY <3>4, <3>5, <3>6
  <2>3. \A j \in Request : req'[j].slice = req[j].slice
    BY <1>4
  <2> QED  BY <2>1, <2>2, <2>3 DEF Alive
<1>11. TasksInTurn'
  <2>1. ASSUME NEW a \in Request, req[a].pc = "over"
        PROVE  req'[a].pc = "over"
    BY <1>1, <1>4, <2>1 DEF Open
  <2>2. \A q \in Request : Working(q)' => Working(q)
    BY <1>1, <1>4 DEF Working
  <2> QED  BY <1>4, <1>5, <2>1, <2>2 DEF Sound, TasksInTurn
<1>12. Lists'
  <2>1. ASSUME NEW m \in Slice
        PROVE  /\ Listable(m, nsi[m].list)' /\ Listable(m, handler[m].list)'
               /\ There(m)' => \A r \in nsi'[m].list : Exist(r)'
               /\ handler'[m].pc = "new" =>
                      \A r \in handler'[m].list : Exist(r)'
    BY <1>1, <1>6 DEF Sound, Lists, Listable, Shared, There, Exist
  <2>2. ASSUME NEW j \in Request, Open(j)'
        PROVE  /\ Listable(req[j].slice, req[j].read.list)'
               /\ nsi'[req[j].slice].list \subseteq req'[j].read.list
    <3>1. j = i
      BY <1>4, <2>2 DEF Open
    <3>2. /\ Listable(n, req[i].read.list)
          /\ nsi[n].list \subseteq req[i].read.list
      BY <1>1 DEF Sound, Lists, n
    <3>3. req'[i].slice = n /\ req'[i].read = req[i].read
      BY <1>1, <1>4, <2>2, <3>1 DEF n
    <3>4. nsi'[n].list = nsi[n].list
      BY <1>3, <1>6
    <3> QED  BY <3>1, <3>2, <3>3, <3>4 DEF Listable, Shared, n
  <2>3. ASSUME NEW j \in Request, req'[j].pc = "write"
        PROVE  /\ req'[j].read.list \subseteq nsi'[req[j].slice].list
               /\ \A r \in Nsr \ req'[j].read.list :
                      req'[j].read.uses[r] = NoRequest
    <3>1. req'[j] = req[j] /\ req[j].slice \in Slice
      BY <1>1, <1>4, <2>3
    <3> QED  BY <1>6, <2>3, <3>1 DEF Sound, Lists
  <2>4. \A j \in Request : req'[j].slice = req[j].slice
    BY <1>4
  <2> QED  BY <2>1, <2>2, <2>3, <2>4 DEF Lists
<1>13. NssInTurn'
  <2>1. \A q \in Request, r \in Nsr : Runs(q, r)' => Runs(q, r)
    BY <1>4, <1>5 DEF Runs
  <2>2. \A q \in Request, r \in Nsr : Unshaken(q, r)' => Unshaken(q, r)
    BY <1>4, <1>5 DEF Unshaken
  <2>3. ASSUME NEW t \in Request, NEW r \in Nsr, t # i, Pending(t, r)'
        PROVE  Pending(t, r)
    <3>1. nslcmop'[<<t, r>>] = nslcmop[<<t, r>>] /\ req'[t] = req[t]
      BY <1>4, <1>5, <2>3
    <3> QED  BY <2>3, <3>1 DEF Pending, Processing, NsStuck
  <2>4. ASSUME NEW q \in Request, NEW r \in Nsr, Runs(q, r)
        PROVE  ~(i < q)
    BY <1>5, <2>4 DEF Runs, Untouched
  <2>5. ASSUME NEW q \in Request, NEW r \in Nsr, Runs(q, r)'
        PROVE  /\ \A t \in Request : t < q /\ Terminates(t)' => ~Pending(t, r)'
               /\ Unshaken(q, r)' => nsr'[r] \in {"instantiated", "gone"}
    <3>1. Runs(q, r) /\ ~(i < q)
      BY <2>1, <2>4, <2>5
    <3>2. /\ \A t \in Request : t < q /\ Terminates(t) => ~Pending(t, r)
          /\ Unshaken(q, r) => nsr[r] \in {"instantiated", "gone"}
      BY <3>1 DEF Sound, NssInTurn
    <3> QED  BY <1>1, <1>4, <2>2, <2>3, <3>1, <3>2
  <2> QED  BY <2>5 DEF NssInTurn
<1>14. KindsInTurn'
  <2>1. \A j \in Request :
            /\ req'[j].pc \in {"look", "act", "own", "sent"}
                   => req[j].pc \in {"look", "act", "own", "sent"}
            /\ Active(j)' => Active(j)
    BY <1>1, <1>4 DEF Active, Open
  <2>2. ASSUME NEW j \in Request, NEW t \in Request, Instantiates(j)',
               req'[j].pc \in {"look", "act", "own", "sent"}, j < t,
               req'[t].slice = req'[j].slice, req'[t].pc # "free"
        PROVE  Instantiates(t)'
    BY <1>4, <2>1, <2>2 DEF Sound, KindsInTurn
  <2>3. ASSUME NEW j \in Request, Instantiates(j)',
               req'[j].pc \in {"look", "act", "own", "sent"},
               "repeated" \notin marks'
        PROVE  ~nsi'[req'[j].slice].instantiated
    <3>1. req[j].slice \in Slice
      BY <1>4, <2>1, <2>3
    <3> QED  BY <1>1, <1>4, <1>6, <2>1, <2>3, <3>1 DEF Sound, KindsInTurn
  <2>4. ASSUME NEW j \in Request, NEW q \in Request, j # q, Active(j)',
               Active(q)', req'[j].slice = req'[q].slice,
               req'[j].kind = req'[q].kind
        PROVE  "repeated" \in marks'
    BY <1>1, <1>4, <2>1, <2>4 DEF Sound, KindsInTurn
  <2> QED  BY <2>2, <2>3, <2>4 DEF KindsInTurn
<1>15. OpsInTurn'
  <2>1. ASSUME NEW j \in Request, NEW r \in Nsr
        PROVE  req'[j].ops[r] <= j
    <3>1. req[j].ops[r] <= j
      BY DEF Sound, OpsInTurn
    <3>2. CASE j # i
      BY <1>4, <3>1, <3>2
    <3>3. CASE j = i
      <4>1. CASE req'[i].ops[r] = req[i].ops[r]
        BY <3>1, <3>3, <4>1
      <4>2. CASE req'[i].ops[r] = i
        BY <3>3, <4>2 DEF Request
      <4>3. CASE req[i].pc = "act" /\ req'[i].ops[r] = req[i].found
        <5>1. CASE req[i].found = NoRequest
          BY <3>3, <4>3, <5>1 DEF Request, NoRequest
        <5>2. CASE req[i].found # NoRequest
          BY <1>8, <3>3, <4>3, <5>2
        <5> QED  BY <5>1, <5>2
      <4> QED  BY <1>1, <4>1, <4>2, <4>3
    <3> QED  BY <3>2, <3>3
  <2> QED  BY <2>1 DEF OpsInTurn
<1>16. OpsKnown'
  <2>1. ASSUME NEW j \in Request, NEW r \in Nsr, req'[j].ops[r] # NoRequest
        PROVE  /\ req'[j].pc # "free" /\ r \in SharedNs \cup {req'[j].slice}
               /\ r \in Slice \/ Terminates(j)' => req'[j].ops[r] = j
               /\ Instantiates(j)' => /\ req'[j].ops[r] \in Request
                                      /\ Asked(req'[j].ops[r])
    <3>1. req[j].ops[r] # NoRequest =>
              /\ req[j].pc # "free" /\ r \in SharedNs \cup {req[j].slice}
              /\ r \in Slice \/ Terminates(j) => req[j].ops[r] = j
              /\ Instantiates(j) => Asked(req[j].ops[r])
      BY DEF Sound, OpsKnown
    <3>2. req[j].ops[r] # NoRequest => req[j].ops[r] \in Request
      BY DEF Typed, TypeOK, ReqRec, OpFun
    <3>3. CASE req'[j].ops[r] = req[j].ops[r]
      BY <1>4, <2>1, <3>1, <3>2, <3>3
    <3>4. CASE j = i /\ req'[i].ops[r] = i /\ r \in SharedNs \cup {n}
      BY <1>1, <1>4, <3>4 DEF Open, Asked, n
    <3>5. CASE /\ j = i /\ Instantiates(i) /\ r \in SharedNs
               /\ req[i].pc = "act" /\ req'[i].ops[r] = req[i].found
      <4>1. r \notin Slice /\ ~Terminates(i)
        BY <3>5, SliceAssumption DEF Instantiates, Terminates
      <4> QED  BY <1>1, <1>4, <1>8, <2>1, <3>5, <4>1
    <3> QED  BY <1>1, <1>4, <3>3, <3>4, <3>5
  <2>2. ASSUME NEW m \in Slice, NEW r \in Nsr, nsi'[m].uses[r] # NoRequest
        PROVE  /\ nsi'[m].uses[r] \in Request
               /\ Asked(nsi'[m].uses[r])
    <3>1. nsi[m].uses[r] # NoRequest
              => nsi[m].uses[r] \in Request /\ Asked(nsi[m].uses[r])
      BY DEF Typed, TypeOK, SliceRec, OpFun, Sound, OpsKnown
    <3>2. CASE m # n
      BY <1>7, <2>2, <3>1, <3>2
    <3>3. CASE m = n
      <4>1. CASE nsi'[n].uses[r] \in {nsi[n].uses[r], NoRequest}
        BY <2>2, <3>1, <3>3, <4>1
      <4>2. CASE Instantiates(i) /\ nsi'[n].uses[r] = req'[i].ops[r]
        BY <1>4, <2>1, <2>2, <3>3, <4>2
      <4> QED  BY <1>1, <4>1, <4>2
    <3> QED  BY <3>2, <3>3
  <2>3. ASSUME NEW j \in Request, req'[j].pc = "act", req'[j].found # NoRequest
        PROVE  req'[j].found \in Request /\ Asked(req'[j].found)
    <3>1. j = i
      BY <1>4, <2>3 DEF Open
    <3> QED  BY <1>1, <2>3, <3>1
  <2>4. ASSUME NEW j \in Request, NEW r \in Nsr
        PROVE  /\ req'[j].pc = "free" => Untouched(<<j, r>>)'
               /\ Open(j)' => /\ nslcmop'[<<j, r>>].run = "no"
                              /\ nslcmop'[<<j, r>>].state
                                     \in {"none", "PROCESSING"}
               /\ Terminates(j)' /\ req'[j].pc \in {"look", "act", "own", "sent"}
                      => nslcmop'[<<j, r>>].run = "no"
               /\ ~Untouched(<<j, r>>)' /\ r \in Slice => r = req'[j].slice
               /\ nslcmop'[<<j, r>>].state \in {"COMPLETED", "FAILED"}
                      <=> /\ nslcmop'[<<j, r>>].run = "over"
                          /\ nslcmop'[<<j, r>>].state # "none"
               /\ Processing(<<j, r>>)' => Exist(r)'
               /\ nslcmop'[<<j, r>>].run = "work"
                      => Processing(<<j, r>>)' \/ nsr'[r] = "gone"
    <3>1. /\ req[j].pc = "free" => Untouched(<<j, r>>)
          /\ Open(j) => /\ nslcmop[<<j, r>>].run = "no"
                        /\ nslcmop[<<j, r>>].state \in {"none", "PROCESSING"}
          /\ Terminates(j) /\ req[j].pc \in {"look", "act", "own", "sent"}
                 => nslcmop[<<j, r>>].run = "no"
          /\ ~Untouched(<<j, r>>) /\ r \in Slice => r = req[j].slice
          /\ nslcmop[<<j, r>>].state \in {"COMPLETED", "FAILED"}
                 <=> /\ nslcmop[<<j, r>>].run = "over"
                     /\ nslcmop[<<j, r>>].state # "none"
          /\ Processing(<<j, r>>) => Exist(r)
          /\ nslcmop[<<j, r>>].run = "work"
                 => Processing(<<j, r>>) \/ nsr[r] = "gone"
      BY DEF Sound, OpsKnown
    <3>2. /\ req'[j].slice = req[j].slice
          /\ req'[j].pc = "free" <=> req[j].pc = "free"
          /\ Open(j)' => Open(j)
          /\ Terminates(j)' <=> Terminates(j)
          /\ req'[j].pc \in {"look", "act", "own", "sent"}
                 => req[j].pc \in {"look", "act", "own", "sent"}
          /\ Exist(r)' <=> Exist(r)
          /\ nsr' = nsr
      BY <1>1, <1>4 DEF Open, Exist
    <3>3. CASE nslcmop'[<<j, r>>] = nslcmop[<<j, r>>]
      BY <3>1, <3>2, <3>3 DEF Untouched, Processing
    <3>4. CASE /\ j = i /\ r \in R /\ Exist(r)
               /\ nslcmop'[<<j, r>>].run = "no"
               /\ nslcmop'[<<j, r>>].state = "PROCESSING"
      <4>1. r \in Slice => r = req'[j].slice
        BY <1>1, <1>4, <3>4, SliceAssumption DEF n
      <4>2. req[j].pc # "free"
        BY <1>1, <3>4 DEF Open
      <4> QED  BY <3>2, <3>4, <4>1, <4>2 DEF Untouched, Processing
    <3> QED  BY <1>5, <3>3, <3>4
  <2>5. \A j \in Request : Asked(j) => (req'[j].kind = "instantiate" /\ req'[j].pc # "free")
    BY <1>4 DEF Asked, Instantiates
  <2>6. /\ \A j \in Request, r \in Nsr : req'[j].ops[r] # NoRequest =>
             /\ req'[j].pc # "free" /\ r \in SharedNs \cup {req'[j].slice}
             /\ r \in Slice \/ Terminates(j)' => req'[j].ops[r] = j
             /\ Instantiates(j)' => Asked(req[j].ops[r])'
        /\ \A m \in Slice, r \in Nsr :
             nsi'[m].uses[r] # NoRequest => Asked(nsi[m].uses[r])'
        /\ \A j \in Request :
             req'[j].pc = "act" /\ req'[j].found # NoRequest
                 => Asked(req[j].found)'
    <3>1. ASSUME NEW j \in Request, req'[j].pc = "act", req'[j].found # NoRequest
          PROVE  Asked(req[j].found)'
      <4> DEFINE q == req'[j].found
      <4>1. q \in Request /\ Asked(q)
        BY <2>3, <3>1
      <4>2. req'[q].kind = "instantiate" /\ req'[q].pc # "free"
        BY <2>5, <4>1
      <4> QED  BY <4>2 DEF Asked, Instantiates
    <3> QED  BY <2>1, <2>2, <2>5, <3>1 DEF Asked, Instantiates
  <2> QED  BY <2>4, <2>6 DEF OpsKnown
<1> QED
  BY <1>9, <1>10, <1>11, <1>12, <1>13, <1>14, <1>15, <1>16

\* NBI looks for the shared NS.
LEMMA LookSharedKeeps ==
    ASSUME Typed, Sound, Undisturbed', NEW i \in Request, LookShared(i)
    PROVE  Sound'
<1> DEFINE n == req[i].slice
<1>1. /\ Undisturbed /\ req[i].pc = "look" /\ req'[i].pc = "act"
      /\ SameButFound(i) /\ req'[i].ops = req[i].ops /\ OnlyReq(i)
      /\ UNCHANGED <<nsi, nsr, nslcmop, handler, notices, marks, faults>>
  BY LookSharedDoes
<1>2. PICK s \in Shared(req[i].read.list) :
          \/ /\ req'[i].found = NoRequest
             /\ \A m \in OthersListing(n, s) : nsi[m].uses[s] = NoRequest
          \/ /\ req'[i].found # NoRequest
             /\ \E m \in OthersListing(n, s) : req'[i].found = nsi[m].uses[s]
  BY LookSharedDoes
<1>3. /\ req'[i].slice = n /\ req'[i].kind = req[i].kind
      /\ req'[i].read = req[i].read /\ req'[i].state = req[i].state
      /\ \A j \in Request \ {i} : req'[j] = req[j]
  BY <1>1 DEF SameButFound, OnlyReq
<1>4. n \in Slice /\ s \in SharedNs /\ s \in Nsr /\ Open(i)
  BY <1>1 DEF Shared, Nsr, Open, Typed, SliceKnown
<1>5. \A t \in SharedNs : t \in req[i].read.list => t = s
  BY <1>2, <1>4 DEF Sound, Lists, Listable, Shared
<1>6. req'[i].found # NoRequest
          => \E m \in Slice :
                 /\ There(m) /\ s \in nsi[m].list
                 /\ nsi[m].uses[s] = req'[i].found
  BY <1>2 DEF OthersListing
<1>7. req'[i].found # NoRequest
          => req'[i].found \in Request /\ Asked(req'[i].found)
  <2> SUFFICES ASSUME req'[i].found # NoRequest
               PROVE  req'[i].found \in Request /\ Asked(req'[i].found)
    OBVIOUS
  <2>1. PICK m \in Slice : nsi[m].uses[s] = req'[i].found
    BY <1>6
  <2>2. nsi[m].uses[s] \in Request \cup {NoRequest}
    BY <1>4 DEF Typed, TypeOK, SliceRec, OpFun
  <2> QED  BY <1>4, <2>1, <2>2 DEF Sound, OpsKnown
<1>8. Created(i, {})
  BY <1>1 DEF Created
<1>9. RequestStep(i, {})
  <2>1. /\ OnlySlice(n)
        /\ nsi'[n].life = nsi[n].life /\ nsi'[n].list = nsi[n].list
        /\ nsi'[n].shown = nsi[n].shown
        /\ nsi'[n].instantiated = nsi[n].instantiated
        /\ nsi[n].vld \subseteq nsi'[n].vld
        /\ \A r \in Nsr : nsi'[n].uses[r] \in {nsi[n].uses[r], NoRequest}
    BY <1>1 DEF OnlySlice
  <2> QED  BY <1>1, <1>3, <1>4, <1>7, <1>8, <2>1 DEF RequestStep
<1> HIDE DEF n
<1>10. /\ InTurn' /\ Alive' /\ TasksInTurn' /\ Lists' /\ OpsKnown'
       /\ NssInTurn' /\ KindsInTurn' /\ OpsInTurn'
  BY <1>9, RequestKeeps
<1>11. \A j \in Request :
           /\ req'[j].slice = req[j].slice /\ req'[j].kind = req[j].kind
           /\ req'[j].read = req[j].read /\ req'[j].ops = req[j].ops
           /\ req'[j].pc \in {"own", "sent", "poll", "write"}
                  => req'[j] = req[j]
           /\ j # i => req'[j] = req[j]
  BY <1>1, <1>3 DEF n
<1>12. nsi' = nsi /\ nslcmop' = nslcmop /\ marks' = marks
  BY <1>1
<1>13. Reliance'
  <2>1. ASSUME NEW q \in Request, NEW t \in SharedNs, Holds(q, t)'
        PROVE  Holds(q, t)
    <3>1. CASE \E m \in Slice :
                  There(m)' /\ t \in nsi'[m].list /\ nsi'[m].uses[t] = q
      BY <1>12, <3>1 DEF Holds, There
    <3>2. CASE \E j \in Request :
                  /\ Instantiates(j)' /\ req'[j].pc \in {"own", "sent"}
                  /\ t \in nsi'[req'[j].slice].list /\ req'[j].ops[t] = q
      BY <1>11, <1>12, <3>2 DEF Holds, Instantiates
    <3>3. CASE \E j \in Request :
                  /\ Instantiates(j)' /\ req'[j].pc = "act"
                  /\ t \in req'[j].read.list /\ req'[j].found = q
      <4>1. PICK j \in Request :
                /\ Instantiates(j)' /\ req'[j].pc = "act"
                /\ t \in req'[j].read.list /\ req'[j].found = q
        BY <3>3
      <4>2. CASE j = i
        <5>1. t = s /\ req'[i].found # NoRequest
          BY <1>5, <1>11, <4>1, <4>2 DEF Request, NoRequest
        <5> QED  BY <1>6, <4>1, <4>2, <5>1 DEF Holds
      <4>3. CASE j # i
        BY <1>11, <4>1, <4>3 DEF Holds, Instantiates
      <4> QED  BY <4>2, <4>3
    <3> QED  BY <2>1, <3>1, <3>2, <3>3 DEF Holds
  <2>2. ASSUME NEW q \in Request, NEW t \in Request, NEW r \in SharedNs,
               Holds(q, r)', q < t, Terminates(t)'
        PROVE  Untouched(<<t, r>>)'
    <3>1. Holds(q, r)
      BY <2>1, <2>2
    <3>2. Terminates(t)
      BY <1>11, <2>2 DEF Terminates
    <3>3. Untouched(<<t, r>>)
      BY <2>2, <3>1, <3>2 DEF Sound, Reliance
    <3> QED  BY <1>12, <3>3 DEF Untouched
  <2>3. ASSUME NEW j \in Request, NEW r \in SharedNs, Instantiates(j)',
               req'[j].pc \in {"own", "sent"},
               r \in nsi'[req'[j].slice].list, req'[j].ops[r] # NoRequest
        PROVE  nsi'[req'[j].slice].uses[r] # NoRequest
    BY <1>11, <1>12, <2>3 DEF Sound, Reliance, Instantiates
  <2>4. ASSUME NEW j \in Request, NEW r \in SharedNs, Terminates(j)',
               req'[j].pc = "act", req'[j].found = NoRequest,
               r \in req'[j].read.list
        PROVE  \A m \in OthersListing(req[j].slice, r)' :
                   nsi'[m].uses[r] = NoRequest
    <3>1. CASE j = i
      <4>1. r = s /\ OthersListing(req[i].slice, r)' = OthersListing(n, r)
        BY <1>5, <1>11, <1>12, <2>4, <3>1 DEF OthersListing, There, n
      <4> QED  BY <1>2, <1>12, <2>4, <3>1, <4>1
    <3>2. CASE j # i
      <4>1. /\ req'[j] = req[j]
            /\ OthersListing(req[j].slice, r)' = OthersListing(req[j].slice, r)
        BY <1>11, <1>12, <3>2 DEF OthersListing, There
      <4> QED  BY <1>12, <2>4, <4>1 DEF Sound, Reliance, Terminates
    <3> QED  BY <3>1, <3>2
  <2> QED  BY <2>2, <2>3, <2>4 DEF Reliance
<1>14. VldKnown'
  <2>1. \A j \in Request :
            /\ Instantiates(j)' <=> Instantiates(j)
            /\ Terminates(j)' <=> Terminates(j)
            /\ Open(j)' => Open(j)
            /\ Active(j)' => Active(j)
            /\ Working(j)' => Working(j)
    BY <1>1, <1>11 DEF Instantiates, Terminates, Open, Active, Working
  <2>2. \A m \in Slice : There(m)' <=> There(m)
    BY <1>12 DEF There
  <2> QED  BY <1>11, <1>12, <2>1, <2>2 DEF Sound, VldKnown
<1>15. Keeping'
  <2>1. \A q \in Request, r \in Nsr : Unshaken(q, r) => Unshaken(q, r)'
    BY <1>11, <1>12 DEF Unshaken, Terminates
  <2>2. \A r \in Nsr : Kept(r) => Kept(r)'
    BY <1>11, <1>12, <2>1 DEF Kept, Instantiates
  <2>3. \A m \in Slice : \A r \in nsi[m].list : r \in Nsr
    BY DEF Typed, TypeOK, SliceRec
  <2>4. ASSUME NEW m \in Slice, There(m)', nsi'[m].shown = "running",
               NEW r \in nsi'[m].list
        PROVE  Kept(r)'
    BY <1>12, <2>2, <2>3, <2>4 DEF Sound, Keeping, There
  <2>5. ASSUME NEW j \in Request, Instantiates(j)',
               req'[j].pc \in {"own", "sent", "poll", "write"},
               NEW r \in nsi'[req'[j].slice].list,
               req'[j].ops[r] # NoRequest
        PROVE  Unshaken(req[j].ops[r], r)'
    <3>1. req'[j] = req[j] /\ req[j].slice \in Slice
      BY <1>11, <2>5 DEF Typed, SliceKnown
    <3>2. r \in nsi[req[j].slice].list /\ r \in Nsr
      BY <1>12, <2>3, <2>5, <3>1
    <3>3. req[j].ops[r] \in Request
      BY <2>5, <3>1, <3>2 DEF Typed, TypeOK, ReqRec, OpFun
    <3>4. Unshaken(req[j].ops[r], r)
      BY <2>5, <3>1, <3>2 DEF Sound, Keeping, Instantiates
    <3>5. \A t \in Request :
              req[j].ops[r] < t /\ Terminates(t) => nslcmop[<<t, r>>].run = "no"
      BY <3>4 DEF Unshaken
    <3> QED  BY <1>11, <1>12, <3>1, <3>5 DEF Unshaken, Terminates
  <2>6. ASSUME NEW j \in Request, Instantiates(j)', req'[j].pc = "write",
               req'[j].read.all = "COMPLETED", NEW r \in req'[j].read.list
        PROVE  /\ req'[j].ops[r] # NoRequest
               /\ nslcmop'[<<req'[j].ops[r], r>>].state = "COMPLETED"
    BY <1>11, <1>12, <2>6 DEF Sound, Keeping, Instantiates
  <2> QED  BY <2>4, <2>5, <2>6 DEF Keeping
<1> QED  BY <1>10, <1>13, <1>14, <1>15 DEF Sound

\* Request i uses only operations on NSs that nobody terminates after them.
UsesUnshaken(i) ==
    Instantiates(i) /\ req'[i].pc \in {"own", "sent"} =>
        \A r \in nsi[req[i].slice].list :
            req'[i].ops[r] # NoRequest => /\ req'[i].ops[r] \in Request
                                          /\ Unshaken(req'[i].ops[r], r)

LEMMA RequestKeepsKeeping ==
    ASSUME Typed, Sound, NEW i \in Request, NEW R, RequestStep(i, R),
           UsesUnshaken(i)
    PROVE  Keeping'
<1>1. RequestFact(i, R)
  BY RequestFacts
<1>2. /\ req'[i].pc \in {"act", "own", "sent"}
  BY DEF RequestStep
<1>3. \A j \in Request :
          /\ req'[j].slice = req[j].slice
          /\ Instantiates(j)' <=> Instantiates(j)
          /\ Terminates(j)' <=> Terminates(j)
          /\ j # i => req'[j] = req[j]
  BY <1>1 DEF RequestFact
<1>4. \A t \in Request, r \in Nsr :
          /\ nslcmop'[<<t, r>>].run = nslcmop[<<t, r>>].run
          /\ nslcmop'[<<t, r>>].state = "COMPLETED"
                 <=> nslcmop[<<t, r>>].state = "COMPLETED"
  BY <1>1 DEF RequestFact
<1>5. \A m \in Slice :
          /\ nsi'[m].life = nsi[m].life /\ nsi'[m].list = nsi[m].list
          /\ nsi'[m].shown = nsi[m].shown
          /\ nsi[m].list \subseteq Nsr
  BY <1>1 DEF RequestFact
<1>6. \A q \in Request, r \in Nsr : Unshaken(q, r) =>
          \A t \in Request :
              q < t /\ Terminates(t)' => nslcmop'[<<t, r>>].run = "no"
  BY <1>3, <1>4 DEF Unshaken
<1>7. \A r \in Nsr : Kept(r) => Kept(r)'
  BY <1>3, <1>4, <1>6 DEF Kept, Unshaken
<1>8. ASSUME NEW m \in Slice, There(m)', nsi'[m].shown = "running",
             NEW r \in nsi'[m].list
      PROVE  Kept(r)'
  BY <1>5, <1>7, <1>8 DEF Sound, Keeping, There
<1>9. ASSUME NEW j \in Request, Instantiates(j)',
             req'[j].pc \in {"own", "sent", "poll", "write"},
             NEW r \in nsi'[req'[j].slice].list,
             req'[j].ops[r] # NoRequest
      PROVE  Unshaken(req[j].ops[r], r)'
  <2>1. req[j].slice \in Slice
    <3>1. CASE j = i
      BY <1>1, <3>1 DEF RequestFact
    <3>2. CASE j # i
      <4>1. req'[j] = req[j]
        BY <1>3, <3>2
      <4> QED  BY <1>9, <4>1 DEF Typed, SliceKnown
    <3> QED  BY <3>1, <3>2
  <2>2. r \in nsi[req[j].slice].list /\ r \in Nsr
    BY <1>3, <1>5, <1>9, <2>1
  <2>3. req'[j].ops[r] \in Request /\ Unshaken(req'[j].ops[r], r)
    <3>1. CASE j = i
      BY <1>2, <1>3, <1>9, <2>2, <3>1 DEF UsesUnshaken
    <3>2. CASE j # i
      <4>1. req'[j] = req[j] /\ Instantiates(j)
        BY <1>3, <1>9, <3>2
      <4>2. req[j].ops[r] \in Request
        BY <1>9, <2>2, <4>1 DEF Typed, TypeOK, ReqRec, OpFun
      <4> QED  BY <1>9, <2>2, <4>1, <4>2 DEF Sound, Keeping
    <3> QED  BY <3>1, <3>2
  <2>4. \A t \in Request : req'[j].ops[r] < t /\ Terminates(t)'
            => nslcmop'[<<t, r>>].run = "no"
    BY <1>6, <2>2, <2>3
  <2> QED  BY <2>4 DEF Unshaken
<1>10. ASSUME NEW j \in Request, Instantiates(j)', req'[j].pc = "write",
              req'[j].read.all = "COMPLETED", NEW r \in req'[j].read.list
       PROVE  /\ req'[j].ops[r] # NoRequest
              /\ nslcmop'[<<req'[j].ops[r], r>>].state = "COMPLETED"
  <2>1. req'[j] = req[j] /\ Instantiates(j)
    BY <1>2, <1>3, <1>10
  <2>2. r \in Nsr
    BY <1>10, <2>1 DEF Typed, TypeOK, ReqRec, ReadRec
  <2>3. /\ req[j].ops[r] # NoRequest
        /\ nslcmop[<<req[j].ops[r], r>>].state = "COMPLETED"
    BY <1>10, <2>1 DEF Sound, Keeping
  <2>4. req[j].ops[r] \in Request
    BY <2>2, <2>3 DEF Typed, TypeOK, ReqRec, OpFun
  <2> QED  BY <1>4, <2>1, <2>2, <2>3, <2>4
<1> QED  BY <1>8, <1>9, <1>10 DEF Keeping

\* The VLD of the slice of request i has the shared NSs that the request needs.
Links(i) ==
    LET n == req[i].slice
    IN /\ Instantiates(i) /\ req'[i].pc \in {"own", "sent"}
              => Shared(nsi[n].list) \subseteq nsi'[n].vld
       /\ Terminates(i) => \A s \in SharedNs :
              req'[i].ops[s] # NoRequest => s \in nsi[n].vld

LEMMA RequestKeepsVld ==
    ASSUME Typed, Sound, NEW i \in Request, NEW R, RequestStep(i, R), Links(i)
    PROVE  VldKnown'
<1>1. RequestFact(i, R)
  BY RequestFacts
<1>2. /\ req'[i].pc \in {"act", "own", "sent"} /\ Open(i)
      /\ Open(i)' => req'[i].read = req[i].read
      /\ req[i].slice \in Slice
  BY <1>1 DEF RequestStep, RequestFact
<1>3. \A j \in Request :
          /\ req'[j].slice = req[j].slice
          /\ Instantiates(j)' <=> Instantiates(j)
          /\ Terminates(j)' <=> Terminates(j)
          /\ j # i => req'[j] = req[j] /\ ~Open(j)
          /\ req[j].pc # "free" => req[j].slice \in Slice
  BY <1>1 DEF RequestFact
<1>4. \A m \in Slice :
          /\ nsi'[m].life = nsi[m].life /\ nsi'[m].list = nsi[m].list
          /\ nsi'[m].shown = nsi[m].shown
          /\ nsi'[m].instantiated = nsi[m].instantiated
          /\ nsi[m].vld \subseteq nsi'[m].vld
  BY <1>1 DEF RequestFact
<1>5. ASSUME NEW m \in Slice
      PROVE  /\ There(m)' /\ nsi'[m].instantiated
                    => Shared(nsi'[m].list) \subseteq nsi'[m].vld
             /\ nsi'[m].shown \in {"init", "running"} => nsi'[m].instantiated
  BY <1>4 DEF Sound, VldKnown, There
<1>6. ASSUME NEW j \in Request, Instantiates(j)', req'[j].pc \in {"own", "sent"}
      PROVE  Shared(nsi'[req'[j].slice].list) \subseteq nsi'[req'[j].slice].vld
  <2>1. CASE j = i
    BY <1>2, <1>3, <1>4, <1>6, <2>1 DEF Links
  <2>2. CASE j # i
    <3>1. req'[j] = req[j] /\ req[j].slice \in Slice /\ Instantiates(j)
      BY <1>3, <1>6, <2>2
    <3> QED  BY <1>4, <1>6, <3>1 DEF Sound, VldKnown
  <2> QED  BY <2>1, <2>2
<1>7. ASSUME NEW j \in Request, Terminates(j)', Open(j)'
      PROVE  Shared(req'[j].read.list) \subseteq nsi'[req'[j].slice].vld
  <2>1. j = i
    BY <1>3, <1>7 DEF Open
  <2>2. Shared(req[i].read.list) \subseteq nsi[req[i].slice].vld
    BY <1>2, <1>3, <1>7, <2>1 DEF Sound, VldKnown
  <2> QED  BY <1>2, <1>3, <1>4, <1>7, <2>1, <2>2
<1>8. ASSUME NEW j \in Request, Terminates(j)', Active(j)', NEW s \in SharedNs,
             req'[j].ops[s] # NoRequest
      PROVE  s \in nsi'[req'[j].slice].vld
  <2>1. CASE j = i
    BY <1>2, <1>3, <1>4, <1>8, <2>1 DEF Links
  <2>2. CASE j # i
    <3>1. /\ req'[j] = req[j] /\ Terminates(j) /\ Active(j)
          /\ req[j].slice \in Slice
      BY <1>3, <1>8, <2>2 DEF Active
    <3>2. s \in nsi[req[j].slice].vld
      BY <1>8, <3>1 DEF Sound, VldKnown
    <3> QED  BY <1>4, <3>1, <3>2
  <2> QED  BY <2>1, <2>2
<1>9. ASSUME NEW j \in Request, Working(j)'
      PROVE  nsi'[req'[j].slice].shown =
                 IF Instantiates(j)' THEN "init" ELSE "terminating"
  <2>1. req'[j] = req[j] /\ Working(j) /\ req[j].slice \in Slice
    BY <1>2, <1>3, <1>9 DEF Working
  <2> QED  BY <1>3, <1>4, <2>1 DEF Sound, VldKnown
<1>10. IsFiniteSet({m \in Slice : nsi'[m].life # "new"})
  <2>1. {m \in Slice : nsi'[m].life # "new"} = {m \in Slice : nsi[m].life # "new"}
    BY <1>4
  <2> QED  BY <2>1 DEF Sound, VldKnown
<1> QED  BY <1>5, <1>6, <1>7, <1>8, <1>9, <1>10 DEF VldKnown

\* An instantiation takes the shared NS over, or creates an operation on it.
LEMMA ShareInstantiateKeeps ==
    ASSUME Typed, Sound, Undisturbed', NEW i \in Request, req[i].pc = "act",
           NEW s \in SharedNs, s \in req[i].read.list, ShareInstantiate(i, s),
           UNCHANGED <<nsr, handler>>
    PROVE  Sound'
<1> DEFINE n == req[i].slice
           u == IF req[i].found = NoRequest /\ nsr[s] = "idle"
                  THEN i ELSE req[i].found
           R == IF req[i].found = NoRequest THEN {s} ELSE {}
<1>1. /\ Undisturbed /\ Instantiates(i)
      /\ req'[i].pc = "own" /\ SameButFound(i)
      /\ \A r \in Nsr : req'[i].ops[r] = IF r = s THEN u ELSE req[i].ops[r]
      /\ nsi'[n].life = nsi[n].life /\ nsi'[n].list = nsi[n].list
      /\ nsi'[n].shown = nsi[n].shown
      /\ nsi'[n].instantiated = nsi[n].instantiated
      /\ nsi'[n].vld = nsi[n].vld \cup {s}
      /\ \A r \in Nsr : nsi'[n].uses[r] = IF r = s /\ u # NoRequest
                                            THEN u ELSE nsi[n].uses[r]
      /\ Created(i, R)
      /\ marks' = marks /\ OnlyReq(i) /\ OnlySlice(n)
  BY ShareInstantiateDoes
<1>2. /\ req'[i].slice = n /\ req'[i].kind = req[i].kind
      /\ req'[i].read = req[i].read
  BY <1>1 DEF SameButFound
<1>3. n \in Slice /\ s \in Nsr /\ Open(i)
  BY DEF Nsr, Open, Typed, SliceKnown
<1>4. R \subseteq SharedNs
  OBVIOUS
<1>5. u = i \/ u = req[i].found
  OBVIOUS
<1>6. \A r \in nsi[n].list : r \in SharedNs => r = s
  BY <1>3 DEF Sound, Lists, Listable, Shared
<1>7. u # NoRequest => u = i \/ (u \in Request /\ Holds(u, s))
  <2> SUFFICES ASSUME u # NoRequest, u # i
               PROVE  u \in Request /\ Holds(u, s)
    OBVIOUS
  <2>1. u = req[i].found
    BY <1>5
  <2>2. u \in Request
    BY <2>1 DEF Typed, TypeOK, ReqRec
  <2> QED  BY <1>1, <2>1, <2>2 DEF Holds
<1> HIDE DEF u, R
<1>8. RequestStep(i, R)
  <2>1. \A r \in Nsr :
            \/ req'[i].ops[r] = req[i].ops[r]
            \/ req'[i].ops[r] = i /\ r \in SharedNs \cup {n}
            \/ /\ Instantiates(i) /\ r \in SharedNs /\ req[i].pc = "act"
               /\ req'[i].ops[r] = req[i].found
    BY <1>1, <1>5
  <2>2. \A r \in Nsr :
            \/ nsi'[n].uses[r] \in {nsi[n].uses[r], NoRequest}
            \/ Instantiates(i) /\ nsi'[n].uses[r] = req'[i].ops[r]
    BY <1>1
  <2> QED  BY <1>1, <1>2, <1>3, <1>4, <2>1, <2>2 DEF RequestStep
<1>9. RequestFact(i, R)
  BY <1>8, RequestFacts
<1>10. /\ InTurn' /\ Alive' /\ TasksInTurn' /\ Lists' /\ OpsKnown'
       /\ NssInTurn' /\ KindsInTurn' /\ OpsInTurn'
  BY <1>8, RequestKeeps
<1>11. \A j \in Request :
           /\ req'[j].slice = req[j].slice
           /\ Instantiates(j)' <=> Instantiates(j)
           /\ Terminates(j)' <=> Terminates(j)
           /\ j # i => req'[j] = req[j] /\ ~Open(j)
           /\ req[j].pc # "free" => req[j].slice \in Slice
  BY <1>9 DEF RequestFact
<1>12. \A t \in Request, r \in Nsr : i < t => Untouched(<<t, r>>)
  BY <1>9 DEF RequestFact
<1>13. \A m \in Slice :
           /\ nsi'[m].life = nsi[m].life /\ nsi'[m].list = nsi[m].list
           /\ m # n => nsi'[m] = nsi[m]
  BY <1>1, <1>9 DEF RequestFact, OnlySlice
<1>14. \A t \in Request, r \in Nsr :
           t # i => nslcmop'[<<t, r>>] = nslcmop[<<t, r>>]
  BY <1>1 DEF Created
<1>15. u # NoRequest => u \in Request /\ \A t \in Request :
           u < t /\ Terminates(t) => Untouched(<<t, s>>)
  <2>1. CASE u = i
    BY <1>3, <1>12, <2>1
  <2>2. CASE u # NoRequest /\ u # i
    BY <1>7, <2>2 DEF Sound, Reliance
  <2> QED  BY <2>1, <2>2
<1>16. Reliance'
  <2>1. ASSUME NEW q \in Request, NEW t \in SharedNs, Holds(q, t)'
        PROVE  Holds(q, t) \/ (t = s /\ q = u)
    <3>0. t \in Nsr /\ q # NoRequest
      BY DEF Nsr, Request, NoRequest
    <3>1. CASE \E m \in Slice :
                  There(m)' /\ t \in nsi'[m].list /\ nsi'[m].uses[t] = q
      <4>1. PICK m \in Slice :
                There(m)' /\ t \in nsi'[m].list /\ nsi'[m].uses[t] = q
        BY <3>1
      <4>2. There(m) /\ t \in nsi[m].list
        BY <1>13, <4>1 DEF There
      <4>3. nsi[m].uses[t] = q \/ (t = s /\ q = u)
        BY <1>1, <1>13, <3>0, <4>1
      <4> QED  BY <4>2, <4>3 DEF Holds
    <3>2. CASE \E j \in Request :
                  /\ Instantiates(j)' /\ req'[j].pc \in {"own", "sent"}
                  /\ t \in nsi'[req'[j].slice].list /\ req'[j].ops[t] = q
      <4>1. PICK j \in Request :
                /\ Instantiates(j)' /\ req'[j].pc \in {"own", "sent"}
                /\ t \in nsi'[req'[j].slice].list /\ req'[j].ops[t] = q
        BY <3>2
      <4>2. CASE j = i
        <5>1. t \in nsi[n].list
          BY <1>2, <1>3, <1>13, <4>1, <4>2
        <5>2. t = s
          BY <1>6, <5>1
        <5> QED  BY <1>1, <3>0, <4>1, <4>2, <5>2
      <4>3. CASE j # i
        <5>1. req'[j] = req[j] /\ req[j].slice \in Slice
          BY <1>11, <4>1, <4>3
        <5>2. t \in nsi[req[j].slice].list
          BY <1>13, <4>1, <5>1
        <5> QED  BY <1>11, <4>1, <5>1, <5>2 DEF Holds
      <4> QED  BY <4>2, <4>3
    <3>3. CASE \E j \in Request :
                  /\ Instantiates(j)' /\ req'[j].pc = "act"
                  /\ t \in req'[j].read.list /\ req'[j].found = q
      BY <1>1, <1>11, <3>3 DEF Holds
    <3> QED  BY <2>1, <3>1, <3>2, <3>3 DEF Holds
  <2>2. ASSUME NEW q \in Request, NEW t \in Request, NEW r \in SharedNs,
               Holds(q, r)', q < t, Terminates(t)'
        PROVE  Untouched(<<t, r>>)'
    <3>1. Terminates(t) /\ t # i /\ r \in Nsr
      BY <1>1, <1>11, <2>2 DEF Terminates, Instantiates, Nsr
    <3>2. Untouched(<<t, r>>)
      <4>1. CASE Holds(q, r)
        BY <2>2, <3>1, <4>1 DEF Sound, Reliance
      <4>2. CASE r = s /\ q = u
        BY <1>15, <2>2, <3>1, <4>2 DEF Request, NoRequest
      <4> QED  BY <2>1, <2>2, <4>1, <4>2
    <3> QED  BY <1>14, <3>1, <3>2 DEF Untouched
  <2>3. ASSUME NEW j \in Request, NEW r \in SharedNs, Instantiates(j)',
               req'[j].pc \in {"own", "sent"},
               r \in nsi'[req'[j].slice].list, req'[j].ops[r] # NoRequest
        PROVE  nsi'[req'[j].slice].uses[r] # NoRequest
    <3>0. r \in Nsr
      BY DEF Nsr
    <3>1. CASE j = i
      <4>1. r = s
        BY <1>2, <1>3, <1>6, <1>13, <2>3, <3>1
      <4> QED  BY <1>1, <1>2, <2>3, <3>0, <3>1, <4>1
    <3>2. CASE j # i
      <4>1. /\ req'[j] = req[j] /\ req[j].slice \in Slice /\ Instantiates(j)
        BY <1>11, <2>3, <3>2
      <4>2. r \in nsi[req[j].slice].list
        BY <1>13, <2>3, <4>1
      <4>3. nsi[req[j].slice].uses[r] # NoRequest
        BY <2>3, <4>1, <4>2 DEF Sound, Reliance
      <4>4. CASE req[j].slice = n
        BY <1>1, <3>0, <4>1, <4>3, <4>4
      <4>5. CASE req[j].slice # n
        BY <1>13, <4>1, <4>3, <4>5
      <4> QED  BY <4>4, <4>5
    <3> QED  BY <3>1, <3>2
  <2>4. \A j \in Request : req'[j].pc # "act"
    BY <1>1, <1>11 DEF Open
  <2> QED  BY <2>2, <2>3, <2>4 DEF Reliance
<1>17. Links(i)
  <2>1. Shared(nsi[n].list) \subseteq {s}
    BY <1>6 DEF Shared
  <2>2. ~Terminates(i)
    BY <1>1 DEF Instantiates, Terminates
  <2> QED  BY <1>1, <2>1, <2>2 DEF Links
<1>18. UsesUnshaken(i)
  <2>1. ASSUME NEW r \in nsi[n].list, req'[i].ops[r] # NoRequest
        PROVE  req'[i].ops[r] \in Request /\ Unshaken(req'[i].ops[r], r)
    <3>1. r \in Nsr /\ r \in SharedNs \cup {n}
      BY <1>3 DEF Typed, TypeOK, SliceRec, Sound, Lists, Listable
    <3>2. CASE r = s
      <4>1. req'[i].ops[r] = u
        BY <1>1, <3>1, <3>2
      <4> QED  BY <1>15, <2>1, <3>2, <4>1 DEF Unshaken, Untouched
    <3>3. CASE r # s
      <4>1. r \in Slice /\ req'[i].ops[r] = req[i].ops[r]
        BY <1>1, <1>3, <1>6, <3>1, <3>3
      <4>2. req'[i].ops[r] = i
        BY <2>1, <3>1, <4>1 DEF Sound, OpsKnown
      <4> QED  BY <1>12, <3>1, <4>2 DEF Unshaken, Untouched
    <3> QED  BY <3>2, <3>3
  <2> QED  BY <2>1 DEF UsesUnshaken
<1>19. VldKnown'
  BY <1>8, <1>17, RequestKeepsVld
<1>20. Keeping'
  BY <1>8, <1>18, RequestKeepsKeeping
<1> QED  BY <1>10, <1>16, <1>19, <1>20 DEF Sound

\* A termination lets the shared NS go, or leaves it to the slice that uses it.
LEMMA ShareTerminateKeeps ==
    ASSUME Typed, Sound, Undisturbed', NEW i \in Request, req[i].pc = "act",
           NEW s \in SharedNs, s \in req[i].read.list, ShareTerminate(i, s),
           UNCHANGED <<nsr, handler>>
    PROVE  Sound'
<1> DEFINE n == req[i].slice
           R == IF req[i].found # NoRequest THEN {} ELSE {s}
<1>1. /\ Undisturbed /\ Terminates(i)
      /\ req'[i].pc = "own" /\ SameButFound(i)
      /\ \A r \in Nsr : req'[i].ops[r] = IF r \in R /\ Exist(r)
                                           THEN i ELSE req[i].ops[r]
      /\ nsi'[n].life = nsi[n].life /\ nsi'[n].list = nsi[n].list
      /\ nsi'[n].shown = nsi[n].shown
      /\ nsi'[n].instantiated = nsi[n].instantiated
      /\ nsi'[n].vld = nsi[n].vld
      /\ \A r \in Nsr : nsi'[n].uses[r] = IF r = s THEN NoRequest
                                                   ELSE nsi[n].uses[r]
      /\ Created(i, R)
      /\ marks' = marks /\ OnlyReq(i) /\ OnlySlice(n)
  BY ShareTerminateDoes
<1>2. /\ req'[i].slice = n /\ req'[i].kind = req[i].kind
      /\ req'[i].read = req[i].read
  BY <1>1 DEF SameButFound
<1>3. n \in Slice /\ s \in Nsr /\ Open(i)
  BY DEF Nsr, Open, Typed, SliceKnown
<1>4. R \subseteq {s} /\ (R # {} => req[i].found = NoRequest)
  OBVIOUS
<1> HIDE DEF R
<1>5. RequestStep(i, R)
  <2>1. \A r \in Nsr :
            \/ req'[i].ops[r] = req[i].ops[r]
            \/ req'[i].ops[r] = i /\ r \in SharedNs \cup {n}
    BY <1>1, <1>4
  <2>2. \A r \in Nsr : nsi'[n].uses[r] \in {nsi[n].uses[r], NoRequest}
    BY <1>1
  <2>3. R \subseteq SharedNs \cup {n}
    BY <1>4
  <2> QED  BY <1>1, <1>2, <1>3, <2>1, <2>2, <2>3 DEF RequestStep
<1>6. RequestFact(i, R)
  BY <1>5, RequestFacts
<1>7. /\ InTurn' /\ Alive' /\ TasksInTurn' /\ Lists' /\ OpsKnown'
      /\ NssInTurn' /\ KindsInTurn' /\ OpsInTurn'
  BY <1>5, RequestKeeps
<1>8. \A j \in Request :
          /\ req'[j].slice = req[j].slice
          /\ Instantiates(j)' <=> Instantiates(j)
          /\ Terminates(j)' <=> Terminates(j)
          /\ j # i => req'[j] = req[j] /\ ~Open(j)
          /\ i < j => req[j].pc = "free"
          /\ req[j].pc # "free" => req[j].slice \in Slice
  BY <1>6 DEF RequestFact
<1>9. \A m \in Slice :
          /\ nsi'[m].life = nsi[m].life /\ nsi'[m].list = nsi[m].list
          /\ m # n => nsi'[m] = nsi[m]
  BY <1>1, <1>6 DEF RequestFact, OnlySlice
<1>10. \A m \in Slice, r \in Nsr :
           nsi'[m].uses[r] # nsi[m].uses[r] => nsi'[m].uses[r] = NoRequest
  BY <1>1, <1>9
<1>11. ASSUME NEW j \in Request, Instantiates(j), req[j].pc \in {"own", "sent"}
       PROVE  /\ req[j].slice \in Slice \ {n} /\ There(req[j].slice)
              /\ req'[j] = req[j]
  <2>1. j # i
    BY <1>1, <1>11 DEF Instantiates, Terminates
  <2>2. req'[j] = req[j] /\ ~Open(j) /\ ~(i < j)
    BY <1>8, <1>11, <2>1
  <2>3. j < i
    BY <2>1, <2>2 DEF Request
  <2>4. req[j].slice # n
    <3>1. ~Instantiates(i) /\ req[i].pc # "free"
      BY <1>1 DEF Instantiates, Terminates
    <3> QED  BY <1>11, <2>3, <3>1 DEF Sound, KindsInTurn
  <2>5. req[j].slice \in Slice /\ There(req[j].slice)
    BY <1>8, <1>11 DEF Sound, Alive, Active
  <2> QED  BY <2>2, <2>4, <2>5
<1>12. ASSUME NEW j \in Request, Instantiates(j)', req'[j].pc \in {"own", "sent"}
       PROVE  Instantiates(j) /\ req[j].pc \in {"own", "sent"}
  <2>1. j # i
    BY <1>1, <1>8, <1>12 DEF Instantiates, Terminates
  <2> QED  BY <1>8, <1>12, <2>1
<1>13. Reliance'
  <2>1. ASSUME NEW q \in Request, NEW r \in SharedNs, Holds(q, r)'
        PROVE  /\ Holds(q, r)
               /\ \/ \E m \in Slice \ {n} :
                         There(m) /\ r \in nsi[m].list /\ nsi[m].uses[r] = q
                  \/ r # s
                  \/ \E m \in Slice \ {n} :
                         There(m) /\ r \in nsi[m].list
                         /\ nsi[m].uses[r] # NoRequest
    <3>0. r \in Nsr /\ q # NoRequest
      BY DEF Nsr, Request, NoRequest
    <3>1. CASE \E m \in Slice :
                  There(m)' /\ r \in nsi'[m].list /\ nsi'[m].uses[r] = q
      <4>1. PICK m \in Slice :
                There(m)' /\ r \in nsi'[m].list /\ nsi'[m].uses[r] = q
        BY <3>1
      <4>2. There(m) /\ r \in nsi[m].list /\ nsi[m].uses[r] = q
        BY <1>9, <1>10, <3>0, <4>1 DEF There
      <4>3. m # n \/ r # s
        BY <1>1, <3>0, <4>1
      <4> QED  BY <4>2, <4>3 DEF Holds
    <3>2. CASE \E j \in Request :
                  /\ Instantiates(j)' /\ req'[j].pc \in {"own", "sent"}
                  /\ r \in nsi'[req'[j].slice].list /\ req'[j].ops[r] = q
      <4>1. PICK j \in Request :
                /\ Instantiates(j)' /\ req'[j].pc \in {"own", "sent"}
                /\ r \in nsi'[req'[j].slice].list /\ req'[j].ops[r] = q
        BY <3>2
      <4>2. Instantiates(j) /\ req[j].pc \in {"own", "sent"}
        BY <1>12, <4>1
      <4>3. /\ req[j].slice \in Slice \ {n} /\ There(req[j].slice)
            /\ req'[j] = req[j]
        BY <1>11, <4>2
      <4>4. r \in nsi[req[j].slice].list /\ req[j].ops[r] = q
        BY <1>9, <4>1, <4>3
      <4>5. nsi[req[j].slice].uses[r] # NoRequest
        BY <3>0, <4>2, <4>4 DEF Sound, Reliance
      <4> QED  BY <4>2, <4>3, <4>4, <4>5 DEF Holds
    <3>3. CASE \E j \in Request :
                  /\ Instantiates(j)' /\ req'[j].pc = "act"
                  /\ r \in req'[j].read.list /\ req'[j].found = q
      BY <1>1, <1>8, <3>3 DEF Open
    <3> QED  BY <2>1, <3>1, <3>2, <3>3 DEF Holds
  <2>2. ASSUME NEW q \in Request, NEW t \in Request, NEW r \in SharedNs,
               Holds(q, r)', q < t, Terminates(t)'
        PROVE  Untouched(<<t, r>>)'
    <3>0. r \in Nsr /\ q # NoRequest
      BY DEF Nsr, Request, NoRequest
    <3>1. Terminates(t) /\ Holds(q, r)
      BY <1>8, <2>1, <2>2
    <3>2. Untouched(<<t, r>>)
      BY <2>2, <3>1 DEF Sound, Reliance
    <3>3. nslcmop'[<<t, r>>] = nslcmop[<<t, r>>]
      <4>1. CASE t = i /\ r \in R
        <5>1. r = s /\ req[i].found = NoRequest
          BY <1>4, <4>1
        <5>2. \E m \in Slice \ {n} :
                  There(m) /\ r \in nsi[m].list /\ nsi[m].uses[r] # NoRequest
          BY <2>1, <2>2, <3>0, <5>1
        <5>3. \A m \in OthersListing(n, r) : nsi[m].uses[r] = NoRequest
          BY <1>1, <5>1 DEF Sound, Reliance
        <5> QED  BY <5>2, <5>3 DEF OthersListing
      <4>2. CASE ~(t = i /\ r \in R)
        BY <1>1, <3>0, <4>2 DEF Created
      <4> QED  BY <4>1, <4>2
    <3> QED  BY <3>2, <3>3 DEF Untouched
  <2>3. ASSUME NEW j \in Request, NEW r \in SharedNs, Instantiates(j)',
               req'[j].pc \in {"own", "sent"},
               r \in nsi'[req'[j].slice].list, req'[j].ops[r] # NoRequest
        PROVE  nsi'[req'[j].slice].uses[r] # NoRequest
    <3>1. Instantiates(j) /\ req[j].pc \in {"own", "sent"}
      BY <1>12, <2>3
    <3>2. req[j].slice \in Slice \ {n} /\ req'[j] = req[j]
      BY <1>11, <3>1
    <3>3. nsi'[req[j].slice] = nsi[req[j].slice]
      BY <1>9, <3>2
    <3> QED  BY <2>3, <3>1, <3>2, <3>3 DEF Sound, Reliance
  <2>4. \A j \in Request : req'[j].pc # "act"
    BY <1>1, <1>8 DEF Open
  <2> QED  BY <2>2, <2>3, <2>4 DEF Reliance
<1>14. Links(i)
  <2>1. ASSUME NEW r \in SharedNs, req'[i].ops[r] # NoRequest
        PROVE  r \in nsi[n].vld
    <3>0. r \in Nsr
      BY DEF Nsr
    <3>1. CASE r = s
      BY <1>1, <1>3, <3>1 DEF Sound, VldKnown, Shared
    <3>2. CASE r # s
      BY <1>1, <1>3, <1>4, <2>1, <3>0, <3>2 DEF Sound, VldKnown, Active
    <3> QED  BY <3>1, <3>2
  <2>2. ~Instantiates(i)
    BY <1>1 DEF Instantiates, Terminates
  <2> QED  BY <2>1, <2>2 DEF Links
<1>15. UsesUnshaken(i)
  BY <1>1 DEF UsesUnshaken, Instantiates, Terminates
<1>16. VldKnown'
  BY <1>5, <1>14, RequestKeepsVld
<1>17. Keeping'
  BY <1>5, <1>15, RequestKeepsKeeping
<1> QED  BY <1>7, <1>13, <1>16, <1>17 DEF Sound

LEMMA ActSharedKeeps ==
    ASSUME Typed, Sound, Undisturbed', NEW i \in Request, ActShared(i)
    PROVE  Sound'
<1>1. /\ req[i].pc = "act" /\ UNCHANGED <<nsr, handler>>
      /\ \E s \in Shared(req[i].read.list) :
             ShareInstantiate(i, s) \/ ShareTerminate(i, s)
  BY DEF ActShared
<1>2. PICK s \in SharedNs :
          /\ s \in req[i].read.list
          /\ ShareInstantiate(i, s) \/ ShareTerminate(i, s)
  BY <1>1 DEF Shared
<1>3. CASE ShareInstantiate(i, s)
  BY <1>1, <1>2, <1>3, ShareInstantiateKeeps
<1>4. CASE ShareTerminate(i, s)
  BY <1>1, <1>2, <1>4, ShareTerminateKeeps
<1> QED  BY <1>2, <1>3, <1>4

\* The request is answered: the slice operation begins.
LEMMA SendKeeps ==
    ASSUME Typed, Sound, NEW i \in Request, req[i].pc = "own",
           req'[i].slice = req[i].slice, req'[i].kind = req[i].kind,
           req'[i].pc = "sent", req'[i].state = "PROCESSING",
           Created(i, {req[i].slice} \cap req[i].read.list),
           \A r \in Nsr :
               req'[i].ops[r] =
                   IF r \in {req[i].slice} \cap req[i].read.list /\ Exist(r)
                     THEN i ELSE req[i].ops[r],
           OnlyReq(i), UNCHANGED <<nsi, nsr, handler, marks>>
    PROVE  Sound'
<1> DEFINE n == req[i].slice
           R == {n} \cap req[i].read.list
<1>1. /\ \A r \in Nsr : req'[i].ops[r] = IF r \in R /\ Exist(r)
                                           THEN i ELSE req[i].ops[r]
      /\ Created(i, R)
  OBVIOUS
<1>2. n \in Slice /\ n \notin SharedNs /\ Open(i) /\ ~Open(i)' /\ R \subseteq {n}
  BY SliceAssumption DEF Open, Typed, SliceKnown
<1> HIDE DEF R
<1>3. RequestStep(i, R)
  <2>1. /\ OnlySlice(n)
        /\ nsi'[n].life = nsi[n].life /\ nsi'[n].list = nsi[n].list
        /\ nsi'[n].shown = nsi[n].shown
        /\ nsi'[n].instantiated = nsi[n].instantiated
        /\ nsi[n].vld \subseteq nsi'[n].vld
        /\ \A r \in Nsr : nsi'[n].uses[r] \in {nsi[n].uses[r], NoRequest}
    BY DEF OnlySlice
  <2>2. \A r \in Nsr :
            \/ req'[i].ops[r] = req[i].ops[r]
            \/ req'[i].ops[r] = i /\ r \in SharedNs \cup {n}
    BY <1>1, <1>2
  <2>3. R \subseteq SharedNs \cup {n}
    BY <1>2
  <2> QED  BY <1>1, <1>2, <2>1, <2>2, <2>3 DEF RequestStep
<1>4. RequestFact(i, R)
  BY <1>3, RequestFacts
<1>5. /\ InTurn' /\ Alive' /\ TasksInTurn' /\ Lists' /\ OpsKnown'
      /\ NssInTurn' /\ KindsInTurn' /\ OpsInTurn'
  BY <1>3, RequestKeeps
<1>6. \A j \in Request :
          /\ req'[j].slice = req[j].slice
          /\ Instantiates(j)' <=> Instantiates(j)
          /\ Terminates(j)' <=> Terminates(j)
          /\ j # i => req'[j] = req[j] /\ ~Open(j)
          /\ req'[j].pc \in {"own", "sent"} => req[j].pc \in {"own", "sent"}
          /\ req'[j].pc # "act"
  BY <1>4 DEF RequestFact, Open
<1>7. \A t \in Request, r \in Nsr : i < t => Untouched(<<t, r>>)
  BY <1>4 DEF RequestFact
<1>8. \A j \in Request, r \in SharedNs : req'[j].ops[r] = req[j].ops[r]
  BY <1>1, <1>2, <1>6 DEF Nsr
<1>9. \A t \in Request, r \in SharedNs :
          nslcmop'[<<t, r>>] = nslcmop[<<t, r>>]
  BY <1>1, <1>2 DEF Created, Nsr
<1>10. \A q \in Request, r \in SharedNs : Holds(q, r)' => Holds(q, r)
  BY <1>6, <1>8 DEF Holds, There
<1>11. Reliance'
  <2>1. ASSUME NEW q \in Request, NEW t \in Request, NEW r \in SharedNs,
               Holds(q, r)', q < t, Terminates(t)'
        PROVE  Untouched(<<t, r>>)'
    <3>1. Untouched(<<t, r>>)
      BY <1>6, <1>10, <2>1 DEF Sound, Reliance
    <3> QED  BY <1>9, <3>1 DEF Untouched
  <2>2. ASSUME NEW j \in Request, NEW r \in SharedNs, Instantiates(j)',
               req'[j].pc \in {"own", "sent"},
               r \in nsi'[req'[j].slice].list, req'[j].ops[r] # NoRequest
        PROVE  nsi'[req'[j].slice].uses[r] # NoRequest
    BY <1>6, <1>8, <2>2 DEF Sound, Reliance
  <2> QED  BY <1>6, <2>1, <2>2 DEF Reliance
<1>12. Links(i)
  BY <1>2, <1>8 DEF Links, Sound, VldKnown, Active
<1>13. UsesUnshaken(i)
  <2>1. ASSUME Instantiates(i), NEW r \in nsi[n].list,
               req'[i].ops[r] # NoRequest
        PROVE  req'[i].ops[r] \in Request /\ Unshaken(req'[i].ops[r], r)
    <3>1. r \in Nsr
      BY <1>2 DEF Typed, TypeOK, SliceRec
    <3>2. CASE r \in R /\ Exist(r)
      BY <1>1, <1>7, <3>1, <3>2 DEF Unshaken, Untouched
    <3>3. CASE ~(r \in R /\ Exist(r))
      <4>1. req'[i].ops[r] = req[i].ops[r]
        BY <1>1, <3>1, <3>3
      <4>2. req[i].ops[r] \in Request
        BY <2>1, <3>1, <4>1 DEF Typed, TypeOK, ReqRec, OpFun
      <4>3. Unshaken(req[i].ops[r], r)
        BY <2>1, <4>1 DEF Sound, Keeping
      <4> QED  BY <4>1, <4>2, <4>3
    <3> QED  BY <3>2, <3>3
  <2> QED  BY <2>1 DEF UsesUnshaken
<1>14. VldKnown'
  BY <1>3, <1>12, RequestKeepsVld
<1>15. Keeping'
  BY <1>3, <1>13, RequestKeepsKeeping
<1> QED  BY <1>5, <1>11, <1>14, <1>15 DEF Sound

\* The request fails, before it has touched a shared NS.
LEMMA RefusedKeeps ==
    ASSUME Typed, Sound, NEW i \in Request, req[i].pc = "own",
           req'[i].slice = req[i].slice, req'[i].kind = req[i].kind,
           req'[i].pc = "over", req'[i].ops = NoUse,
           \A o \in Request \X Nsr :
               /\ nslcmop'[o].run = nslcmop[o].run
               /\ nslcmop'[o].state = IF o[1] = i THEN "none"
                                        ELSE nslcmop[o].state,
           OnlyReq(i), UNCHANGED <<nsi, nsr, handler, marks>>
    PROVE  Sound'
<1>1. Open(i) /\ ~Open(i)'
  BY DEF Open
<1>2. \A r \in Nsr : req'[i].ops[r] = NoRequest
  BY DEF NoUse
<1>3. \A j \in Request : j # i => req'[j] = req[j]
  BY DEF OnlyReq
<1>4. \A j \in Request :
          /\ req'[j].slice = req[j].slice /\ req'[j].kind = req[j].kind
          /\ Instantiates(j)' <=> Instantiates(j)
          /\ Terminates(j)' <=> Terminates(j)
          /\ req'[j].pc = "free" <=> req[j].pc = "free"
          /\ req'[j].pc \notin {"over", "free"} => j # i /\ req'[j] = req[j]
          /\ Open(j)' => Open(j)
          /\ Active(j)' => Active(j) /\ j # i
          /\ Working(j)' <=> Working(j)
          /\ req[j].pc = "over" => req'[j].pc = "over"
          /\ \A r \in Nsr :
                 req'[j].ops[r] # NoRequest => req'[j].ops[r] = req[j].ops[r]
  BY <1>2, <1>3 DEF Instantiates, Terminates, Open, Active, Working
<1>5. \A j \in Request : Asked(j)' <=> Asked(j)
  BY <1>4 DEF Asked
<1>6. \A t \in Request, r \in Nsr :
          /\ nslcmop'[<<t, r>>].run = nslcmop[<<t, r>>].run
          /\ nslcmop'[<<t, r>>].state =
                 IF t = i THEN "none" ELSE nslcmop[<<t, r>>].state
  OBVIOUS
<1>7. \A r \in Nsr : /\ nslcmop[<<i, r>>].run = "no"
                     /\ nslcmop[<<i, r>>].state \in {"none", "PROCESSING"}
  BY <1>1 DEF Sound, OpsKnown
<1>8. \A t \in Request, r \in Nsr :
          /\ nslcmop'[<<t, r>>].state = "COMPLETED"
                 <=> nslcmop[<<t, r>>].state = "COMPLETED"
          /\ Untouched(<<t, r>>) => Untouched(<<t, r>>)'
          /\ nslcmop[<<t, r>>].run # "no" => t # i
          /\ nslcmop'[<<t, r>>].state = "PROCESSING"
                 => t # i /\ nslcmop[<<t, r>>].state = "PROCESSING"
  BY <1>6, <1>7 DEF Untouched
<1>9. nsi' = nsi /\ nsr' = nsr /\ handler' = handler /\ marks' = marks
  OBVIOUS
<1>10. \A j \in Request : req[j].pc # "free" => req[j].slice \in Slice
  BY DEF Typed, SliceKnown
<1>11. InTurn'
  BY <1>4, <1>9 DEF Sound, InTurn
<1>12. Alive'
  <2>1. ASSUME NEW j \in Request
        PROVE  /\ Active(j)' => /\ There(req[j].slice)'
                                /\ handler'[req[j].slice].pc = "idle"
               /\ req'[j].pc # "free" => nsi'[req[j].slice].life # "new"
               /\ req'[j].pc \in {"sent", "poll", "write"}
                      => req'[j].state = "PROCESSING"
    BY <1>4, <1>9 DEF Sound, Alive, There
  <2>2. \A m \in Slice :
            /\ nsi'[m].life = "new" => nsi'[m] = NewSlice
            /\ handler'[m].pc = "new" => nsi'[m].life = "new"
            /\ handler'[m].pc \in {"shared", "own"} => ~There(m)'
            /\ handler'[m].pc # "idle" => ~nsi'[m].instantiated
    BY <1>9 DEF Sound, Alive, There
  <2>3. \A j \in Request : req'[j].slice = req[j].slice
    BY <1>4
  <2> QED  BY <2>1, <2>2, <2>3 DEF Alive
<1>13. TasksInTurn'
  BY <1>4, <1>6 DEF Sound, TasksInTurn
<1>14. Lists'
  <2>1. \A m \in Slice :
            /\ Listable(m, nsi[m].list)' /\ Listable(m, handler[m].list)'
            /\ There(m)' => \A r \in nsi'[m].list : Exist(r)'
            /\ handler'[m].pc = "new" => \A r \in handler'[m].list : Exist(r)'
    BY <1>9 DEF Sound, Lists, Listable, Shared, There, Exist
  <2>2. ASSUME NEW j \in Request, Open(j)'
        PROVE  FALSE
    <3>1. Open(j) /\ j # i
      BY <1>1, <1>4, <2>2
    <3>2. CASE i < j
      BY <1>1, <3>1, <3>2 DEF Sound, InTurn, Open
    <3>3. CASE j < i
      BY <1>1, <3>1, <3>3 DEF Sound, InTurn, Open
    <3> QED  BY <3>1, <3>2, <3>3 DEF Request
  <2>3. ASSUME NEW j \in Request, req'[j].pc = "write"
        PROVE  /\ req'[j].read.list \subseteq nsi'[req[j].slice].list
               /\ \A r \in Nsr \ req'[j].read.list :
                      req'[j].read.uses[r] = NoRequest
    BY <1>4, <1>9, <2>3 DEF Sound, Lists
  <2>4. \A j \in Request : req'[j].slice = req[j].slice
    BY <1>4
  <2> QED  BY <2>1, <2>2, <2>3, <2>4 DEF Lists
<1>15. OpsKnown'
  <2>1. ASSUME NEW j \in Request, NEW r \in Nsr, req'[j].ops[r] # NoRequest
        PROVE  /\ req'[j].pc # "free" /\ r \in SharedNs \cup {req'[j].slice}
               /\ r \in Slice \/ Terminates(j)' => req'[j].ops[r] = j
               /\ Instantiates(j)' => Asked(req[j].ops[r])'
    <3>1. /\ req[j].pc # "free" /\ r \in SharedNs \cup {req[j].slice}
          /\ r \in Slice \/ Terminates(j) => req[j].ops[r] = j
          /\ Instantiates(j) => Asked(req[j].ops[r])
      BY <1>4, <2>1 DEF Sound, OpsKnown
    <3>2. req'[j].ops[r] \in Request /\ req'[j].ops[r] = req[j].ops[r]
      BY <1>4, <2>1 DEF Typed, TypeOK, ReqRec, OpFun
    <3>3. Instantiates(j)' => /\ req'[req'[j].ops[r]].kind = "instantiate"
                              /\ req'[req'[j].ops[r]].pc # "free"
      BY <1>4, <3>1, <3>2 DEF Asked, Instantiates
    <3> QED  BY <1>4, <3>1, <3>2, <3>3 DEF Asked, Instantiates
  <2>2. ASSUME NEW m \in Slice, NEW r \in Nsr, nsi'[m].uses[r] # NoRequest
        PROVE  Asked(nsi[m].uses[r])'
    <3>1. nsi[m].uses[r] \in Request /\ Asked(nsi[m].uses[r])
      BY <1>9, <2>2 DEF Typed, TypeOK, SliceRec, OpFun, Sound, OpsKnown
    <3>2. /\ req'[nsi[m].uses[r]].kind = "instantiate"
          /\ req'[nsi[m].uses[r]].pc # "free"
      BY <1>4, <3>1 DEF Asked, Instantiates
    <3> QED  BY <1>9, <3>2 DEF Asked, Instantiates
  <2>3. ASSUME NEW j \in Request, req'[j].pc = "act", req'[j].found # NoRequest
        PROVE  Asked(req[j].found)'
    <3>1. req'[j] = req[j]
      BY <1>4, <2>3
    <3>2. req[j].found \in Request /\ Asked(req[j].found)
      BY <2>3, <3>1 DEF Typed, TypeOK, ReqRec, Sound, OpsKnown
    <3>3. /\ req'[req[j].found].kind = "instantiate"
          /\ req'[req[j].found].pc # "free"
      BY <1>4, <3>2 DEF Asked, Instantiates
    <3> QED  BY <3>1, <3>3 DEF Asked, Instantiates
  <2>4. ASSUME NEW j \in Request, NEW r \in Nsr
        PROVE  /\ req'[j].pc = "free" => Untouched(<<j, r>>)'
               /\ Open(j)' => /\ nslcmop'[<<j, r>>].run = "no"
                              /\ nslcmop'[<<j, r>>].state
                                     \in {"none", "PROCESSING"}
               /\ Terminates(j)' /\ req'[j].pc \in {"look", "act", "own", "sent"}
                      => nslcmop'[<<j, r>>].run = "no"
               /\ ~Untouched(<<j, r>>)' /\ r \in Slice => r = req'[j].slice
               /\ nslcmop'[<<j, r>>].state \in {"COMPLETED", "FAILED"}
                      <=> /\ nslcmop'[<<j, r>>].run = "over"
                          /\ nslcmop'[<<j, r>>].state # "none"
               /\ Processing(<<j, r>>)' => Exist(r)'
               /\ nslcmop'[<<j, r>>].run = "work"
                      => Processing(<<j, r>>)' \/ nsr'[r] = "gone"
    <3>1. /\ req[j].pc = "free" => Untouched(<<j, r>>)
          /\ Open(j) => /\ nslcmop[<<j, r>>].run = "no"
                        /\ nslcmop[<<j, r>>].state \in {"none", "PROCESSING"}
          /\ Terminates(j) /\ req[j].pc \in {"look", "act", "own", "sent"}
                 => nslcmop[<<j, r>>].run = "no"
          /\ ~Untouched(<<j, r>>) /\ r \in Slice => r = req[j].slice
          /\ nslcmop[<<j, r>>].state \in {"COMPLETED", "FAILED"}
                 <=> /\ nslcmop[<<j, r>>].run = "over"
                     /\ nslcmop[<<j, r>>].state # "none"
          /\ Processing(<<j, r>>) => Exist(r)
          /\ nslcmop[<<j, r>>].run = "work"
                 => Processing(<<j, r>>) \/ nsr[r] = "gone"
      BY DEF Sound, OpsKnown
    <3>2. CASE j = i
      BY <1>1, <1>4, <1>6, <1>7, <3>2 DEF Untouched, Processing, Open
    <3>3. CASE j # i
      <4>1. /\ nslcmop'[<<j, r>>].run = nslcmop[<<j, r>>].run
            /\ nslcmop'[<<j, r>>].state = nslcmop[<<j, r>>].state
            /\ req'[j] = req[j] /\ nsr' = nsr
        BY <1>3, <1>6, <3>3
      <4> QED
        BY <3>1, <4>1 DEF Untouched, Processing, Exist, Open, Terminates
    <3> QED  BY <3>2, <3>3
  <2> QED  BY <2>1, <2>2, <2>3, <2>4 DEF OpsKnown
<1>16. \A q \in Request, r \in Nsr : Unshaken(q, r)' <=> Unshaken(q, r)
  BY <1>4, <1>6 DEF Unshaken
<1>17. NssInTurn'
  <2>1. ASSUME NEW q \in Request, NEW r \in Nsr, Runs(q, r)'
        PROVE  /\ \A t \in Request : t < q /\ Terminates(t)' => ~Pending(t, r)'
               /\ Unshaken(q, r)' => nsr'[r] \in {"instantiated", "gone"}
    <3>1. Runs(q, r)
      BY <1>4, <1>6, <1>8, <2>1 DEF Runs
    <3>2. \A t \in Request : Pending(t, r)' => Pending(t, r)
      <4>1. ASSUME NEW t \in Request, Pending(t, r)'
            PROVE  Pending(t, r)
        <5>1. t # i /\ Processing(<<t, r>>)
          BY <1>8, <4>1 DEF Pending, Processing
        <5> QED  BY <1>3, <1>6, <4>1, <5>1 DEF Pending, NsStuck
      <4> QED  BY <4>1
    <3> QED  BY <1>4, <1>9, <1>16, <3>1, <3>2 DEF Sound, NssInTurn
  <2> QED  BY <2>1 DEF NssInTurn
<1>18. Reliance'
  <2>1. \A q \in Request, r \in SharedNs : Holds(q, r)' => Holds(q, r)
    BY <1>4, <1>9 DEF Holds, There
  <2>2. ASSUME NEW q \in Request, NEW t \in Request, NEW r \in SharedNs,
               Holds(q, r)', q < t, Terminates(t)'
        PROVE  Untouched(<<t, r>>)'
    BY <1>4, <1>8, <2>1, <2>2 DEF Sound, Reliance, Nsr
  <2>3. ASSUME NEW j \in Request, NEW r \in SharedNs, Instantiates(j)',
               req'[j].pc \in {"own", "sent"},
               r \in nsi'[req'[j].slice].list, req'[j].ops[r] # NoRequest
        PROVE  nsi'[req'[j].slice].uses[r] # NoRequest
    BY <1>4, <1>9, <2>3 DEF Sound, Reliance
  <2>4. ASSUME NEW j \in Request, req'[j].pc = "act"
        PROVE  FALSE
    <3>1. Open(j) /\ j # i
      BY <1>4, <2>4 DEF Open
    <3>2. CASE i < j
      BY <1>1, <3>1, <3>2 DEF Sound, InTurn, Open
    <3>3. CASE j < i
      BY <1>1, <3>1, <3>3 DEF Sound, InTurn, Open
    <3> QED  BY <3>1, <3>2, <3>3 DEF Request
  <2> QED  BY <2>2, <2>3, <2>4 DEF Reliance
<1>19. KindsInTurn'
  <2>1. \A j \in Request :
            req'[j].pc \in {"look", "act", "own", "sent"}
                => req[j].pc \in {"look", "act", "own", "sent"}
    BY <1>4
  <2>2. ASSUME NEW j \in Request, NEW t \in Request, Instantiates(j)',
               req'[j].pc \in {"look", "act", "own", "sent"}, j < t,
               req'[t].slice = req'[j].slice, req'[t].pc # "free"
        PROVE  Instantiates(t)'
    BY <1>4, <2>1, <2>2 DEF Sound, KindsInTurn
  <2>3. ASSUME NEW j \in Request, Instantiates(j)',
               req'[j].pc \in {"look", "act", "own", "sent"},
               "repeated" \notin marks'
        PROVE  ~nsi'[req'[j].slice].instantiated
    BY <1>4, <1>9, <2>1, <2>3 DEF Sound, KindsInTurn
  <2>4. ASSUME NEW j \in Request, NEW q \in Request, j # q, Active(j)',
               Active(q)', req'[j].slice = req'[q].slice,
               req'[j].kind = req'[q].kind
        PROVE  "repeated" \in marks'
    BY <1>4, <1>9, <2>4 DEF Sound, KindsInTurn
  <2> QED  BY <2>2, <2>3, <2>4 DEF KindsInTurn
<1>20. VldKnown'
  <2>1. /\ \A m \in Slice :
               /\ There(m)' /\ nsi'[m].instantiated
                      => Shared(nsi'[m].list) \subseteq nsi'[m].vld
               /\ nsi'[m].shown \in {"init", "running"} => nsi'[m].instantiated
        /\ IsFiniteSet({m \in Slice : nsi'[m].life # "new"})
    BY <1>9 DEF Sound, VldKnown, There
  <2>2. ASSUME NEW j \in Request, Instantiates(j)', req'[j].pc \in {"own", "sent"}
        PROVE  Shared(nsi'[req'[j].slice].list) \subseteq nsi'[req'[j].slice].vld
    BY <1>4, <1>9, <2>2 DEF Sound, VldKnown
  <2>3. ASSUME NEW j \in Request, Terminates(j)', Open(j)'
        PROVE  Shared(req'[j].read.list) \subseteq nsi'[req'[j].slice].vld
    <3>1. req'[j] = req[j] /\ Open(j)
      BY <1>4, <2>3 DEF Open
    <3> QED  BY <1>4, <1>9, <2>3, <3>1 DEF Sound, VldKnown
  <2>4. ASSUME NEW j \in Request, Terminates(j)', Active(j)', NEW s \in SharedNs,
               req'[j].ops[s] # NoRequest
        PROVE  s \in nsi'[req'[j].slice].vld
    BY <1>3, <1>4, <1>9, <2>4 DEF Sound, VldKnown
  <2>5. ASSUME NEW j \in Request, Working(j)'
        PROVE  nsi'[req'[j].slice].shown =
                   IF Instantiates(j)' THEN "init" ELSE "terminating"
    BY <1>4, <1>9, <2>5 DEF Sound, VldKnown
  <2> QED  BY <2>1, <2>2, <2>3, <2>4, <2>5 DEF VldKnown
<1>21. \A r \in Nsr : Kept(r) => Kept(r)'
  BY <1>4, <1>8, <1>16 DEF Kept
<1>22. Keeping'
  <2>1. ASSUME NEW m \in Slice, There(m)', nsi'[m].shown = "running",
               NEW r \in nsi'[m].list
        PROVE  Kept(r)'
    <3>1. r \in Nsr
      BY <1>9, <2>1 DEF Typed, TypeOK, SliceRec
    <3> QED  BY <1>9, <1>21, <2>1, <3>1 DEF Sound, Keeping, There
  <2>2. ASSUME NEW j \in Request, Instantiates(j)',
               req'[j].pc \in {"own", "sent", "poll", "write"},
               NEW r \in nsi'[req'[j].slice].list,
               req'[j].ops[r] # NoRequest
        PROVE  Unshaken(req[j].ops[r], r)'
    <3>1. req'[j] = req[j] /\ req[j].slice \in Slice /\ Instantiates(j)
      BY <1>4, <1>10, <2>2
    <3>2. r \in nsi[req[j].slice].list /\ r \in Nsr
      BY <1>9, <2>2, <3>1 DEF Typed, TypeOK, SliceRec
    <3>3. req[j].ops[r] \in Request
      BY <2>2, <3>1, <3>2 DEF Typed, TypeOK, ReqRec, OpFun
    <3>4. Unshaken(req[j].ops[r], r)
      BY <2>2, <3>1, <3>2 DEF Sound, Keeping
    <3>5. \A t \in Request : req[j].ops[r] < t /\ Terminates(t)'
              => nslcmop'[<<t, r>>].run = "no"
      BY <1>4, <1>6, <3>2, <3>4 DEF Unshaken
    <3> QED  BY <3>1, <3>5 DEF Unshaken
  <2>3. ASSUME NEW j \in Request, Instantiates(j)', req'[j].pc = "write",
               req'[j].read.all = "COMPLETED", NEW r \in req'[j].read.list
        PROVE  /\ req'[j].ops[r] # NoRequest
               /\ nslcmop'[<<req'[j].ops[r], r>>].state = "COMPLETED"
    <3>1. req'[j] = req[j] /\ Instantiates(j)
      BY <1>4, <2>3
    <3>2. r \in Nsr
      BY <2>3, <3>1 DEF Typed, TypeOK, ReqRec, ReadRec
    <3>3. /\ req[j].ops[r] # NoRequest
          /\ nslcmop[<<req[j].ops[r], r>>].state = "COMPLETED"
      BY <2>3, <3>1 DEF Sound, Keeping
    <3>4. req[j].ops[r] \in Request
      BY <3>2, <3>3 DEF Typed, TypeOK, ReqRec, OpFun
    <3> QED  BY <1>8, <3>1, <3>2, <3>3, <3>4
  <2> QED  BY <2>1, <2>2, <2>3 DEF Keeping
<1>23. OpsInTurn'
  <2>1. ASSUME NEW j \in Request, NEW r \in Nsr
        PROVE  req'[j].ops[r] <= j
    BY <1>2, <1>3 DEF Sound, OpsInTurn, Request, NoRequest
  <2> QED  BY <2>1 DEF OpsInTurn
<1> QED
  BY <1>11, <1>12, <1>13, <1>14, <1>15, <1>17, <1>18, <1>19, <1>20, <1>22,
     <1>23
  DEF Sound

LEMMA ActOwnKeeps ==
    ASSUME Typed, Sound, Undisturbed', NEW i \in Request, ActOwn(i)
    PROVE  Sound'
<1>1. /\ req[i].pc = "own"
      /\ req'[i].slice = req[i].slice /\ req'[i].kind = req[i].kind
      /\ OnlyReq(i) /\ UNCHANGED <<nsi, nsr, handler, marks>>
  BY ActOwnDoes
<1>2. \/ /\ req'[i].pc = "over" /\ req'[i].ops = NoUse
         /\ \A o \in Request \X Nsr :
                /\ nslcmop'[o].run = nslcmop[o].run
                /\ nslcmop'[o].state = IF o[1] = i THEN "none"
                                         ELSE nslcmop[o].state
      \/ /\ req'[i].pc = "sent" /\ req'[i].state = "PROCESSING"
         /\ \A r \in Nsr :
                req'[i].ops[r] =
                    IF r \in {req[i].slice} \cap req[i].read.list /\ Exist(r)
                      THEN i ELSE req[i].ops[r]
         /\ Created(i, {req[i].slice} \cap req[i].read.list)
  BY ActOwnDoes
<1> QED  BY <1>1, <1>2, RefusedKeeps, SendKeeps

-----------------------------------------------------------------------------
(* The invariant, and what follows from it                                  *)

LEMMA InitSound == Init => Sound
<1> SUFFICES ASSUME Init PROVE Sound
  OBVIOUS
<1>1. /\ \A i \in Request : /\ req[i].pc = "free" /\ req[i].state = "none"
                            /\ \A r \in Nsr : req[i].ops[r] = NoRequest
      /\ \A n \in Slice : /\ nsi[n] = NewSlice /\ nsi[n].life = "new"
                          /\ ~nsi[n].instantiated /\ nsi[n].shown = "none"
                          /\ nsi[n].list = {}
                          /\ \A r \in Nsr : nsi[n].uses[r] = NoRequest
      /\ \A n \in Slice : handler[n].pc = "idle" /\ handler[n].list = {}
      /\ \A i \in Request, r \in Nsr : /\ nslcmop[<<i, r>>].state = "none"
                                       /\ nslcmop[<<i, r>>].run = "no"
  BY DEF Init, NoReq, NewSlice, Idle, NoUse
<1>2. /\ \A i \in Request : ~Open(i) /\ ~Active(i) /\ ~Working(i)
      /\ \A n \in Slice : ~There(n)
  BY <1>1 DEF Open, Active, Working, There
<1>3. InTurn
  BY <1>1, <1>2 DEF InTurn
<1>4. Alive
  BY <1>1, <1>2 DEF Alive
<1>5. TasksInTurn
  BY <1>1, <1>2 DEF TasksInTurn
<1>6. Lists
  BY <1>1, <1>2 DEF Lists, Listable, Shared
<1>7. OpsKnown
  BY <1>1, <1>2 DEF OpsKnown, Untouched, Processing
<1>8. NssInTurn
  BY <1>1 DEF NssInTurn, Runs
<1>9. Reliance
  BY <1>1, <1>2 DEF Reliance, Holds
<1>10. KindsInTurn
  BY <1>1, <1>2 DEF KindsInTurn
<1>11. VldKnown
  <2>1. {n \in Slice : nsi[n].life # "new"} = {}
    BY <1>1
  <2>2. IsFiniteSet({n \in Slice : nsi[n].life # "new"})
    BY <2>1, FS_EmptySet
  <2> QED  BY <1>1, <1>2, <2>2 DEF VldKnown
<1>12. Keeping
  BY <1>1, <1>2 DEF Keeping
<1>13. OpsInTurn
  BY <1>1 DEF OpsInTurn, Request, NoRequest
<1> QED
  BY <1>3, <1>4, <1>5, <1>6, <1>7, <1>8, <1>9, <1>10, <1>11, <1>12, <1>13
  DEF Sound

\* What a careful client never sees is never forgotten.
LEMMA MarksGrow == [Next]_vars => marks \subseteq marks'
<1> SUFFICES ASSUME [Next]_vars PROVE marks \subseteq marks'
  OBVIOUS
<1>1. ASSUME NEW n \in Slice,
             FindShared(n) \/ RequestRemove(n) \/ HandlerStep(n) \/ AutoRemove(n)
      PROVE  marks \subseteq marks'
  BY <1>1 DEF FindShared, RequestRemove, CheckRemove, HandlerStep, CreateSlice,
     RemoveRecord, RemoveShared, RemoveOwn, AutoRemove
<1>2. ASSUME NEW i \in Request, NEW n \in Slice, NEW kind \in Kinds,
             NEW auto \in BOOLEAN, Ask(i, n, kind, auto)
      PROVE  marks \subseteq marks'
  BY <1>2 DEF Ask
<1>3. ASSUME NEW i \in Request, NbiStep(i)
      PROVE  marks \subseteq marks'
  BY <1>3 DEF NbiStep, LookShared, ActShared, ShareInstantiate, ShareTerminate,
     ActOwn
<1>4. ASSUME NEW i \in Request,
             LcmStep(i) \/ StartBeside(i) \/ GiveUp(i) \/ Late(i)
      PROVE  marks \subseteq marks'
  BY <1>4 DEF LcmStep, Start, StartBeside, Poll, Write, GiveUp, Late
<1>5. ASSUME NEW o \in Request \X Nsr,
             NsStep(o) \/ NsStartBeside(o) \/ NsFails(o) \/ NsGivesUp(o)
      PROVE  marks \subseteq marks'
  BY <1>5 DEF NsStep, NsStart, NsStartBeside, NsDone, NsFails, NsGivesUp
<1>6. CASE UNCHANGED vars
  BY <1>6 DEF vars
<1> QED  BY <1>1, <1>2, <1>3, <1>4, <1>5, <1>6 DEF Next, NbiRequest

\* What begins beside an operation that works on in silence disturbs.
LEMMA BesideDisturbs ==
    ASSUME Undisturbed'
    PROVE  /\ \A i \in Request : ~StartBeside(i)
           /\ \A o \in Request \X Nsr : ~NsStartBeside(o)
BY DEF Undisturbed, StartBeside, NsStartBeside

LEMMA NextKeeps ==
    Typed /\ (Undisturbed => Sound) /\ [Next]_vars => (Undisturbed => Sound)'
<1> SUFFICES ASSUME Typed, Undisturbed => Sound, [Next]_vars, Undisturbed'
             PROVE  Sound'
  OBVIOUS
<1>1. Sound
  BY MarksGrow DEF Undisturbed
<1>2. ASSUME NEW n \in Slice, FindShared(n)
      PROVE  Sound'
  BY <1>1, <1>2, FindSharedKeeps
<1>3. ASSUME NEW n \in Slice, RequestRemove(n)
      PROVE  Sound'
  BY <1>1, <1>3, CheckRemoveKeeps DEF RequestRemove
<1>4. ASSUME marks \subseteq {"together"}, NEW i \in Request, NEW n \in Slice,
             NEW kind \in Kinds, NEW auto \in BOOLEAN, Ask(i, n, kind, auto)
      PROVE  Sound'
  BY <1>1, <1>4, AskKeeps
<1>5. ASSUME NEW n \in Slice, HandlerStep(n)
      PROVE  Sound'
  BY <1>1, <1>5, CreateSliceKeeps, RemoveRecordKeeps, RemoveSharedKeeps,
     RemoveOwnKeeps DEF HandlerStep
<1>6. ASSUME NEW n \in Slice, AutoRemove(n)
      PROVE  Sound'
  <2>1. CASE CheckRemove(n)
    BY <1>1, <1>6, <2>1, CheckRemoveKeeps DEF AutoRemove
  <2>2. CASE UNCHANGED <<handler, marks>>
    BY <1>1, <1>6, <2>2, NothingKeeps DEF AutoRemove
  <2> QED  BY <1>6, <2>1, <2>2 DEF AutoRemove
<1>7. ASSUME NEW i \in Request, NbiStep(i)
      PROVE  Sound'
  BY <1>1, <1>7, LookSharedKeeps, ActSharedKeeps, ActOwnKeeps DEF NbiStep
<1>8. ASSUME NEW i \in Request, LcmStep(i) \/ GiveUp(i) \/ Late(i)
      PROVE  Sound'
  BY <1>1, <1>8, StartKeeps, PollKeeps, WriteKeeps, GiveUpKeeps DEF LcmStep
<1>9. ASSUME NEW o \in Request \X Nsr, NsStep(o) \/ NsFails(o) \/ NsGivesUp(o)
      PROVE  Sound'
  <2>1. PICK k \in Request, x \in Nsr : o = <<k, x>>
    OBVIOUS
  <2> QED
    BY <1>1, <1>9, <2>1, NsStartKeeps, NsDoneKeeps, NsFailsKeeps DEF NsStep
<1>10. CASE UNCHANGED vars
  BY <1>1, <1>10, NothingKeeps DEF vars
<1>11. /\ \A i \in Request : ~StartBeside(i)
       /\ \A o \in Request \X Nsr : ~NsStartBeside(o)
  BY BesideDisturbs
<1> QED
  BY <1>2, <1>3, <1>4, <1>5, <1>6, <1>7, <1>8, <1>9, <1>10, <1>11
  DEF Next, NbiRequest

\* A slice that is gone is shown as nothing, however requests overlap.
GoneIsBare == \A n \in Slice : There(n) \/ nsi[n].shown = "none"

LEMMA GoneStaysBare == Typed /\ GoneIsBare /\ [Next]_vars => GoneIsBare'
<1> SUFFICES ASSUME Typed, GoneIsBare, [Next]_vars, NEW n \in Slice
             PROVE  There(n)' \/ nsi'[n].shown = "none"
  BY DEF GoneIsBare
<1> DEFINE Bare == There(n)' \/ nsi'[n].shown = "none"
<1>1. nsi \in [Slice -> SliceRec] /\ nsi[n] \in SliceRec
  BY DEF Typed, TypeOK
<1>2. There(n) \/ nsi[n].shown = "none"
  BY DEF GoneIsBare
<1>3. CASE nsi' = nsi
  BY <1>2, <1>3 DEF There
<1>4. ASSUME NEW m \in Slice, CreateSlice(m)
      PROVE  Bare
  BY <1>1, <1>2, <1>4 DEF CreateSlice, SliceRec, There
<1>5. ASSUME NEW m \in Slice, RemoveRecord(m)
      PROVE  Bare
  <2>1. CASE n = m
    BY <1>1, <1>5, <2>1, NewSliceTyped DEF RemoveRecord, NewSlice, There
  <2>2. CASE n # m
    BY <1>1, <1>2, <1>5, <2>2 DEF RemoveRecord, There
  <2> QED  BY <2>1, <2>2
<1>6. ASSUME NEW m \in Slice, FindShared(m) \/ RequestRemove(m) \/ AutoRemove(m)
                              \/ RemoveShared(m) \/ RemoveOwn(m)
      PROVE  nsi' = nsi
  BY <1>6 DEF FindShared, RequestRemove, AutoRemove, RemoveShared, RemoveOwn
<1>7. ASSUME NEW i \in Request, NEW m \in Slice, NEW kind \in Kinds,
             NEW auto \in BOOLEAN, Ask(i, m, kind, auto)
      PROVE  nsi' = nsi
  BY <1>7 DEF Ask
<1>8. ASSUME NEW i \in Request, NEW s, ShareInstantiate(i, s)
      PROVE  Bare
  BY <1>1, <1>2, <1>8 DEF ShareInstantiate, SliceRec, There
<1>9. ASSUME NEW i \in Request, NEW s, ShareTerminate(i, s)
      PROVE  Bare
  BY <1>1, <1>2, <1>9 DEF ShareTerminate, SliceRec, There
<1>10. ASSUME NEW i \in Request, NbiStep(i)
       PROVE  nsi' = nsi \/ Bare
  BY <1>8, <1>9, <1>10 DEF NbiStep, LookShared, ActShared, ActOwn
<1>11. ASSUME NEW i \in Request, NEW state, NEW slice, Ends(i, state, slice),
              slice.life = nsi[req[i].slice].life
       PROVE  Bare
  <2>1. nsi'[n] = IF n = req[i].slice /\ There(n) THEN slice ELSE nsi[n]
    BY <1>1, <1>11 DEF Ends
  <2> QED  BY <1>2, <1>11, <2>1 DEF There
<1>12. ASSUME NEW i \in Request, Fails(i)
       PROVE  Bare
  <2>1. ASSUME req[i].slice \in Slice
        PROVE  [nsi[req[i].slice] EXCEPT !.shown = "failed"].life
                   = nsi[req[i].slice].life
    BY <1>1, <2>1 DEF SliceRec
  <2>2. CASE req[i].slice \in Slice
    BY <1>11, <1>12, <2>1, <2>2 DEF Fails
  <2>3. CASE req[i].slice \notin Slice
    <3>1. nsi'[n] = nsi[n]
      BY <1>1, <1>12, <2>3 DEF Fails, Ends
    <3> QED  BY <1>2, <3>1 DEF There
  <2> QED  BY <2>2, <2>3
<1>13. ASSUME NEW i \in Request, NEW rec, nsi' = [nsi EXCEPT ![req[i].slice] = rec],
              There(req[i].slice), rec.life = nsi[req[i].slice].life
       PROVE  Bare
  BY <1>1, <1>2, <1>13 DEF There
<1>14. ASSUME NEW i \in Request, Start(i) \/ StartBeside(i)
       PROVE  nsi' = nsi \/ Bare
  <2> DEFINE m == req[i].slice
             started == [nsi[m] EXCEPT !.instantiated = TRUE, !.shown = "init"]
  <2>1. m \in Slice /\ nsi[m] \in SliceRec
    BY <1>14 DEF Start, StartBeside, Typed, TypeOK, SliceKnown
  <2>2. /\ started.life = nsi[m].life
        /\ [started EXCEPT !.shown = "failed"].life = nsi[m].life
        /\ [nsi[m] EXCEPT !.shown = "terminating"].life = nsi[m].life
    BY <2>1 DEF SliceRec
  <2>3. CASE StartInstantiate(i)
    <3>1. CASE Missing(i)
      BY <1>11, <2>2, <2>3, <3>1 DEF StartInstantiate
    <3>2. CASE ~Missing(i)
      BY <1>13, <2>2, <2>3, <3>2 DEF StartInstantiate, Exists
    <3> QED  BY <3>1, <3>2
  <2>4. CASE StartTerminate(i)
    BY <1>12, <1>13, <2>2, <2>4 DEF StartTerminate, Exists
  <2>5. CASE StartNothing(i)
    BY <2>5 DEF StartNothing
  <2> QED  BY <1>14, <2>3, <2>4, <2>5 DEF Start, StartBeside
<1>15. ASSUME NEW i \in Request, Poll(i) \/ GiveUp(i) \/ Late(i)
       PROVE  nsi' = nsi \/ Bare
  BY <1>12, <1>15 DEF Poll, GiveUp, Late
<1>16. ASSUME NEW i \in Request, Write(i)
       PROVE  nsi' = nsi \/ Bare
  <2> DEFINE m == req[i].slice
             read == req[i].read
             written == [nsi[m] EXCEPT !.list = read.list, !.uses = read.uses]
  <2>1. m \in Slice /\ nsi[m] \in SliceRec
    BY <1>16 DEF Write, Typed, TypeOK, SliceKnown
  <2>2. /\ written.life = nsi[m].life
        /\ [written EXCEPT !.shown = "failed"].life = nsi[m].life
        /\ [written EXCEPT !.instantiated = FALSE,
                           !.shown = "terminated"].life = nsi[m].life
        /\ [written EXCEPT !.shown = "running"].life = nsi[m].life
    BY <2>1 DEF SliceRec
  <2>3. CASE ~There(m)
    BY <1>12, <1>16, <2>3 DEF Write
  <2>4. CASE There(m) /\ read.all = "open"
    BY <1>13, <1>16, <2>2, <2>4 DEF Write
  <2>5. CASE There(m) /\ read.all = "FAILED"
    BY <1>11, <1>16, <2>2, <2>5 DEF Write
  <2>6. CASE There(m) /\ read.all \notin {"open", "FAILED"}
    BY <1>11, <1>16, <2>2, <2>6 DEF Write
  <2> QED  BY <2>3, <2>4, <2>5, <2>6
<1>17. ASSUME NEW o \in Request \X Nsr,
              NsStep(o) \/ NsStartBeside(o) \/ NsFails(o) \/ NsGivesUp(o)
       PROVE  nsi' = nsi
  BY <1>17 DEF NsStep, NsStart, NsStartBeside, NsDone, NsFails, NsGivesUp
<1>18. nsi' = nsi \/ Bare
  BY <1>4, <1>5, <1>6, <1>7, <1>10, <1>14, <1>15, <1>16, <1>17
  DEF Next, NbiRequest, HandlerStep, LcmStep, vars
<1> QED  BY <1>3, <1>18

\* The inductive invariant of network slices: types for everybody, the rest while
\* nothing is disturbed, by clients or by an operation that works on in silence for
\* two hours, which waitfor_related_HA ignores.
THEOREM SoundAlways ==
    Spec => [](Typed /\ GoneIsBare /\ (Undisturbed => Sound))
<1>1. Init => Typed /\ GoneIsBare /\ (Undisturbed => Sound)
  BY InitTyped, InitSound
  DEF Init, Typed, SliceKnown, NoReq, GoneIsBare, NewSlice
<1>2. /\ Typed /\ GoneIsBare /\ (Undisturbed => Sound) /\ [Next]_vars
      => (Typed /\ GoneIsBare /\ (Undisturbed => Sound))'
  BY NextTyped, GoneStaysBare, NextKeeps
<1> QED  BY <1>1, <1>2, PTL DEF Spec

\* The NSs that a slice lists exist: removing another slice never takes a shared
\* one away (NsiTopic.delete_extra).
THEOREM ListedExistAlways == Spec => []ListedExist
<1>1. (Undisturbed => Sound) => ListedExist
  BY DEF ListedExist, Sound, Lists, Exist
<1> QED  BY <1>1, SoundAlways, PTL

\* While nothing is disturbed, a slice that is shown as running has all of its NSs
\* instantiated, with tasks of several slices side by side, NS operations that fail
\* or are late and waits that are given up: nobody has terminated the NS it shares
\* (NsiLcmOpTopic.new, nss_in_use of NetsliceLcm.terminate).
THEOREM RunningHasItsNssAlways == Spec => []RunningHasItsNss
<1>1. Typed /\ GoneIsBare /\ (Undisturbed => Sound) => RunningHasItsNss
  <2> SUFFICES ASSUME Typed, GoneIsBare, Sound, NEW n \in Slice,
                      nsi[n].shown = "running", NEW r \in nsi[n].list
               PROVE  nsr[r] = "instantiated"
    BY DEF RunningHasItsNss
  <2>1. There(n) /\ r \in Nsr
    BY DEF GoneIsBare, Typed, TypeOK, SliceRec
  <2>2. Kept(r) /\ Exist(r)
    BY <2>1 DEF Sound, Keeping, Lists
  <2>3. PICK q \in Request : /\ Instantiates(q)
                             /\ nslcmop[<<q, r>>].state = "COMPLETED"
                             /\ Unshaken(q, r)
    BY <2>2 DEF Kept
  <2>4. nsr[r] \in {"instantiated", "gone"}
    BY <2>1, <2>3 DEF Sound, NssInTurn, Runs
  <2> QED  BY <2>2, <2>4 DEF Exist
<1> QED  BY <1>1, SoundAlways, PTL

=============================================================================
