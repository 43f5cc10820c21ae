----------------------------- MODULE NbiSlices -----------------------------
(***************************************************************************)
(* NBI's side of network slices: NsiTopic creates and removes netslice     *)
(* instances with the NSs of their subnets, NsiLcmOpTopic creates slice    *)
(* operations with the NS operations they consist of.  Slices use a shared *)
(* NS by looking at each other's records; nothing locks them.              *)
(*                                                                         *)
(* Requests about the same slice are answered in turn; those about two     *)
(* slices overlap.  A request that is refused at once does not appear.     *)
(***************************************************************************)
EXTENDS SliceDb

Shared(L) == L \cap SharedNs

\* Other slices with a record that lists NS s as shared.
OthersListing(n, s) == {m \in Slice \ {n} : There(m) /\ s \in nsi[m].list}

-----------------------------------------------------------------------------
(* NsiTopic                                                                 *)

\* NsiTopic.new: the shared NSs that slices list.
Listed == UNION {Shared(nsi[m].list) : m \in {k \in Slice : There(k)}}

\* NsiTopic.new, first half: takes the shared NS that another slice lists, or
\* creates its record, and creates that of its own subnet (NsrTopic.new).
FindShared(n) ==
    /\ nsi[n].life = "new" /\ ~Handled(n)
    /\ \E s \in SharedNs :
           /\ IF Listed # {} THEN s \in Listed ELSE nsr[s] = "new"
           /\ nsr' = [r \in Nsr |->
                        IF r = n \/ (r = s /\ Listed = {}) THEN "idle"
                                                          ELSE nsr[r]]
           /\ handler' = [handler EXCEPT ![n] = [pc |-> "new", list |-> {s, n}]]
    /\ marks' = marks \cup Overlaps(n)
    /\ UNCHANGED <<nsi, nslcmop, req, notices, faults>>

\* NsiTopic.new, second half: db.create.
CreateSlice(n) ==
    /\ handler[n].pc = "new"
    /\ nsi' = [nsi EXCEPT ![n].life = "there", ![n].list = handler[n].list]
    /\ handler' = [handler EXCEPT ![n] = Idle]
    /\ UNCHANGED <<nsr, nslcmop, req, notices, marks, faults>>

\* A DELETE of a slice that is not instantiated, or the end of a termination
\* with autoremove: BaseTopic.delete reads the record and checks it.
CheckRemove(n) ==
    /\ ~Handled(n) /\ There(n) /\ ~nsi[n].instantiated
    /\ handler' = [handler EXCEPT ![n] = [pc |-> "remove",
                                          list |-> nsi[n].list]]
    /\ marks' = marks \cup Overlaps(n) \cup Busies(n) \cup Together(n)

RequestRemove(n) ==
    CheckRemove(n) /\ UNCHANGED <<nsi, nsr, nslcmop, req, notices, faults>>

\* SubscriptionThread: "terminated" with autoremove.
AutoRemove(n) ==
    /\ n \in notices
    /\ notices' = notices \ {n}
    /\ \/ CheckRemove(n)
       \/ /\ ~There(n) \/ nsi[n].instantiated
          /\ UNCHANGED <<handler, marks>>
    /\ UNCHANGED <<nsi, nsr, nslcmop, req, faults>>

\* BaseTopic.delete: del_one of the record comes before delete_extra.
RemoveRecord(n) ==
    /\ handler[n].pc = "remove"
    /\ nsi' = [nsi EXCEPT ![n] = [NewSlice EXCEPT !.life = "gone"]]
    /\ handler' = [handler EXCEPT
                     ![n].pc = IF Shared(handler[n].list) # {} THEN "shared"
                                                               ELSE "own"]
    /\ UNCHANGED <<nsr, nslcmop, req, notices, marks, faults>>

\* NsrTopic.delete of the NSs R: the record goes with its operations.
Deletes(R) ==
    /\ nsr' = [r \in Nsr |-> IF r \in R THEN "gone" ELSE nsr[r]]
    /\ nslcmop' = [o \in Request \X Nsr |->
                     IF o[2] \in R THEN [nslcmop[o] EXCEPT !.state = "none"]
                                   ELSE nslcmop[o]]

\* Mutants of KeepShared: the shared NS goes with any of its slices, or stays.
KeepNever(n, s) == FALSE
KeepAlways(n, s) == TRUE
\* NsiTopic.delete_extra: another slice lists the shared NS.
KeepShared(n, s) == OthersListing(n, s) # {}

\* NsiTopic.delete_extra, the shared NS.  A conflict (the NS is instantiated)
\* ends it there.
RemoveShared(n) ==
    /\ handler[n].pc = "shared"
    /\ \E s \in Shared(handler[n].list) :
           IF ~KeepShared(n, s) /\ nsr[s] = "instantiated"
             THEN /\ handler' = [handler EXCEPT ![n] = Idle]
                  /\ UNCHANGED <<nsr, nslcmop>>
             ELSE /\ handler' = [handler EXCEPT ![n].pc = "own"]
                  /\ Deletes(IF KeepShared(n, s) THEN {} ELSE {s})
    /\ UNCHANGED <<nsi, req, notices, marks, faults>>

\* NsiTopic.delete_extra, the slice's own NS and the operations of the slice.
RemoveOwn(n) ==
    /\ handler[n].pc = "own"
    /\ handler' = [handler EXCEPT ![n] = Idle]
    /\ IF n \in handler[n].list /\ nsr[n] = "instantiated"
         THEN UNCHANGED <<nsr, nslcmop, req>>
         ELSE /\ Deletes({n} \cap handler[n].list)
              /\ req' = [i \in Request |->
                           IF req[i].slice = n
                             THEN [req[i] EXCEPT !.state = "none"] ELSE req[i]]
    /\ UNCHANGED <<nsi, notices, marks, faults>>

-----------------------------------------------------------------------------
(* NsiLcmOpTopic.new                                                        *)

\* The slice and its state are read, and checked, once.
Ask(i, n, kind, autoremove) ==
    /\ kind \in Kinds /\ ~Handled(n) /\ There(n)
    /\ nsi[n].instantiated = (kind = "terminate")
    /\ autoremove => kind = "terminate"
    /\ req[i].pc = "free" /\ \A q \in 1 .. i - 1 : req[q].pc # "free"
    /\ Events < MaxEvents
    /\ req' = [req EXCEPT ![i] =
                 [NoReq EXCEPT !.slice = n, !.kind = kind,
                               !.autoremove = autoremove,
                               !.read.list = nsi[n].list,
                               !.pc = IF Shared(nsi[n].list) # {} THEN "look"
                                                                  ELSE "own"]]
    /\ marks' = marks \cup Overlaps(n) \cup Repeats(n, kind)
                     \cup Together(n)
    /\ UNCHANGED <<nsi, nsr, nslcmop, handler, notices, faults>>

\* Looks for another slice whose item of the shared NS has an operation.
LookShared(i) ==
    /\ req[i].pc = "look"
    /\ \E s \in Shared(req[i].read.list) :
           LET uses == {nsi[m].uses[s] :
                          m \in OthersListing(req[i].slice, s)} \ {NoRequest}
           IN \E f \in (IF uses = {} THEN {NoRequest} ELSE uses) :
                  req' = [req EXCEPT ![i].pc = "act", ![i].found = f]
    /\ UNCHANGED <<nsi, nsr, nslcmop, handler, notices, marks, faults>>

\* NsLcmOpTopic.new with slice_object: refused by the state of the NS; when
\* there is no such NS the slice goes on without its operation.
Conflict(i, r) ==
    nsr[r] = IF req[i].kind = "terminate" THEN "idle" ELSE "instantiated"
Creates(i, R) ==
    nslcmop' = [o \in Request \X Nsr |->
                  IF o[1] = i /\ o[2] \in R /\ nsr[o[2]] \in {"idle", "instantiated"}
                    THEN [state |-> "PROCESSING", run |-> "no"] ELSE nslcmop[o]]
OpsWith(i, R) ==
    [r \in Nsr |-> IF r \in R /\ nsr[r] \in {"idle", "instantiated"}
                     THEN i ELSE req[i].ops[r]]

\* The request fails: NBI deletes the NS operations it has created and leaves
\* what it has written in the slice.
Refuse(i) ==
    /\ req' = [req EXCEPT ![i].pc = "over", ![i].ops = NoUse]
    /\ nslcmop' = [o \in Request \X Nsr |->
                     IF o[1] = i THEN [nslcmop[o] EXCEPT !.state = "none"]
                                 ELSE nslcmop[o]]

\* The shared NS in an instantiation: the VLD gets it (add_shared_nsr_2vld);
\* the operation of the other slice is taken over, or one is created.
ShareInstantiate(i, s) ==
    LET n == req[i].slice  found == req[i].found
        conflict == found = NoRequest /\ Conflict(i, s)
        created == found = NoRequest /\ ~conflict /\ nsr[s] = "idle"
        uses == IF created THEN i ELSE found
    IN /\ req[i].kind = "instantiate"
       /\ nsi' = [nsi EXCEPT ![n].vld = @ \cup {s},
                             ![n].uses[s] = IF uses # NoRequest THEN uses
                                                                ELSE @]
       /\ marks' = marks \cup IF conflict THEN {"refused"} ELSE {}
       /\ IF conflict THEN Refuse(i)
          ELSE /\ req' = [req EXCEPT
                            ![i].pc = "own",
                            ![i].ops[s] = uses]
               /\ Creates(i, IF found = NoRequest THEN {s} ELSE {})

\* Another slice needs the shared NS.
Keeps(i) == req[i].found # NoRequest

\* The shared NS in a termination: the slice no longer uses its operation, and
\* terminates it unless another one does.
ShareTerminate(i, s) ==
    LET n == req[i].slice
        conflict == ~Keeps(i) /\ Conflict(i, s)
    IN /\ req[i].kind = "terminate"
       /\ nsi' = [nsi EXCEPT ![n].uses[s] = NoRequest]
       /\ marks' = marks \cup IF conflict THEN {"refused"} ELSE {}
       /\ IF conflict THEN Refuse(i)
          ELSE LET R == IF Keeps(i) THEN {} ELSE {s}
               IN /\ req' = [req EXCEPT ![i].pc = "own",
                                        ![i].ops = OpsWith(i, R)]
                  /\ Creates(i, R)

ActShared(i) ==
    /\ req[i].pc = "act"
    /\ \E s \in Shared(req[i].read.list) :
           ShareInstantiate(i, s) \/ ShareTerminate(i, s)
    /\ UNCHANGED <<nsr, handler, notices, faults>>

\* The slice's own NS; then the slice operation is created and its message sent.
ActOwn(i) ==
    LET n == req[i].slice  R == {n} \cap req[i].read.list
    IN /\ req[i].pc = "own"
       /\ IF R # {} /\ Conflict(i, n)
            THEN /\ Refuse(i)
                 /\ marks' = marks \cup IF Shared(req[i].read.list) # {}
                                          THEN {"refused"} ELSE {}
            ELSE /\ Creates(i, R)
                 /\ req' = [req EXCEPT ![i].pc = "sent",
                                       ![i].state = "PROCESSING",
                                       ![i].read = NoRead,
                                       ![i].found = NoRequest,
                                       ![i].ops = OpsWith(i, R)]
                 /\ UNCHANGED marks
    /\ UNCHANGED <<nsi, nsr, handler, notices, faults>>

NbiStep(i) == LookShared(i) \/ ActShared(i) \/ ActOwn(i)

HandlerStep(n) ==
    CreateSlice(n) \/ RemoveRecord(n) \/ RemoveShared(n) \/ RemoveOwn(n)

\* Clients stop asking once something has gone wrong.
NbiRequest ==
    /\ marks \subseteq {"together"}
    /\ \/ \E n \in Slice : FindShared(n) \/ RequestRemove(n)
       \/ \E i \in Request, n \in Slice, kind \in Kinds, auto \in BOOLEAN :
              Ask(i, n, kind, auto)
=============================================================================
