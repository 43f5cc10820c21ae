------------------------------ MODULE NbiNsOps ------------------------------
(***************************************************************************)
(* What NBI does about the operations of a network service: the requests   *)
(* that create, cancel and remove.  NBI is a multi-threaded HTTP server    *)
(* (several replicas of it may run), so each request is split at its       *)
(* database calls and requests interleave freely.                          *)
(***************************************************************************)
EXTENDS NsLcmDb

\* NsLcmOpTopic.new up to its checks: reads the nsr, refuses the operation
\* that does not fit _admin.nsState.
NbiCheck(o, kind, force) ==
    /\ nbi[o] = "idle"
    /\ nsr.exists
    /\ IF nsr.admin = "NOT_INSTANTIATED" THEN kind = "instantiate"
                                         ELSE kind # "instantiate" \/ force
    /\ nbi' = [nbi EXCEPT ![o] = "checked"]
    /\ op' = [op EXCEPT ![o].kind = kind]
    /\ UNCHANGED <<nsr, vim, clock, del, cancel, busVars, lcmVars, histVars,
                   pauses>>

\* _create_nslcmop: startTime is read from the clock.
NbiStamp(o) ==
    /\ nbi[o] = "checked"
    /\ clock' = clock + 1
    /\ nbi' = [nbi EXCEPT ![o] = "stamped"]
    /\ op' = [op EXCEPT ![o].start = clock + 1]
    /\ UNCHANGED <<nsr, vim, del, cancel, busVars, lcmVars, histVars, pauses>>

\* db.create("nslcmops", ...): the document appears, in state PROCESSING.
NbiStore(o) ==
    /\ nbi[o] = "stamped"
    /\ nbi' = [nbi EXCEPT ![o] = "stored"]
    /\ op' = [op EXCEPT ![o].state = "PROCESSING"]
    /\ UNCHANGED <<nsr, vim, clock, del, cancel, busVars, lcmVars, histVars,
                   pauses>>

\* msg.write("ns", operation, nslcmop).
NbiSend(o) ==
    /\ nbi[o] = "stored"
    /\ nbi' = [nbi EXCEPT ![o] = "sent"]
    /\ inbox' = inbox \cup {o}
    /\ UNCHANGED <<dbVars, clock, del, cancel, delivered, redeliveries,
                   lcmVars, histVars, pauses>>

\* msg.write raised MsgException after its two attempts, one of which may have
\* published the message ...
NbiSendFails(o, published) ==
    /\ nbi[o] = "stored"
    /\ Cardinality({p \in Op : nbi[p] \in {"unsent", "refused"}}) < MaxSendFail
    /\ nbi' = [nbi EXCEPT ![o] = "unsent"]
    /\ inbox' = IF published THEN inbox \cup {o} ELSE inbox
    /\ UNCHANGED <<dbVars, clock, del, cancel, delivered, redeliveries,
                   lcmVars, histVars, pauses>>

\* ... then the request fails and its rollback list removes the document again,
\* whatever a worker has made of the message meanwhile.
NbiRollback(o) ==
    /\ nbi[o] = "unsent"
    /\ nbi' = [nbi EXCEPT ![o] = "refused"]
    /\ op' = [op EXCEPT ![o].state = "DELETED"]
    /\ UNCHANGED <<nsr, vim, clock, del, cancel, busVars, lcmVars, histVars,
                   pauses>>

-----------------------------------------------------------------------------
\* NsLcmOpTopic.cancel reads the document: only an ongoing operation.
NbiCancelCheck(o) ==
    /\ Cardinality({p \in Op : cancel[p] # "none"}) < MaxCancel
    /\ cancel[o] = "none"
    /\ InProgress(o)
    /\ cancel' = [cancel EXCEPT ![o] = "checked"]
    /\ UNCHANGED <<dbVars, nbiVars, busVars, lcmVars, histVars, pauses>>

\* ... then sets isCancelPending and writes ("nslcmops", "cancel").
NbiCancelSend(o) ==
    /\ cancel[o] = "checked"
    /\ cancel' = [cancel EXCEPT ![o] = "sent"]
    /\ UNCHANGED <<dbVars, nbiVars, busVars, lcmVars, histVars, pauses>>

-----------------------------------------------------------------------------
\* Mutant of NbiDeleteCheck: _admin.nsState is not looked at.
NbiDeleteUnchecked(force) ==
    /\ MayDelete
    /\ del = "idle"
    /\ nsr.exists
    /\ del' = "checked"
    /\ raced' = (force \/ ~NobodyActive)
    /\ UNCHANGED <<dbVars, nbi, clock, cancel, busVars, lcmVars, excused,
                   overlap, pauses>>

\* BaseTopic.delete reads the nsr and NsrTopic.check_conflict_on_del tests it.
NbiDeleteCheck(force) ==
    /\ MayDelete
    /\ del = "idle"
    /\ nsr.exists
    /\ nsr.admin = "INSTANTIATED" => force
    /\ del' = "checked"
    /\ raced' = (force \/ ~NobodyActive)
    /\ UNCHANGED <<dbVars, nbi, clock, cancel, busVars, lcmVars, excused,
                   overlap, pauses>>

\* db.del_one("nsrs", ...): no condition on the state is part of the filter.
NbiDeleteNsr ==
    /\ del = "checked"
    /\ del' = "removed"
    /\ nsr' = [nsr EXCEPT !.exists = FALSE]
    /\ UNCHANGED <<op, vim, nbi, clock, cancel, busVars, lcmVars, histVars,
                   pauses>>

\* NsrTopic.delete_extra: del_list("nslcmops", {"nsInstanceId": _id}).
NbiDeleteOps ==
    /\ del = "removed"
    /\ del' = "done"
    /\ op' = [o \in Op |-> IF Stored(o) THEN [op[o] EXCEPT !.state = "DELETED"]
                                        ELSE op[o]]
    /\ UNCHANGED <<nsr, vim, nbi, clock, cancel, busVars, lcmVars, histVars,
                   pauses>>

NbiNext ==
    \/ \E o \in Op :
          \/ \E kind \in Kinds, force \in ForceFlags : NbiCheck(o, kind, force)
          \/ NbiStamp(o) \/ NbiStore(o) \/ NbiSend(o)
          \/ \E published \in BOOLEAN : NbiSendFails(o, published)
          \/ NbiRollback(o)
          \/ NbiCancelCheck(o) \/ NbiCancelSend(o)
    \/ \E force \in ForceFlags : NbiDeleteCheck(force)
    \/ NbiDeleteNsr \/ NbiDeleteOps
=============================================================================
