---------------------------- MODULE SlicesOwners_proofs ----------------------------
(***************************************************************************)
(* That no NS of a network slice runs, or is left, without a slice that    *)
(* lists it: for every number of slices, shared NSs, requests and faults.  *)
(***************************************************************************)
EXTENDS Slices_proofs

-----------------------------------------------------------------------------
(* The invariant, beside Sound                                              *)

\* A slice lists its own NS, and so does who creates or removes it.
OwnListed ==
    \A n \in Slice : /\ There(n) => n \in nsi[n].list
                     /\ handler[n].pc # "idle" => n \in handler[n].list

\* A request that has been sent has an operation on the slice's own NS, which
\* nobody but its task starts.
OwnAsked ==
    \A i \in Request :
        /\ req[i].pc \in {"sent", "poll", "write"}
               => req[i].ops[req[i].slice] = i
        /\ Instantiates(i) /\ req[i].pc = "sent"
               => nslcmop[<<i, req[i].slice>>].run = "no"

\* What a task writes leaves out the NSs it has no operation on; a task that ends
\* well has seen the operations it writes about end well.
RoundsKnown ==
    \A i \in Request : req[i].pc = "write" =>
        \A r \in nsi[req[i].slice].list :
            /\ req[i].ops[r] # NoRequest <=> r \in req[i].read.list
            /\ r \in req[i].read.list /\ req[i].read.all = "COMPLETED" =>
                   nslcmop[<<req[i].ops[r], r>>].state = "COMPLETED"

\* Tasks work on slices that are instantiated.
WorkKnown == \A i \in Request : Working(i) => nsi[req[i].slice].instantiated

\* What follows the termination of a slice, while it is under way, is another.
EndsInTurn ==
    /\ \A t, i \in Request :
             /\ Terminates(t) /\ Active(t) /\ t < i
             /\ req[i].pc # "free" /\ req[i].slice = req[t].slice
           => Terminates(i)
    /\ \A t \in Request :
             Terminates(t) /\ Active(t) /\ "repeated" \notin marks
           => nsi[req[t].slice].instantiated

\* Termination t has dealt with NS r.
ActedOn(t, r) ==
    /\ Terminates(t)
    /\ \/ req[t].pc \in {"sent", "poll", "write"}
       \/ req[t].pc = "own" /\ r \in SharedNs

\* What request i has done about the shared NS s.
ShareKnown(i, s) ==
    LET n == req[i].slice
    IN /\ ActedOn(i, s) /\ s \in nsi[n].list => nsi[n].uses[s] = NoRequest
       /\ /\ Terminates(i) /\ req[i].pc \in {"look", "act"}
          /\ s \in nsi[n].list /\ nsi[n].uses[s] # NoRequest
          => nsi[n].instantiated
       /\ /\ Instantiates(i) /\ req[i].pc \in {"own", "sent", "poll", "write"}
          /\ s \in nsi[n].list
          => req[i].ops[s] # NoRequest
       /\ /\ Instantiates(i) /\ req[i].pc \in {"look", "act", "own", "sent"}
          /\ req[i].ops[s] # NoRequest
          => s \in nsi[n].list
SharesKnown ==
    /\ \A i \in Request, s \in SharedNs : ShareKnown(i, s)
    /\ \A i \in Request :
           Instantiates(i) /\ Open(i) => req[i].read.list \subseteq nsi[req[i].slice].list

\* Another slice uses s.
Used(n, s) == \E m \in OthersListing(n, s) : nsi[m].uses[s] # NoRequest
\* A termination that has found a user of the shared NS leaves it one.
UserFound ==
    \A t \in Request :
          Terminates(t) /\ req[t].pc = "act" /\ req[t].found # NoRequest
        => \A s \in Shared(req[t].read.list) : Used(req[t].slice, s)

\* Operation <<q, r>> will instantiate NS r.
ToCome(q, r) ==
    /\ Instantiates(q) /\ Processing(<<q, r>>)
    /\ nslcmop[<<q, r>>].run \in {"wait", "work"}
\* A termination of an NS works when no instantiation before it does.
EndsFirst ==
    \A t, q \in Request, r \in Nsr :
          /\ Terminates(t) /\ q < t /\ Processing(<<t, r>>)
          /\ nslcmop[<<t, r>>].run = "work"
        => ~ToCome(q, r)

\* No instantiation has given up before it started a task.
NobodyGaveUp ==
    \A i \in Request :
        /\ Instantiates(i) /\ req[i].pc = "over"
        /\ req[i].ops[req[i].slice] # NoRequest
        => nslcmop[<<i, req[i].slice>>].run # "no"

\* A slice uses a shared NS when it is instantiated, or about to be.
Comes(m) ==
    \E i \in Request : /\ Instantiates(i) /\ req[i].pc \in {"own", "sent"}
                       /\ req[i].slice = m
Claimed ==
    \A m \in Slice : \A s \in Shared(nsi[m].list) :
        There(m) /\ nsi[m].uses[s] # NoRequest => nsi[m].instantiated \/ Comes(m)

\* NS r is instantiated (q is NoRequest), or will be by operation <<q, r>>.
Needed(r, q) ==
    IF q = NoRequest THEN nsr[r] = "instantiated" ELSE ToCome(q, r)
\* Termination t leaves r behind as instantiated, when q is the operation that
\* instantiates it: it comes before q, has no operation on r, or has ended it.
Leaves(t, r, q) ==
    /\ ActedOn(t, r)
    /\ \/ t <= q
       \/ req[t].ops[r] = NoRequest
       \/ nslcmop[<<t, r>>].state = "COMPLETED"
Uses(m, r) == r \in SharedNs /\ nsi[m].uses[r] # NoRequest
\* Slice m will see to it that r is terminated.
Holder(m, r, q) ==
    /\ There(m) /\ r \in nsi[m].list
    /\ \/ Uses(m, r)
       \/ /\ nsi[m].instantiated
          /\ \A t \in Request : req[t].slice = m => ~Leaves(t, r, q)
Held ==
    \A r \in Nsr, q \in Request \cup {NoRequest} :
        Needed(r, q) => \E m \in Slice : Holder(m, r, q)

Owned ==
    /\ OwnListed /\ OwnAsked /\ RoundsKnown /\ WorkKnown /\ EndsInTurn
    /\ SharesKnown /\ UserFound /\ EndsFirst
    /\ NobodyGaveUp => Claimed /\ Held

\* For clients that have one slice operation at a time under way.
OneAtATime ==
    /\ \A i, j \in Request : Active(i) /\ Active(j) => req[i].slice = req[j].slice
    /\ \A n \in Slice, i \in Request :
           Active(i) => handler[n].pc \in {"idle", "new"}
RemovalsKnown ==
    \A n \in Slice :
        handler[n].pc = "remove" => There(n) /\ nsi[n].list \subseteq handler[n].list
\* A termination that has left a shared NS alone has left it to another slice.
OthersRemain ==
    \A t \in Request, s \in SharedNs :
          /\ ActedOn(t, s) /\ s \in nsi[req[t].slice].list
          /\ req[t].ops[s] = NoRequest
        => OthersListing(req[t].slice, s) # {}
\* Somebody lists NS r, or is about to, or about to remove it.
Belongs(r) ==
    \/ \E n \in Slice : There(n) /\ r \in nsi[n].list
    \/ \E n \in Slice :
           /\ r \in handler[n].list
           /\ \/ handler[n].pc \in {"new", "shared"}
              \/ handler[n].pc = "own" /\ r = n
AllBelong == \A r \in Nsr : Exist(r) => Belongs(r)
Alone ==
    /\ OneAtATime /\ RemovalsKnown /\ OthersRemain
    /\ NobodyGaveUp => AllBelong

-----------------------------------------------------------------------------
(* Steps that leave requests alone                                          *)

\* A step that touches neither requests nor the slices they are about.
Aside ==
    /\ SameRequests /\ marks \subseteq marks'
    /\ \A i \in Request :
           Active(i) => nsi'[req[i].slice] = nsi[req[i].slice]
    /\ UNCHANGED nsi \/ \A i \in Request : ~Open(i)
    /\ \A i \in Request, r \in Nsr :
           nslcmop'[<<i, r>>].run = "no" <=> nslcmop[<<i, r>>].run = "no"
    /\ \A i, q \in Request, r \in Nsr :
             /\ Active(i) /\ r \in nsi[req[i].slice].list
             /\ nslcmop[<<q, r>>].state = "COMPLETED"
           => nslcmop'[<<q, r>>].state = "COMPLETED"

LEMMA OpAtTyped ==
    ASSUME Typed, NEW i \in Request, NEW r \in Nsr
    PROVE  req[i].ops[r] \in Request \cup {NoRequest}
<1>1. req[i] \in ReqRec
  BY DEF Typed, TypeOK
<1>2. req[i].ops \in OpFun
  BY <1>1 DEF ReqRec
<1> QED  BY <1>2 DEF OpFun

LEMMA AsideKeeps ==
    ASSUME Typed, Sound, Owned, Aside
    PROVE  /\ OwnAsked' /\ RoundsKnown' /\ WorkKnown' /\ EndsInTurn'
           /\ SharesKnown' /\ UserFound'
<1>1. \A i \in Request :
          /\ req'[i].pc = req[i].pc /\ req'[i].slice = req[i].slice
          /\ req'[i].kind = req[i].kind /\ req'[i].ops = req[i].ops
          /\ req'[i].read = req[i].read /\ req'[i].found = req[i].found
          /\ Active(i) => nsi'[req[i].slice] = nsi[req[i].slice]
          /\ req[i].pc # "free" => req[i].slice \in Slice
          /\ req[i].slice \in Slice => req[i].slice \in Nsr
  BY DEF Aside, SameRequests, Typed, SliceKnown, Nsr
<1>2. \A i \in Request :
          /\ Active(i)' <=> Active(i)
          /\ Open(i)' <=> Open(i)
          /\ Working(i)' <=> Working(i)
          /\ Instantiates(i)' <=> Instantiates(i)
          /\ Terminates(i)' <=> Terminates(i)
  BY <1>1 DEF Active, Open, Working, Instantiates, Terminates
<1>3. OwnAsked'
  <2> SUFFICES ASSUME NEW i \in Request
               PROVE  /\ req'[i].pc \in {"sent", "poll", "write"}
                             => req'[i].ops[req'[i].slice] = i
                      /\ Instantiates(i)' /\ req'[i].pc = "sent"
                             => nslcmop'[<<i, req'[i].slice>>].run = "no"
    BY DEF OwnAsked
  <2>1. /\ req[i].pc \in {"sent", "poll", "write"}
               => req[i].ops[req[i].slice] = i
        /\ Instantiates(i) /\ req[i].pc = "sent"
               => nslcmop[<<i, req[i].slice>>].run = "no"
    BY DEF Owned, OwnAsked
  <2>2. \A r \in Nsr : nslcmop'[<<i, r>>].run = "no" <=> nslcmop[<<i, r>>].run = "no"
    BY DEF Aside
  <2> QED  BY <1>1, <1>2, <2>1, <2>2
<1>4. RoundsKnown'
  <2> SUFFICES ASSUME NEW i \in Request, req'[i].pc = "write",
                      NEW r \in nsi'[req'[i].slice].list
               PROVE  /\ req'[i].ops[r] # NoRequest <=> r \in req'[i].read.list
                      /\ /\ r \in req'[i].read.list
                         /\ req'[i].read.all = "COMPLETED"
                         => nslcmop'[<<req'[i].ops[r], r>>].state = "COMPLETED"
    BY DEF RoundsKnown
  <2>1. Active(i) /\ nsi'[req[i].slice] = nsi[req[i].slice]
    BY <1>1 DEF Active
  <2>2. r \in nsi[req[i].slice].list /\ r \in Nsr
    BY <1>1, <2>1 DEF Typed, TypeOK, SliceRec
  <2>3. /\ req[i].ops[r] # NoRequest <=> r \in req[i].read.list
        /\ r \in req[i].read.list /\ req[i].read.all = "COMPLETED" =>
               nslcmop[<<req[i].ops[r], r>>].state = "COMPLETED"
    BY <1>1, <2>2 DEF Owned, RoundsKnown
  <2>4. req[i].ops[r] \in Request \cup {NoRequest}
    BY <2>2, OpAtTyped
  <2>5. CASE r \in req[i].read.list /\ req[i].read.all = "COMPLETED"
    BY <1>1, <2>1, <2>2, <2>3, <2>4, <2>5 DEF Aside
  <2> QED  BY <1>1, <2>3, <2>5
<1>5. WorkKnown'
  <2>1. \A i \in Request : Working(i) => Active(i)
    BY DEF Working, Active
  <2> QED  BY <1>1, <1>2, <2>1 DEF Owned, WorkKnown
<1>6. EndsInTurn'
  <2>1. "repeated" \notin marks' => "repeated" \notin marks
    BY DEF Aside
  <2> QED  BY <1>1, <1>2, <2>1 DEF Owned, EndsInTurn
<1>7. SharesKnown'
  <2>1. ASSUME NEW i \in Request, NEW s \in SharedNs
        PROVE  ShareKnown(i, s)'
    <3>1. ShareKnown(i, s)
      BY DEF Owned, SharesKnown
    <3>2. CASE Active(i)
      BY <1>1, <1>2, <3>1, <3>2 DEF ShareKnown, ActedOn
    <3>3. CASE ~Active(i)
      BY <1>1, <3>3 DEF ShareKnown, ActedOn, Active
    <3> QED  BY <3>2, <3>3
  <2>2. ASSUME NEW i \in Request, Instantiates(i)', Open(i)'
        PROVE  req'[i].read.list \subseteq nsi'[req'[i].slice].list
    <3>1. Active(i) /\ Open(i) /\ Instantiates(i)
      BY <1>2, <2>2 DEF Open, Active
    <3> QED  BY <1>1, <3>1 DEF Owned, SharesKnown
  <2> QED  BY <2>1, <2>2 DEF SharesKnown
<1>8. UserFound'
  <2> SUFFICES ASSUME NEW t \in Request, Terminates(t)', req'[t].pc = "act",
                      req'[t].found # NoRequest, NEW s \in Shared(req'[t].read.list)
               PROVE  Used(req[t].slice, s)'
    BY DEF UserFound
  <2>1. Open(t)
    BY <1>1 DEF Open
  <2>2. UNCHANGED nsi
    BY <2>1 DEF Aside
  <2>3. Used(req[t].slice, s)
    BY <1>1, <1>2 DEF Owned, UserFound
  <2> QED  BY <1>1, <2>2, <2>3 DEF Used, OthersListing, There
<1> QED  BY <1>3, <1>4, <1>5, <1>6, <1>7, <1>8

-----------------------------------------------------------------------------
(* The handlers of NBI                                                      *)

\* A handler changes slice n, which nobody uses, or deletes NSs that no slice
\* lists.
HandlerAside(n) ==
    /\ SameRequests /\ marks \subseteq marks' /\ \A i \in Request : ~Open(i)
    /\ OnlySlice(n)
    /\ \/ nsi'[n] = nsi[n]
       \/ /\ There(n) => ~nsi[n].instantiated
          /\ \A i \in Request : Active(i) => req[i].slice # n
          /\ \A r \in Nsr : nsi'[n].uses[r] = NoRequest
    /\ \A q \in Request, r \in Nsr :
           /\ nslcmop'[<<q, r>>].run = nslcmop[<<q, r>>].run
           /\ \/ nslcmop'[<<q, r>>].state = nslcmop[<<q, r>>].state
              \/ /\ nslcmop'[<<q, r>>].state = "none"
                 /\ \A m \in Slice : There(m) => r \notin nsi[m].list
    /\ \A r \in Nsr : nsr'[r] = "instantiated" => nsr[r] = "instantiated"

LEMMA ListedNss ==
    ASSUME Typed, NEW m \in Slice
    PROVE  nsi[m].list \subseteq Nsr
BY DEF Typed, TypeOK, SliceRec

LEMMA HandlerAsideKeeps ==
    ASSUME Typed, Sound, Owned, NEW n \in Slice, HandlerAside(n)
    PROVE  /\ OwnAsked' /\ RoundsKnown' /\ WorkKnown' /\ EndsInTurn'
           /\ SharesKnown' /\ UserFound' /\ EndsFirst'
           /\ NobodyGaveUp' => NobodyGaveUp /\ Claimed' /\ Held'
<1>1. \A i \in Request :
          /\ req'[i].pc = req[i].pc /\ req'[i].slice = req[i].slice
          /\ req'[i].kind = req[i].kind /\ req'[i].ops = req[i].ops
          /\ req'[i].read = req[i].read /\ req'[i].found = req[i].found
          /\ req[i].pc # "free" => req[i].slice \in Slice
          /\ ~Open(i)
  BY DEF HandlerAside, SameRequests, Typed, SliceKnown
<1>2. \A q \in Request, r \in Nsr :
          /\ nslcmop'[<<q, r>>].run = nslcmop[<<q, r>>].run
          /\ \/ nslcmop'[<<q, r>>].state = nslcmop[<<q, r>>].state
             \/ /\ nslcmop'[<<q, r>>].state = "none"
                /\ \A m \in Slice : There(m) => r \notin nsi[m].list
  BY DEF HandlerAside
<1>3. \A m \in Slice : m # n => nsi'[m] = nsi[m]
  BY DEF HandlerAside, OnlySlice
<1>4. \A i \in Request :
          /\ Instantiates(i)' <=> Instantiates(i)
          /\ Terminates(i)' <=> Terminates(i)
  BY <1>1 DEF Instantiates, Terminates
<1>5. Aside
  <2>1. ASSUME NEW i \in Request, Active(i)
        PROVE  nsi'[req[i].slice] = nsi[req[i].slice] /\ There(req[i].slice)
               /\ req[i].slice \in Slice
    <3>1. req[i].slice \in Slice /\ There(req[i].slice)
      BY <1>1, <2>1 DEF Active, Sound, Alive
    <3> QED  BY <1>3, <2>1, <3>1 DEF HandlerAside
  <2>2. ASSUME NEW i \in Request, NEW q \in Request, NEW r \in Nsr, Active(i),
               r \in nsi[req[i].slice].list,
               nslcmop[<<q, r>>].state = "COMPLETED"
        PROVE  nslcmop'[<<q, r>>].state = "COMPLETED"
    BY <1>2, <2>1, <2>2
  <2> QED  BY <1>1, <1>2, <2>1, <2>2 DEF Aside, HandlerAside
<1>6. \A q \in Request, r \in Nsr :
          /\ Processing(<<q, r>>)' => Processing(<<q, r>>)
          /\ nslcmop'[<<q, r>>].state = "COMPLETED"
                 => nslcmop[<<q, r>>].state = "COMPLETED"
  BY <1>2 DEF Processing
<1>7. \A q \in Request, r \in Nsr : ToCome(q, r)' => ToCome(q, r)
  BY <1>2, <1>4, <1>6 DEF ToCome
<1>8. EndsFirst'
  BY <1>2, <1>4, <1>6, <1>7 DEF Owned, EndsFirst
<1>9. ASSUME NobodyGaveUp'
      PROVE  NobodyGaveUp
  <2> SUFFICES ASSUME NEW i \in Request, Instantiates(i), req[i].pc = "over",
                      req[i].ops[req[i].slice] # NoRequest
               PROVE  nslcmop[<<i, req[i].slice>>].run # "no"
    BY DEF NobodyGaveUp
  <2>1. req[i].slice \in Nsr
    BY <1>1 DEF Nsr
  <2>2. nslcmop'[<<i, req'[i].slice>>].run # "no"
    BY <1>1, <1>4, <1>9 DEF NobodyGaveUp
  <2> QED  BY <1>1, <1>2, <2>1, <2>2
<1>10. ASSUME NobodyGaveUp
       PROVE  Claimed' /\ Held'
  <2>1. Claimed /\ Held
    BY <1>10 DEF Owned
  <2>2. \A m \in Slice : Comes(m)' <=> Comes(m)
    BY <1>1, <1>4 DEF Comes
  <2>3. Claimed'
    <3> SUFFICES ASSUME NEW m \in Slice, NEW s \in Shared(nsi'[m].list),
                        There(m)', nsi'[m].uses[s] # NoRequest
                 PROVE  nsi'[m].instantiated \/ Comes(m)'
      BY DEF Claimed
    <3>1. s \in Nsr
      BY DEF Shared, Nsr
    <3>2. nsi'[m] = nsi[m]
      BY <1>3, <3>1 DEF HandlerAside
    <3> QED  BY <2>1, <2>2, <3>2 DEF Claimed, There
  <2>4. ASSUME NEW m \in Slice, NEW r \in Nsr, NEW q \in Request \cup {NoRequest},
               Holder(m, r, q)
        PROVE  Holder(m, r, q)'
    <3>1. nsi'[m] = nsi[m]
      <4>1. CASE m = n /\ nsi'[n] # nsi[n]
        <5>1. /\ There(m) => ~nsi[m].instantiated
              /\ \A i \in Request : Active(i) => req[i].slice # m
          BY <4>1 DEF HandlerAside
        <5>2. There(m) /\ r \in nsi[m].list
          BY <2>4 DEF Holder
        <5>3. Uses(m, r)
          BY <2>4, <5>1, <5>2 DEF Holder
        <5>4. Comes(m)
          BY <2>1, <5>1, <5>2, <5>3 DEF Claimed, Uses, Shared
        <5> QED  BY <5>1, <5>4 DEF Comes, Active
      <4> QED  BY <1>3, <4>1
    <3>2. \A t \in Request : Leaves(t, r, q)' => Leaves(t, r, q)
      BY <1>1, <1>4, <1>6 DEF Leaves, ActedOn
    <3> QED  BY <1>1, <2>4, <3>1, <3>2 DEF Holder, There, Uses
  <2>5. \A r \in Nsr, q \in Request \cup {NoRequest} :
            Needed(r, q)' => Needed(r, q)
    BY <1>7 DEF Needed, HandlerAside
  <2> QED  BY <2>1, <2>3, <2>4, <2>5 DEF Held
<1> QED  BY <1>5, <1>8, <1>9, <1>10, AsideKeeps

\* What a step that goes well keeps.
OwnedStays == Owned' /\ (NobodyGaveUp' => NobodyGaveUp)

LEMMA HandlerOwned ==
    ASSUME Typed, Sound, Owned, NEW n \in Slice, HandlerAside(n), OwnListed'
    PROVE  OwnedStays
BY HandlerAsideKeeps DEF OwnedStays, Owned

\* A handler that changes no slice and no operation.
LEMMA HandlerOnly ==
    ASSUME NEW n \in Slice, marks \subseteq marks', \A i \in Request : ~Open(i),
           \A r \in Nsr : nsr'[r] = "instantiated" => nsr[r] = "instantiated",
           UNCHANGED <<nsi, nslcmop, req>>
    PROVE  HandlerAside(n)
BY DEF HandlerAside, SameRequests, OnlySlice

LEMMA FindSharedOwns ==
    ASSUME Typed, Undisturbed', Sound, Owned, NEW n \in Slice, FindShared(n)
    PROVE  OwnedStays
<1>1. /\ NbiFree /\ OnlyHandler(n) /\ UNCHANGED <<nsi, nslcmop, req>>
      /\ \E s \in SharedNs :
             /\ handler'[n] = [pc |-> "new", list |-> {s, n}]
             /\ \A r \in Nsr :
                    nsr'[r] = IF r = n \/ (r = s /\ Listed = {})
                                THEN "idle" ELSE nsr[r]
  BY FindSharedDoes
<1>2. HandlerAside(n)
  <2>1. marks \subseteq marks'
    BY DEF FindShared
  <2>2. \A r \in Nsr : nsr'[r] = "instantiated" => nsr[r] = "instantiated"
    BY <1>1
  <2> QED  BY <1>1, <2>1, <2>2, HandlerOnly DEF NbiFree
<1>3. OwnListed'
  BY <1>1 DEF Owned, OwnListed, OnlyHandler, There
<1> QED  BY <1>2, <1>3, HandlerOwned

LEMMA CreateSliceOwns ==
    ASSUME Typed, Undisturbed', Sound, Owned, NEW n \in Slice, CreateSlice(n)
    PROVE  OwnedStays
<1>1. /\ handler[n].pc = "new" /\ handler'[n] = Idle
      /\ nsi'[n].life = "there" /\ nsi'[n].list = handler[n].list
      /\ nsi'[n].uses = nsi[n].uses /\ OnlyHandler(n) /\ OnlySlice(n)
      /\ UNCHANGED <<nsr, nslcmop, req, marks>>
  BY CreateSliceDoes
<1>2. nsi[n] = NewSlice
  BY <1>1 DEF Sound, Alive
<1>3. /\ ~There(n) /\ \A r \in Nsr : nsi'[n].uses[r] = NoRequest
  BY <1>1, <1>2 DEF There, NewSlice, NoUse
<1>4. \A i \in Request : ~Open(i) /\ (Active(i) => req[i].slice # n)
  BY <1>1, <1>3 DEF Sound, InTurn, Alive
<1>5. HandlerAside(n)
  BY <1>1, <1>3, <1>4 DEF HandlerAside, SameRequests
<1>6. OwnListed'
  BY <1>1 DEF Owned, OwnListed, OnlyHandler, OnlySlice, There, Idle
<1> QED  BY <1>5, <1>6, HandlerOwned

LEMMA CheckRemoveOwns ==
    ASSUME Typed, Undisturbed', Sound, Owned, NEW n \in Slice, CheckRemove(n),
           UNCHANGED <<nsi, nsr, nslcmop, req>>
    PROVE  OwnedStays
<1>1. /\ NbiFree /\ There(n) /\ OnlyHandler(n)
      /\ handler'[n] = [pc |-> "remove", list |-> nsi[n].list]
  BY CheckRemoveDoes
<1>2. marks \subseteq marks'
  BY DEF CheckRemove
<1>3. HandlerAside(n)
  BY <1>1, <1>2, HandlerOnly DEF NbiFree
<1>4. OwnListed'
  BY <1>1 DEF Owned, OwnListed, OnlyHandler, There
<1> QED  BY <1>3, <1>4, HandlerOwned

LEMMA NothingOwns ==
    ASSUME Typed, Undisturbed', Sound, Owned,
           UNCHANGED <<nsi, nsr, nslcmop, req, handler, marks>>
    PROVE  OwnedStays
<1>1. /\ OwnListed' /\ OwnAsked' /\ RoundsKnown' /\ WorkKnown' /\ EndsInTurn'
      /\ SharesKnown' /\ UserFound' /\ EndsFirst'
  BY DEF Owned, OwnListed, OwnAsked, RoundsKnown, WorkKnown, EndsInTurn,
     SharesKnown, ShareKnown, ActedOn, UserFound, Used, OthersListing, EndsFirst,
     ToCome, There, Instantiates, Terminates, Active, Working, Open, Processing
<1>2. NobodyGaveUp' <=> NobodyGaveUp
  BY DEF NobodyGaveUp, Instantiates
<1>3. Claimed' <=> Claimed
  BY DEF Claimed, Comes, Instantiates, There
<1>4. Held' <=> Held
  BY DEF Held, Holder, Needed, ToCome, Leaves, ActedOn, Uses, There,
     Instantiates, Terminates, Processing
<1> QED  BY <1>1, <1>2, <1>3, <1>4 DEF OwnedStays, Owned

LEMMA RemoveRecordOwns ==
    ASSUME Typed, Undisturbed', Sound, Owned, NEW n \in Slice, RemoveRecord(n)
    PROVE  OwnedStays
<1>1. /\ handler[n].pc = "remove" /\ handler'[n].pc \in {"shared", "own"}
      /\ handler'[n].list = handler[n].list
      /\ nsi'[n] = [NewSlice EXCEPT !.life = "gone"]
      /\ OnlyHandler(n) /\ OnlySlice(n)
      /\ UNCHANGED <<nsr, nslcmop, req, marks>>
  BY RemoveRecordDoes
<1>2. /\ nsi'[n].life = "gone" /\ \A r \in Nsr : nsi'[n].uses[r] = NoRequest
  BY <1>1 DEF NewSlice, NoUse
<1>3. ~nsi[n].instantiated
  BY <1>1 DEF Sound, Alive
<1>4. \A i \in Request : ~Open(i) /\ (Active(i) => req[i].slice # n)
  BY <1>1 DEF Sound, InTurn, Alive
<1>5. HandlerAside(n)
  BY <1>1, <1>2, <1>3, <1>4 DEF HandlerAside, SameRequests
<1>6. OwnListed'
  BY <1>1, <1>2 DEF Owned, OwnListed, OnlyHandler, OnlySlice, There
<1> QED  BY <1>5, <1>6, HandlerOwned

\* Deleting NSs that no slice lists.
LEMMA DeletionOwns ==
    ASSUME Typed, Undisturbed', Sound, Owned, NEW n \in Slice, NEW R, Deleted(R),
           \A m \in Slice : There(m) => nsi[m].list \cap R = {},
           handler[n].pc # "idle", handler'[n].list = handler[n].list \/ handler'[n] = Idle,
           OnlyHandler(n), SameRequests, UNCHANGED <<nsi, marks>>
    PROVE  OwnedStays
<1>1. \A i \in Request : ~Open(i)
  BY DEF Sound, InTurn
<1>2. \A q \in Request, r \in Nsr :
           /\ nslcmop'[<<q, r>>].run = nslcmop[<<q, r>>].run
           /\ nslcmop'[<<q, r>>].state = IF r \in R THEN "none"
                                           ELSE nslcmop[<<q, r>>].state
  BY DEF Deleted
<1>3. \A r \in Nsr : nsr'[r] = "instantiated" => nsr[r] = "instantiated"
  BY DEF Deleted
<1>4. HandlerAside(n)
  BY <1>1, <1>2, <1>3 DEF HandlerAside, OnlySlice
<1>5. OwnListed'
  BY DEF Owned, OwnListed, OnlyHandler, There, Idle
<1> QED  BY <1>4, <1>5, HandlerOwned

LEMMA RemoveSharedOwns ==
    ASSUME Typed, Undisturbed', Sound, Owned, NEW n \in Slice, RemoveShared(n)
    PROVE  OwnedStays
<1>1. /\ handler[n].pc = "shared"
      /\ handler'[n] = Idle \/ handler'[n].list = handler[n].list
      /\ OnlyHandler(n) /\ UNCHANGED <<nsi, req, marks>>
  BY RemoveSharedDoes
<1>2. PICK R \in SUBSET SharedNs :
          Deleted(R) /\ \A s \in R : OthersListing(n, s) = {}
  BY RemoveSharedDoes
<1>3. ~There(n)
  BY <1>1 DEF Sound, Alive
<1>4. \A m \in Slice : There(m) => nsi[m].list \cap R = {}
  BY <1>2, <1>3 DEF OthersListing
<1>5. SameRequests
  BY <1>1 DEF SameRequests
<1> QED  BY <1>1, <1>2, <1>4, <1>5, DeletionOwns

LEMMA RemoveOwnOwns ==
    ASSUME Typed, Undisturbed', Sound, Owned, NEW n \in Slice, RemoveOwn(n)
    PROVE  OwnedStays
<1>1. /\ handler[n].pc = "own" /\ handler'[n] = Idle
      /\ OnlyHandler(n) /\ UNCHANGED <<nsi, marks>>
      /\ \A i \in Request :
             \/ req'[i] = req[i]
             \/ req[i].slice = n /\ req'[i] = [req[i] EXCEPT !.state = "none"]
  BY RemoveOwnDoes
<1>2. PICK R \in SUBSET {n} : Deleted(R)
  BY RemoveOwnDoes
<1>3. ~There(n)
  BY <1>1 DEF Sound, Alive
<1>4. \A m \in Slice : There(m) => nsi[m].list \cap R = {}
  <2> SUFFICES ASSUME NEW m \in Slice, There(m), n \in nsi[m].list
               PROVE  FALSE
    BY <1>2
  <2>1. nsi[m].list \subseteq SharedNs \cup {m}
    BY DEF Sound, Lists, Listable
  <2>2. n = m
    BY <2>1, SliceAssumption
  <2> QED  BY <1>3, <2>2
<1>5. SameRequests
  <2> SUFFICES ASSUME NEW i \in Request
               PROVE  /\ req'[i].pc = req[i].pc /\ req'[i].slice = req[i].slice
                      /\ req'[i].kind = req[i].kind /\ req'[i].ops = req[i].ops
                      /\ req'[i].read = req[i].read
                      /\ req'[i].found = req[i].found
    BY DEF SameRequests
  <2>1. req[i] \in ReqRec
    BY DEF Typed, TypeOK
  <2> QED  BY <1>1, <2>1 DEF ReqRec
<1> QED  BY <1>1, <1>2, <1>4, <1>5, DeletionOwns

-----------------------------------------------------------------------------
(* The tasks of NS operations                                               *)

\* No instantiation of NS x before request k is to come.
FirstOn(k, x) == \A q \in Request : q < k => ~ToCome(q, x)

\* What the operation of request k on NS x does: an instantiation makes the NS
\* instantiated, a termination works and ends when none before it is to come.
Orderly(k, x) ==
    /\ Terminates(k) =>
           /\ nslcmop'[<<k, x>>].run = "work" => FirstOn(k, x)
           /\ nslcmop'[<<k, x>>].state = "COMPLETED"
                  => FirstOn(k, x) /\ nsr'[x] # "instantiated"
    /\ \A r \in Nsr : nsr'[r] = "instantiated" =>
           nsr[r] = "instantiated" \/ (r = x /\ ToCome(k, x))

LEMMA NsTaskOwns ==
    ASSUME Typed, Sound, Owned, NEW k \in Request, NEW x \in Nsr,
           NsTaskStep(k, x), Orderly(k, x)
    PROVE  OwnedStays
<1>1. UNCHANGED <<nsi, req, handler, marks>>
  BY DEF NsTaskStep
<1>2. \A q \in Request, r \in Nsr :
          ~(q = k /\ r = x) => nslcmop'[<<q, r>>] = nslcmop[<<q, r>>]
  BY DEF NsTaskStep
<1>3. /\ nslcmop[<<k, x>>].run \in {"wait", "work"}
      /\ nslcmop'[<<k, x>>].run \in {"over", "work"}
      /\ nslcmop[<<k, x>>].state # "COMPLETED"
      /\ nslcmop'[<<k, x>>].run = "work" => Processing(<<k, x>>)
      /\ Processing(<<k, x>>)' => Processing(<<k, x>>)
  <2>1. nslcmop[<<k, x>>].run \in {"wait", "work"}
    BY DEF NsTaskStep
  <2>2. nslcmop[<<k, x>>].state # "COMPLETED"
    BY <2>1 DEF Sound, OpsKnown
  <2> QED  BY <2>1, <2>2 DEF NsTaskStep, Processing
<1>4. \A q \in Request, r \in Nsr :
          /\ nslcmop'[<<q, r>>].run = "no" <=> nslcmop[<<q, r>>].run = "no"
          /\ nslcmop[<<q, r>>].state = "COMPLETED"
                 => nslcmop'[<<q, r>>].state = "COMPLETED"
          /\ Processing(<<q, r>>)' => Processing(<<q, r>>)
  <2> SUFFICES ASSUME NEW q \in Request, NEW r \in Nsr
               PROVE  /\ nslcmop'[<<q, r>>].run = "no"
                             <=> nslcmop[<<q, r>>].run = "no"
                      /\ nslcmop[<<q, r>>].state = "COMPLETED"
                             => nslcmop'[<<q, r>>].state = "COMPLETED"
                      /\ Processing(<<q, r>>)' => Processing(<<q, r>>)
    OBVIOUS
  <2>1. CASE q = k /\ r = x
    BY <1>3, <2>1
  <2>2. CASE ~(q = k /\ r = x)
    BY <1>2, <2>2 DEF Processing
  <2> QED  BY <2>1, <2>2
<1>5. Aside
  BY <1>1, <1>4 DEF Aside, SameRequests
<1>6. OwnListed'
  BY <1>1 DEF Owned, OwnListed, There
<1>7. \A i \in Request :
          /\ Instantiates(i)' <=> Instantiates(i)
          /\ Terminates(i)' <=> Terminates(i)
          /\ ~(Instantiates(i) /\ Terminates(i))
  BY <1>1 DEF Instantiates, Terminates
<1>8. ASSUME NEW q \in Request, NEW r \in Nsr, ToCome(q, r)'
      PROVE  ToCome(q, r)
  <2>1. CASE q = k /\ r = x
    BY <1>3, <1>4, <1>7, <1>8, <2>1 DEF ToCome
  <2>2. CASE ~(q = k /\ r = x)
    BY <1>2, <1>4, <1>7, <1>8, <2>2 DEF ToCome
  <2> QED  BY <2>1, <2>2
<1>9. EndsFirst'
  <2> SUFFICES ASSUME NEW t \in Request, NEW q \in Request, NEW r \in Nsr,
                      Terminates(t), q < t, Processing(<<t, r>>)',
                      nslcmop'[<<t, r>>].run = "work"
               PROVE  ~ToCome(q, r)
    BY <1>7, <1>8 DEF EndsFirst
  <2>1. CASE t = k /\ r = x
    BY <2>1 DEF Orderly, FirstOn
  <2>2. CASE ~(t = k /\ r = x)
    BY <1>2, <1>4, <2>2 DEF Owned, EndsFirst
  <2> QED  BY <2>1, <2>2
<1>10. ASSUME NobodyGaveUp'
       PROVE  NobodyGaveUp
  <2> SUFFICES ASSUME NEW i \in Request, Instantiates(i), req[i].pc = "over",
                      req[i].ops[req[i].slice] # NoRequest
               PROVE  nslcmop[<<i, req[i].slice>>].run # "no"
    BY DEF NobodyGaveUp
  <2>1. req[i].slice \in Nsr
    BY DEF Typed, SliceKnown, Nsr
  <2>2. nslcmop'[<<i, req[i].slice>>].run # "no"
    BY <1>1, <1>7, <1>10 DEF NobodyGaveUp
  <2> QED  BY <1>4, <2>1, <2>2
<1>11. ASSUME NobodyGaveUp
       PROVE  Claimed' /\ Held'
  <2>1. Claimed /\ Held
    BY <1>11 DEF Owned
  <2>2. Claimed'
    BY <1>1, <1>7, <2>1 DEF Claimed, Comes, There
  <2>3. ASSUME NEW t \in Request, NEW r \in Nsr, Terminates(t),
               nslcmop'[<<t, r>>].state = "COMPLETED"
        PROVE  \/ nslcmop[<<t, r>>].state = "COMPLETED"
               \/ t = k /\ r = x /\ FirstOn(k, x) /\ nsr'[x] # "instantiated"
    <3>1. CASE t = k /\ r = x
      BY <2>3, <3>1 DEF Orderly
    <3>2. CASE ~(t = k /\ r = x)
      BY <1>2, <2>3, <3>2
    <3> QED  BY <3>1, <3>2
  <2>4. ASSUME NEW t \in Request, NEW r \in Nsr, NEW q \in Request \cup {NoRequest},
               Needed(r, q)', Leaves(t, r, q)'
        PROVE  Leaves(t, r, q)
    <3>1. ActedOn(t, r) /\ Terminates(t)
      BY <1>1, <1>7, <2>4 DEF Leaves, ActedOn
    <3>2. CASE nslcmop'[<<t, r>>].state # "COMPLETED"
      BY <1>1, <2>4, <3>1, <3>2 DEF Leaves
    <3>3. CASE nslcmop[<<t, r>>].state = "COMPLETED"
      BY <3>1, <3>3 DEF Leaves
    <3>4. CASE t = k /\ r = x /\ FirstOn(k, x) /\ nsr'[x] # "instantiated"
      <4>1. q # NoRequest /\ q \in Request
        BY <2>4, <3>4 DEF Needed
      <4>2. ToCome(q, x)
        BY <1>8, <2>4, <3>4, <4>1 DEF Needed
      <4>3. t <= q
        BY <3>4, <4>1, <4>2 DEF FirstOn, Request
      <4> QED  BY <3>1, <4>3 DEF Leaves
    <3> QED  BY <2>3, <3>1, <3>2, <3>3, <3>4
  <2>5. ASSUME NEW m \in Slice, NEW r \in Nsr, NEW q \in Request \cup {NoRequest},
               Holder(m, r, q), Needed(r, q)'
        PROVE  Holder(m, r, q)'
    BY <1>1, <2>4, <2>5 DEF Holder, There, Uses
  <2>6. ASSUME NEW r \in Nsr, NEW q \in Request \cup {NoRequest}, Needed(r, q)'
        PROVE  \E m \in Slice : Holder(m, r, q)'
    <3>1. CASE Needed(r, q)
      BY <2>1, <2>5, <2>6, <3>1 DEF Held
    <3>2. CASE q = NoRequest /\ r = x /\ ToCome(k, x)
      <4>1. Needed(x, k)
        BY <3>2 DEF Needed, Request, NoRequest
      <4>2. PICK m \in Slice : Holder(m, x, k)
        BY <2>1, <4>1 DEF Held
      <4>3. ASSUME NEW t \in Request, Leaves(t, x, q)'
            PROVE  Leaves(t, x, k)
        <5>1. ActedOn(t, x) /\ Terminates(t)
          BY <1>1, <1>7, <4>3 DEF Leaves, ActedOn
        <5>2. t # k
          BY <1>7, <3>2, <5>1 DEF ToCome
        <5>3. ~(t <= q)
          BY <3>2 DEF Request, NoRequest
        <5>4. nslcmop'[<<t, x>>] = nslcmop[<<t, x>>]
          BY <1>2, <5>2
        <5> QED  BY <1>1, <4>3, <5>1, <5>3, <5>4 DEF Leaves
      <4>4. Holder(m, r, q)'
        BY <1>1, <3>2, <4>2, <4>3 DEF Holder, There, Uses
      <4> QED  BY <4>4
    <3>3. Needed(r, q) \/ (q = NoRequest /\ r = x /\ ToCome(k, x))
      BY <1>8, <2>6 DEF Needed, Orderly
    <3> QED  BY <3>1, <3>2, <3>3
  <2> QED  BY <2>2, <2>6 DEF Held
<1> QED
  BY <1>5, <1>6, <1>9, <1>10, <1>11, AsideKeeps DEF OwnedStays, Owned

\* An operation begins to work, or ends, when no earlier one on its NS is to come.
LEMMA NsTurnFirst ==
    ASSUME NEW k \in Request, NEW x \in Nsr, NsTurn(<<k, x>>)
    PROVE  FirstOn(k, x)
<1> SUFFICES ASSUME NEW q \in Request, q < k, ToCome(q, x)
             PROVE  FALSE
  BY DEF FirstOn
<1> DEFINE p == <<q, x>>
<1>1. p \in EarlierNsOps(<<k, x>>)
  BY DEF EarlierNsOps, ToCome
<1>2. NsStuck(p)
  BY <1>1 DEF NsTurn
<1> QED  BY <1>2 DEF NsStuck, ToCome

LEMMA NsStartSees ==
    ASSUME Typed, NEW k \in Request, NEW x \in Nsr, NsStart(<<k, x>>)
    PROVE  /\ nslcmop[<<k, x>>].run = "wait" /\ NsTurn(<<k, x>>)
           /\ \/ /\ OpEnds(<<k, x>>, "COMPLETED") /\ UNCHANGED nsr
                 /\ ~Processing(<<k, x>>) \/ (Terminates(k) /\ nsr[x] = "idle")
              \/ /\ Processing(<<k, x>>) /\ OnlyOp(<<k, x>>)
                 /\ nslcmop'[<<k, x>>].run = "work"
                 /\ nslcmop'[<<k, x>>].state = nslcmop[<<k, x>>].state
                 /\ ~(Terminates(k) /\ nsr[x] = "idle")
                 /\ \A r \in Nsr :
                        nsr'[r] = IF r = x THEN "instantiated" ELSE nsr[r]
           /\ UNCHANGED <<nsi, req, handler, marks>>
<1> DEFINE o == <<k, x>>
<1>1. o \in Request \X Nsr /\ o[1] = k /\ o[2] = x
  OBVIOUS
<1>2. nslcmop \in [Request \X Nsr -> NsOpRec] /\ nslcmop[o] \in NsOpRec
  BY <1>1 DEF Typed, TypeOK
<1> HIDE DEF o
<1>3. NsStart(o)
  BY DEF o
<1>4. /\ nslcmop[o].run = "wait" /\ NsTurn(o)
      /\ UNCHANGED <<nsi, req, handler, marks>>
  BY <1>3 DEF NsStart
<1>5. CASE ~Processing(o) \/ (Terminates(k) /\ nsr[x] = "idle")
  <2>1. NsEnds(o, "COMPLETED") /\ UNCHANGED nsr
    BY <1>1, <1>3, <1>5 DEF NsStart, NsBegins, Terminates
  <2>2. OpEnds(o, "COMPLETED")
    BY <1>1, <2>1, NsEndsDoes
  <2> QED  BY <1>4, <1>5, <2>1, <2>2 DEF o
<1>6. CASE Processing(o) /\ ~(Terminates(k) /\ nsr[x] = "idle")
  <2>1. /\ nslcmop' = [nslcmop EXCEPT ![o].run = "work"]
        /\ nsr' = [nsr EXCEPT ![x] = "instantiated"]
    BY <1>1, <1>3, <1>6 DEF NsStart, NsBegins, Terminates
  <2>2. /\ OnlyOp(o) /\ nslcmop'[o].run = "work"
        /\ nslcmop'[o].state = nslcmop[o].state
    BY <1>1, <1>2, <2>1 DEF OnlyOp, NsOpRec
  <2>3. \A r \in Nsr : nsr'[r] = IF r = x THEN "instantiated" ELSE nsr[r]
    BY <2>1 DEF Typed, TypeOK
  <2> QED  BY <1>4, <1>6, <2>2, <2>3 DEF o
<1> QED  BY <1>5, <1>6

LEMMA NsStartOwns ==
    ASSUME Typed, Sound, Owned, NEW k \in Request, NEW x \in Nsr,
           NsStart(<<k, x>>)
    PROVE  OwnedStays
<1>1. /\ nslcmop[<<k, x>>].run = "wait" /\ NsTurn(<<k, x>>)
      /\ UNCHANGED <<nsi, req, handler, marks>>
  BY NsStartSees
<1>2. FirstOn(k, x)
  BY <1>1, NsTurnFirst
<1>3. nslcmop[<<k, x>>].state \in {"none", "PROCESSING"}
  <2>1. nslcmop[<<k, x>>].state \notin {"COMPLETED", "FAILED"}
    BY <1>1 DEF Sound, OpsKnown
  <2> QED  BY <2>1 DEF Typed, TypeOK, NsOpRec
<1>4. CASE /\ OpEnds(<<k, x>>, "COMPLETED") /\ UNCHANGED nsr
           /\ ~Processing(<<k, x>>) \/ (Terminates(k) /\ nsr[x] = "idle")
  <2>1. NsTaskStep(k, x)
    BY <1>1, <1>4, OpEndsSteps DEF Exist
  <2>2. Orderly(k, x)
    BY <1>2, <1>3, <1>4 DEF Orderly, OpEnds, Processing
  <2> QED  BY <2>1, <2>2, NsTaskOwns
<1>5. CASE /\ Processing(<<k, x>>) /\ OnlyOp(<<k, x>>)
           /\ nslcmop'[<<k, x>>].run = "work"
           /\ nslcmop'[<<k, x>>].state = nslcmop[<<k, x>>].state
           /\ ~(Terminates(k) /\ nsr[x] = "idle")
           /\ \A r \in Nsr :
                  nsr'[r] = IF r = x THEN "instantiated" ELSE nsr[r]
  <2>1. Exist(x)
    BY <1>5 DEF Sound, OpsKnown
  <2>2. NsTaskStep(k, x)
    BY <1>1, <1>5, <2>1 DEF NsTaskStep, OnlyOp, Exist, Processing
  <2>3. nsr[x] = "instantiated" \/ ToCome(k, x)
    <3>1. Instantiates(k) \/ Terminates(k)
      BY DEF Typed, TypeOK, ReqRec, Instantiates, Terminates
    <3> QED  BY <1>1, <1>5, <2>1, <3>1 DEF ToCome, Exist
  <2>4. Orderly(k, x)
    BY <1>2, <1>5, <2>3 DEF Orderly, Processing
  <2> QED  BY <2>2, <2>4, NsTaskOwns
<1> QED  BY <1>4, <1>5, NsStartSees

LEMMA NsDoneOwns ==
    ASSUME Typed, Undisturbed', Sound, Owned, NEW k \in Request, NEW x \in Nsr,
           NsDone(<<k, x>>)
    PROVE  OwnedStays
<1> DEFINE o == <<k, x>>
<1>1. /\ nslcmop[o].run = "work" /\ OpEnds(o, "COMPLETED")
      /\ \A r \in Nsr :
             nsr'[r] = IF r = x /\ Terminates(k) /\ nsr[r] = "instantiated"
                         THEN "idle" ELSE nsr[r]
      /\ UNCHANGED <<nsi, req, handler, marks>>
  <2>1. o \in Request \X Nsr /\ o[1] = k /\ o[2] = x
    OBVIOUS
  <2> HIDE DEF o
  <2> QED  BY <2>1, NsDoneDoes DEF o
<1>2. NsTaskStep(k, x)
  BY <1>1, OpEndsSteps DEF Exist
<1>3. ASSUME Terminates(k), nslcmop'[o].state = "COMPLETED"
      PROVE  FirstOn(k, x) /\ nsr'[x] # "instantiated"
  <2>1. nslcmop[o].state # "none"
    BY <1>1, <1>3 DEF OpEnds
  <2>2. nslcmop[o].state \notin {"COMPLETED", "FAILED"}
    BY <1>1 DEF Sound, OpsKnown
  <2>3. nslcmop[o].state \in {"none", "PROCESSING", "COMPLETED", "FAILED"}
    BY DEF Typed, TypeOK, NsOpRec
  <2>4. Processing(<<k, x>>)
    BY <2>1, <2>2, <2>3 DEF Processing
  <2>5. FirstOn(k, x)
    BY <1>1, <1>3, <2>4 DEF Owned, EndsFirst, FirstOn
  <2> QED  BY <1>1, <1>3, <2>5
<1>4. Orderly(k, x)
  BY <1>1, <1>3 DEF Orderly, OpEnds
<1> QED  BY <1>2, <1>4, NsTaskOwns

LEMMA NsFailsOwns ==
    ASSUME Typed, Undisturbed', Sound, Owned, NEW k \in Request, NEW x \in Nsr,
           NsFails(<<k, x>>) \/ NsGivesUp(<<k, x>>)
    PROVE  OwnedStays
<1> DEFINE o == <<k, x>>
<1>1. /\ nslcmop[o].run \in {"wait", "work"} /\ OpEnds(o, "FAILED")
      /\ UNCHANGED <<nsi, nsr, req, handler, marks>>
  <2>1. o \in Request \X Nsr
    OBVIOUS
  <2> HIDE DEF o
  <2> QED  BY <2>1, NsFailsDoes DEF o
<1>2. NsTaskStep(k, x)
  BY <1>1, OpEndsSteps DEF Exist
<1>3. Orderly(k, x)
  BY <1>1 DEF Orderly, OpEnds
<1> QED  BY <1>2, <1>3, NsTaskOwns

-----------------------------------------------------------------------------
(* The tasks of slice operations                                            *)

\* What a task does with its slice: it leaves out only NSs it has no operation
\* on, it works on a slice that is instantiated, and ends that only when all its
\* operations have ended well.
Careful(i) ==
    LET n == req[i].slice
    IN /\ \A r \in nsi[n].list :
              r \notin nsi'[n].list => req[i].ops[r] = NoRequest
       /\ Working(i)' => nsi'[n].instantiated
       /\ nsi[n].instantiated /\ ~nsi'[n].instantiated =>
              /\ Terminates(i) /\ req'[i].pc = "over"
              /\ \A r \in nsi[n].list :
                     req[i].ops[r] # NoRequest =>
                         nslcmop[<<req[i].ops[r], r>>].state = "COMPLETED"
       /\ req'[i].pc = "write" =>
              \A r \in nsi[n].list :
                  /\ req[i].ops[r] # NoRequest <=> r \in req'[i].read.list
                  /\ /\ r \in req'[i].read.list
                     /\ req'[i].read.all = "COMPLETED"
                     => nslcmop'[<<req[i].ops[r], r>>].state = "COMPLETED"
       /\ Instantiates(i) /\ req[i].pc = "sent" =>
              \/ nsi'[n].instantiated
              \/ req'[i].pc = "over" /\ UNCHANGED nslcmop

LEMMA TaskOwns ==
    ASSUME Typed, Sound, Owned, NEW i \in Request, TaskStep(i), Careful(i),
           NEW O, MayLaunch(i, O), Launched(O)
    PROVE  OwnedStays
<1> DEFINE n == req[i].slice
<1>1. /\ req[i].pc \in {"sent", "poll", "write"}
      /\ req'[i].pc \in {"poll", "write", "over"}
      /\ OnlySlice(n) /\ (Begun(i) \/ UNCHANGED nsi)
      /\ UNCHANGED <<nsr, handler, marks>>
      /\ req'[i].pc = "write" => nsi'[n].list = nsi[n].list
      /\ \A r \in Nsr : nsi'[n].uses[r] \in {nsi[n].uses[r], NoRequest}
      /\ nsi'[n].instantiated =>
             nsi[n].instantiated \/ (Instantiates(i) /\ req[i].pc = "sent")
  BY DEF TaskStep
<1>2. /\ n \in Slice /\ There(n) /\ Active(i)
      /\ \A j \in Request :
             /\ req'[j].slice = req[j].slice /\ req'[j].kind = req[j].kind
             /\ req'[j].ops = req[j].ops
             /\ req'[j].pc = "free" <=> req[j].pc = "free"
             /\ Open(j)' <=> Open(j)
             /\ Active(j)' => Active(j)
             /\ j # i => req'[j] = req[j]
      /\ \A m \in Slice :
             /\ nsi'[m].life = nsi[m].life
             /\ nsi'[m].list \subseteq nsi[m].list
             /\ \A r \in nsi'[m].list : nsi'[m].uses[r] = nsi[m].uses[r]
             /\ nsi[m].list \subseteq Nsr
  BY <1>1, TaskFacts DEF Active
<1>3. Launching(i, O)
  BY LaunchFacts
<1>4. \A j \in Request :
          /\ Instantiates(j)' <=> Instantiates(j)
          /\ Terminates(j)' <=> Terminates(j)
          /\ ~(Instantiates(j) /\ Terminates(j))
          /\ Instantiates(j) \/ Terminates(j)
          /\ req[j].pc # "free" => req[j].slice \in Slice /\ req[j].slice \in Nsr
          /\ req[j].slice \in Slice => req[j].slice \notin SharedNs
  <2> SUFFICES ASSUME NEW j \in Request
               PROVE  /\ Instantiates(j)' <=> Instantiates(j)
                      /\ Terminates(j)' <=> Terminates(j)
                      /\ ~(Instantiates(j) /\ Terminates(j))
                      /\ Instantiates(j) \/ Terminates(j)
                      /\ req[j].pc # "free"
                             => req[j].slice \in Slice /\ req[j].slice \in Nsr
                      /\ req[j].slice \in Slice => req[j].slice \notin SharedNs
    OBVIOUS
  <2>1. req[j] \in ReqRec
    BY DEF Typed, TypeOK
  <2> QED
    BY <1>2, <2>1, SliceAssumption
    DEF Instantiates, Terminates, ReqRec, Typed, SliceKnown, Nsr
<1>5. req[i].ops[n] = i /\ i # NoRequest
  <2>1. i # NoRequest
    BY DEF Request, NoRequest
  <2>2. req[i].ops[req[i].slice] = i
    BY <1>1 DEF Owned, OwnAsked
  <2> QED  BY <2>1, <2>2
<1>6. \A j \in Request, s \in SharedNs : ShareKnown(j, s)
  BY DEF Owned, SharesKnown
<1>7. \A m \in Slice : m # n => nsi'[m] = nsi[m]
  BY <1>1 DEF OnlySlice
<1>13. \A q \in Request, r \in Nsr :
           nslcmop'[<<q, r>>].state = nslcmop[<<q, r>>].state
  <2> SUFFICES ASSUME NEW q \in Request, NEW r \in Nsr
               PROVE  nslcmop'[<<q, r>>].state = nslcmop[<<q, r>>].state
    OBVIOUS
  <2> QED  BY <1>3 DEF Launching
\* What the task leaves out belongs to a termination, and no longer to its slice.
<1>8. ASSUME NEW r \in nsi[n].list, r \notin nsi'[n].list
      PROVE  /\ r \in SharedNs /\ Terminates(i) /\ ActedOn(i, r)
             /\ req[i].ops[r] = NoRequest
             /\ nsi[n].uses[r] = NoRequest /\ Begun(i)
  <2>1. req[i].ops[r] = NoRequest
    BY <1>8 DEF Careful
  <2>2. r \in SharedNs
    <3>1. r \in SharedNs \cup {n}
      BY <1>2 DEF Sound, Lists, Listable
    <3> QED  BY <1>5, <2>1, <3>1
  <2>3. ShareKnown(i, r)
    BY <1>6, <2>2
  <2>4. ~Instantiates(i)
    BY <1>1, <2>1, <2>3 DEF ShareKnown
  <2>5. Terminates(i) /\ ActedOn(i, r)
    BY <1>1, <1>4, <2>4 DEF ActedOn
  <2> QED  BY <1>1, <1>8, <2>1, <2>2, <2>3, <2>5 DEF ShareKnown
\* So an NS that is used stays in the list.
<1>9. ASSUME NEW m \in Slice, NEW s \in SharedNs, s \in nsi[m].list,
             nsi[m].uses[s] # NoRequest
      PROVE  s \in nsi'[m].list /\ nsi'[m].uses[s] = nsi[m].uses[s]
  <2>1. s \in nsi'[m].list
    BY <1>7, <1>8, <1>9
  <2> QED  BY <1>2, <2>1
\* While an instantiation is asked for its slice keeps its list.
<1>10. ASSUME NEW j \in Request, j # i, Instantiates(j),
              req[j].pc \in {"look", "act", "own", "sent"}
       PROVE  nsi'[req[j].slice].list = nsi[req[j].slice].list
  <2>1. req[j].slice \in Slice
    BY <1>4, <1>10
  <2>2. CASE req[j].slice # n
    BY <1>7, <2>1, <2>2
  <2>3. CASE req[j].slice = n
    <3>1. CASE Instantiates(i) \/ ~Begun(i)
      <4>1. \A r \in nsi[n].list : r \in nsi'[n].list
        BY <1>4, <1>8, <3>1
      <4>2. nsi'[n].list \subseteq nsi[n].list
        BY <1>2
      <4>3. nsi'[n].list = nsi[n].list
        BY <4>1, <4>2
      <4> QED  BY <2>3, <4>3
    <3>2. CASE Terminates(i) /\ Begun(i)
      <4>1. ~(j < i)
        BY <1>10, <2>3, <3>2 DEF Begun
      <4>2. ~(i < j)
        <5>1. req[j].pc # "free"
          BY <1>10
        <5> QED  BY <1>2, <1>4, <1>10, <2>3, <3>2, <5>1 DEF Owned, EndsInTurn
      <4> QED  BY <1>10, <4>1, <4>2 DEF Request
    <3> QED  BY <1>4, <3>1, <3>2
  <2> QED  BY <2>2, <2>3
<1>11. ASSUME NEW j \in Request, j # i, Working(j)
       PROVE  nsi'[req[j].slice] = nsi[req[j].slice] /\ req[j].slice \in Slice
  <2>1. req[j].slice \in Slice
    BY <1>4, <1>11 DEF Working
  <2>2. CASE req[j].slice = n /\ Begun(i)
    <3>1. ~(j < i)
      BY <1>11, <2>2 DEF Begun, Working
    <3>2. ~(i < j)
      BY <1>1, <1>11, <2>2 DEF Sound, TasksInTurn
    <3> QED  BY <1>11, <3>1, <3>2 DEF Request
  <2> QED  BY <1>1, <1>7, <2>1, <2>2
\* Which operations the task starts.
<1>12. ASSUME NEW q \in Request, NEW r \in Nsr, nslcmop[<<q, r>>].run = "no",
              nslcmop'[<<q, r>>].run # "no"
       PROVE  /\ req[i].pc = "sent" /\ req'[i].pc = "write" /\ req[i].ops[r] = q
              /\ r \in SharedNs \/ (q = i /\ r = n)
  <2>1. /\ req[i].pc = "sent" /\ req'[i].pc = "write" /\ req[i].ops[r] = q
    BY <1>3, <1>12 DEF Launching
  <2>2. /\ r \in SharedNs \cup {n}
        /\ r \in Slice => req[i].ops[r] = i
    BY <2>1 DEF Sound, OpsKnown, Request, NoRequest
  <2> QED  BY <1>2, <2>1, <2>2
<1> HIDE DEF n
<1>14. OwnListed'
  <2>1. ASSUME NEW m \in Slice, There(m)
        PROVE  m \in nsi'[m].list
    <3>1. m \in nsi[m].list
      BY <2>1 DEF Owned, OwnListed
    <3>2. m \notin SharedNs
      BY SliceAssumption
    <3> QED  BY <1>7, <1>8, <3>1, <3>2
  <2> QED  BY <1>1, <1>2, <2>1 DEF Owned, OwnListed, There
<1>15. OwnAsked'
  <2>1. ASSUME NEW j \in Request, req'[j].pc \in {"sent", "poll", "write"}
        PROVE  req'[j].ops[req'[j].slice] = j
    <3>1. req[j].pc \in {"sent", "poll", "write"}
      BY <1>1, <1>2, <2>1
    <3> QED  BY <1>2, <3>1 DEF Owned, OwnAsked
  <2>2. ASSUME NEW j \in Request, Instantiates(j), req'[j].pc = "sent"
        PROVE  nslcmop'[<<j, req'[j].slice>>].run = "no"
    <3>1. j # i /\ req[j].pc = "sent"
      BY <1>1, <1>2, <2>2
    <3>2. nslcmop[<<j, req[j].slice>>].run = "no"
      BY <2>2, <3>1 DEF Owned, OwnAsked
    <3> QED  BY <1>2, <1>4, <1>12, <3>1, <3>2
  <2> QED  BY <1>4, <2>1, <2>2 DEF OwnAsked
<1>16. RoundsKnown'
  <2> SUFFICES ASSUME NEW j \in Request, req'[j].pc = "write",
                      NEW r \in nsi'[req'[j].slice].list
               PROVE  /\ req'[j].ops[r] # NoRequest <=> r \in req'[j].read.list
                      /\ /\ r \in req'[j].read.list
                         /\ req'[j].read.all = "COMPLETED"
                         => nslcmop'[<<req'[j].ops[r], r>>].state = "COMPLETED"
    BY DEF RoundsKnown
  <2>1. CASE j = i
    <3>1. nsi'[n].list = nsi[n].list
      BY <1>1, <2>1
    <3> QED  BY <1>2, <2>1, <3>1 DEF Careful, n
  <2>2. CASE j # i
    <3>1. Working(j) /\ req[j].pc = "write" /\ req'[j] = req[j]
      BY <1>2, <2>2 DEF Working
    <3>2. nsi'[req[j].slice] = nsi[req[j].slice] /\ req[j].slice \in Slice
      BY <1>11, <2>2, <3>1
    <3>3. r \in nsi[req[j].slice].list /\ r \in Nsr
      BY <1>2, <3>1, <3>2
    <3>4. /\ req[j].ops[r] # NoRequest <=> r \in req[j].read.list
          /\ /\ r \in req[j].read.list /\ req[j].read.all = "COMPLETED"
             => nslcmop[<<req[j].ops[r], r>>].state = "COMPLETED"
      BY <3>1, <3>3 DEF Owned, RoundsKnown
    <3>5. req[j].ops[r] \in Request \cup {NoRequest}
      BY <3>3, OpAtTyped
    <3> QED  BY <1>13, <3>1, <3>3, <3>4, <3>5
  <2> QED  BY <2>1, <2>2
<1>17. WorkKnown'
  <2> SUFFICES ASSUME NEW j \in Request, Working(j)'
               PROVE  nsi'[req'[j].slice].instantiated
    BY DEF WorkKnown
  <2>1. CASE j = i
    BY <1>2, <2>1 DEF Careful
  <2>2. CASE j # i
    <3>1. Working(j)
      BY <1>2, <2>2 DEF Working
    <3> QED  BY <1>2, <1>11, <2>2, <3>1 DEF Owned, WorkKnown
  <2> QED  BY <2>1, <2>2
\* A slice that another request counts on stays instantiated.
<1>18. ASSUME NEW m \in Slice, nsi[m].instantiated, ~nsi'[m].instantiated
       PROVE  /\ m = n /\ Terminates(i) /\ req'[i].pc = "over"
              /\ \A s \in SharedNs : ActedOn(i, s)
              /\ \A s \in SharedNs : s \in nsi[m].list => nsi[m].uses[s] = NoRequest
              /\ \A r \in nsi[m].list :
                     req[i].ops[r] # NoRequest =>
                         nslcmop[<<req[i].ops[r], r>>].state = "COMPLETED"
  <2>1. m = n
    BY <1>7, <1>18
  <2>2. Terminates(i) /\ req'[i].pc = "over"
    BY <1>18, <2>1 DEF Careful, n
  <2>3. \A s \in SharedNs : ActedOn(i, s)
    BY <1>1, <2>2 DEF ActedOn
  <2>4. \A s \in SharedNs : s \in nsi[m].list => nsi[m].uses[s] = NoRequest
    BY <1>6, <2>1, <2>3 DEF ShareKnown, n
  <2> QED  BY <1>18, <2>1, <2>2, <2>3, <2>4 DEF Careful, n
<1>19. EndsInTurn'
  <2>1. ASSUME NEW t \in Request, Terminates(t), Active(t)',
               "repeated" \notin marks
        PROVE  nsi'[req[t].slice].instantiated
    <3>1. Active(t) /\ req[t].slice \in Slice
      BY <1>2, <1>4, <2>1 DEF Active
    <3>2. nsi[req[t].slice].instantiated
      BY <2>1, <3>1 DEF Owned, EndsInTurn
    <3> SUFFICES ASSUME ~nsi'[req[t].slice].instantiated
                 PROVE  FALSE
      OBVIOUS
    <3>3. req[t].slice = n /\ Terminates(i) /\ req'[i].pc = "over"
      BY <1>18, <3>1, <3>2
    <3>4. t # i
      BY <2>1, <3>3 DEF Active
    <3>5. req[t].kind = req[i].kind
      BY <2>1, <3>3 DEF Terminates
    <3> QED
      BY <1>2, <2>1, <3>1, <3>3, <3>4, <3>5 DEF Sound, KindsInTurn, n
  <2>2. \A t, j \in Request :
             /\ Terminates(t)' /\ Active(t)' /\ t < j
             /\ req'[j].pc # "free" /\ req'[j].slice = req'[t].slice
           => Terminates(j)'
    BY <1>2, <1>4 DEF Owned, EndsInTurn
  <2> QED  BY <1>1, <1>2, <1>4, <2>1, <2>2 DEF EndsInTurn
<1>20. SharesKnown'
  <2>1. ASSUME NEW j \in Request, NEW s \in SharedNs
        PROVE  ShareKnown(j, s)'
    <3> DEFINE m == req[j].slice
    <3>1. CASE req[j].pc = "free"
      BY <1>2, <3>1 DEF ShareKnown, ActedOn
    <3>2. CASE req[j].pc # "free"
      <4>1. m \in Slice /\ ShareKnown(j, s) /\ req'[j].slice = m
        BY <1>2, <1>4, <1>6, <3>2
      <4>2. ActedOn(j, s)' => ActedOn(j, s)
        BY <1>1, <1>2, <1>4 DEF ActedOn
      <4> HIDE DEF m
      <4>3. ActedOn(j, s)' /\ s \in nsi'[m].list => nsi'[m].uses[s] = NoRequest
        BY <1>2, <4>1, <4>2 DEF ShareKnown, m
      <4>4. /\ Terminates(j)' /\ req'[j].pc \in {"look", "act"}
            /\ s \in nsi'[m].list /\ nsi'[m].uses[s] # NoRequest
            => nsi'[m].instantiated
        <5> SUFFICES ASSUME Terminates(j), req'[j].pc \in {"look", "act"},
                            s \in nsi'[m].list, nsi'[m].uses[s] # NoRequest
                     PROVE  nsi'[m].instantiated
          BY <1>4
        <5>1. /\ req[j].pc \in {"look", "act"}
              /\ s \in nsi[m].list /\ nsi[m].uses[s] # NoRequest
          BY <1>1, <1>2, <4>1
        <5>2. nsi[m].instantiated
          BY <4>1, <5>1 DEF ShareKnown, m
        <5> QED  BY <1>18, <4>1, <5>1, <5>2
      <4>5. /\ Instantiates(j)' /\ req'[j].pc \in {"own", "sent", "poll", "write"}
            /\ s \in nsi'[m].list
            => req'[j].ops[s] # NoRequest
        <5>1. req'[j].pc \in {"own", "sent", "poll", "write"}
                  => req[j].pc \in {"own", "sent", "poll", "write"}
          BY <1>1, <1>2
        <5> QED  BY <1>2, <1>4, <4>1, <5>1 DEF ShareKnown, m
      <4>6. /\ Instantiates(j)' /\ req'[j].pc \in {"look", "act", "own", "sent"}
            /\ req'[j].ops[s] # NoRequest
            => s \in nsi'[m].list
        <5> SUFFICES ASSUME Instantiates(j),
                            req'[j].pc \in {"look", "act", "own", "sent"},
                            req'[j].ops[s] # NoRequest
                     PROVE  s \in nsi'[m].list
          BY <1>4
        <5>1. j # i /\ req[j].pc \in {"look", "act", "own", "sent"}
          BY <1>1, <1>2
        <5>2. s \in nsi[m].list
          BY <1>2, <4>1, <5>1 DEF ShareKnown, m
        <5> QED  BY <1>10, <5>1, <5>2 DEF m
      <4> QED  BY <4>1, <4>3, <4>4, <4>5, <4>6 DEF ShareKnown
    <3> QED  BY <3>1, <3>2
  <2>2. ASSUME NEW j \in Request, Instantiates(j)', Open(j)'
        PROVE  req'[j].read.list \subseteq nsi'[req'[j].slice].list
    <3>1. Instantiates(j) /\ Open(j) /\ j # i /\ req'[j] = req[j]
      BY <1>1, <1>2, <1>4, <2>2 DEF Open
    <3> QED  BY <1>10, <3>1 DEF Owned, SharesKnown, Open
  <2> QED  BY <2>1, <2>2 DEF SharesKnown
<1>21. UserFound'
  <2> SUFFICES ASSUME NEW t \in Request, Terminates(t)', req'[t].pc = "act",
                      req'[t].found # NoRequest, NEW s \in Shared(req'[t].read.list)
               PROVE  Used(req[t].slice, s)'
    BY DEF UserFound
  <2>1. req'[t] = req[t]
    BY <1>1, <1>2
  <2>2. Used(req[t].slice, s)
    BY <1>4, <2>1 DEF Owned, UserFound
  <2>3. PICK m \in OthersListing(req[t].slice, s) : nsi[m].uses[s] # NoRequest
    BY <2>2 DEF Used
  <2>4. m \in Slice /\ m # req[t].slice /\ There(m) /\ s \in nsi[m].list
        /\ s \in SharedNs
    BY <2>3 DEF OthersListing, Shared
  <2>5. s \in nsi'[m].list /\ nsi'[m].uses[s] # NoRequest /\ There(m)'
    BY <1>2, <1>9, <2>3, <2>4 DEF There
  <2> QED  BY <2>1, <2>4, <2>5 DEF Used, OthersListing
\* What the task starts is to come, and belongs to its slice.
<1>22. ASSUME NEW q \in Request, NEW r \in Nsr, ToCome(q, r)', ~ToCome(q, r)
       PROVE  /\ Instantiates(i) /\ req[i].pc = "sent" /\ req'[i].pc = "write"
              /\ req[i].ops[r] = q /\ r \in nsi[n].list
              /\ r \in SharedNs \/ (q = i /\ r = n)
  <2>1. nslcmop[<<q, r>>].run = "no" /\ nslcmop'[<<q, r>>].run # "no"
        /\ Instantiates(q)
    <3>1. /\ Instantiates(q) /\ Processing(<<q, r>>)
          /\ nslcmop'[<<q, r>>].run \in {"wait", "work"}
          /\ nslcmop[<<q, r>>].run \notin {"wait", "work"}
      BY <1>4, <1>13, <1>22 DEF ToCome, Processing
    <3>2. nslcmop'[<<q, r>>].run # nslcmop[<<q, r>>].run
      BY <3>1
    <3> QED  BY <1>3, <3>1, <3>2 DEF Launching
  <2>2. /\ req[i].pc = "sent" /\ req'[i].pc = "write" /\ req[i].ops[r] = q
        /\ r \in SharedNs \/ (q = i /\ r = n)
    BY <1>12, <2>1
  <2>3. Instantiates(i)
    <3>1. CASE Terminates(i)
      <4>1. q = i
        BY <2>2, <3>1 DEF Sound, OpsKnown, Request, NoRequest
      <4> QED  BY <1>4, <2>1, <3>1, <4>1
    <3> QED  BY <1>4, <3>1
  <2>4. r \in nsi[n].list
    <3>1. CASE r \in SharedNs
      BY <1>6, <2>2, <2>3, <3>1 DEF ShareKnown, n, Request, NoRequest
    <3>2. CASE r = n
      BY <1>2, <3>2 DEF Owned, OwnListed, n
    <3> QED  BY <2>2, <3>1, <3>2
  <2> QED  BY <2>2, <2>3, <2>4
<1>23. EndsFirst'
  <2> SUFFICES ASSUME NEW t \in Request, NEW q \in Request, NEW r \in Nsr,
                      Terminates(t), q < t, Processing(<<t, r>>)',
                      nslcmop'[<<t, r>>].run = "work", ToCome(q, r)'
               PROVE  FALSE
    BY <1>4 DEF EndsFirst
  <2>1. Processing(<<t, r>>) /\ nslcmop[<<t, r>>].run = "work"
    BY <1>3, <1>13 DEF Processing, Launching
  <2>2. ~ToCome(q, r)
    BY <2>1 DEF Owned, EndsFirst
  <2>3. /\ Instantiates(i) /\ req[i].pc = "sent" /\ req[i].ops[r] = q
        /\ r \in nsi[n].list
        /\ r \in SharedNs \/ (q = i /\ r = n)
    BY <1>22, <2>2
  <2>4. ~Untouched(<<t, r>>)
    BY <2>1 DEF Untouched
  <2>5. CASE r \in SharedNs
    <3>1. Holds(q, r)
      <4>1. /\ Instantiates(i) /\ req[i].pc \in {"own", "sent"}
            /\ r \in nsi[req[i].slice].list /\ req[i].ops[r] = q
        BY <2>3 DEF n
      <4> QED  BY <4>1 DEF Holds
    <3> QED  BY <2>4, <2>5, <3>1 DEF Sound, Reliance
  <2>6. CASE q = i /\ r = n
    <3>1. req[t].slice = n
      BY <1>2, <2>4, <2>6 DEF Sound, OpsKnown
    <3> QED  BY <2>1, <2>3, <2>6, <3>1 DEF Sound, TasksInTurn, n
  <2> QED  BY <2>3, <2>5, <2>6
<1>24. ASSUME NobodyGaveUp'
       PROVE  NobodyGaveUp
  <2> SUFFICES ASSUME NEW j \in Request, Instantiates(j), req[j].pc = "over",
                      req[j].ops[req[j].slice] # NoRequest,
                      nslcmop[<<j, req[j].slice>>].run = "no"
               PROVE  FALSE
    BY DEF NobodyGaveUp
  <2>1. j # i /\ req'[j] = req[j]
    BY <1>1, <1>2
  <2>2. nslcmop'[<<j, req[j].slice>>].run # "no"
    BY <1>4, <1>24, <2>1 DEF NobodyGaveUp
  <2> QED  BY <1>4, <1>12, <2>1, <2>2
<1>25. ASSUME NobodyGaveUp, NobodyGaveUp'
       PROVE  Claimed'
  <2> SUFFICES ASSUME NEW m \in Slice, NEW s \in Shared(nsi'[m].list),
                      There(m)', nsi'[m].uses[s] # NoRequest
               PROVE  nsi'[m].instantiated \/ Comes(m)'
    BY DEF Claimed
  <2>1. There(m) /\ s \in Shared(nsi[m].list) /\ nsi[m].uses[s] # NoRequest
        /\ s \in SharedNs /\ s \in nsi[m].list
    BY <1>2 DEF There, Shared
  <2>2. nsi[m].instantiated \/ Comes(m)
    BY <1>25, <2>1 DEF Owned, Claimed
  <2>3. CASE nsi[m].instantiated
    BY <1>18, <2>1, <2>3
  <2>4. CASE Comes(m)
    <3>1. PICK j \in Request : /\ Instantiates(j) /\ req[j].pc \in {"own", "sent"}
                               /\ req[j].slice = m
      BY <2>4 DEF Comes
    <3>2. CASE j # i
      BY <1>2, <1>4, <3>1, <3>2 DEF Comes
    <3>3. CASE j = i
      <4>1. req[i].pc = "sent" /\ Instantiates(i) /\ m = n
        BY <1>1, <3>1, <3>3 DEF n
      <4>2. nslcmop[<<i, n>>].run = "no"
        BY <4>1 DEF Owned, OwnAsked, n
      <4>3. ~(req'[i].pc = "over" /\ UNCHANGED nslcmop)
        BY <1>2, <1>4, <1>5, <1>25, <4>1, <4>2 DEF NobodyGaveUp, n
      <4> QED  BY <4>1, <4>3 DEF Careful, n
    <3> QED  BY <3>2, <3>3
  <2> QED  BY <2>2, <2>3, <2>4
<1>26. ASSUME NobodyGaveUp
       PROVE  Held'
  <2>1. Held
    BY <1>26 DEF Owned
  <2>2. ASSUME NEW t \in Request, NEW r \in Nsr, NEW q \in Request \cup {NoRequest},
               Leaves(t, r, q)'
        PROVE  Leaves(t, r, q)
    <3>1. ActedOn(t, r)
      BY <1>1, <1>2, <1>4, <2>2 DEF Leaves, ActedOn
    <3> QED  BY <1>2, <1>13, <2>2, <3>1 DEF Leaves
  <2>3. ASSUME NEW m \in Slice, NEW r \in Nsr, NEW q \in Request \cup {NoRequest},
               Holder(m, r, q)
        PROVE  Holder(m, r, q)'
    <3>1. There(m)' /\ There(m) /\ r \in nsi[m].list
      BY <1>2, <2>3 DEF Holder, There
    <3>2. CASE Uses(m, r)
      BY <1>9, <3>1, <3>2 DEF Holder, Uses
    <3>3. CASE /\ nsi[m].instantiated
               /\ \A t \in Request : req[t].slice = m => ~Leaves(t, r, q)
      <4>1. r \in nsi'[m].list
        <5> SUFFICES ASSUME r \notin nsi'[m].list
                     PROVE  FALSE
          OBVIOUS
        <5>1. m = n
          BY <1>7, <3>1
        <5>2. ActedOn(i, r) /\ req[i].ops[r] = NoRequest
          BY <1>8, <3>1, <5>1
        <5> QED  BY <3>3, <5>1, <5>2 DEF Leaves, n
      <4>2. nsi'[m].instantiated
        <5> SUFFICES ASSUME ~nsi'[m].instantiated
                     PROVE  FALSE
          OBVIOUS
        <5>1. /\ m = n /\ Terminates(i)
              /\ req[i].ops[r] # NoRequest =>
                     nslcmop[<<req[i].ops[r], r>>].state = "COMPLETED"
          BY <1>18, <3>1, <3>3
        <5>2. ActedOn(i, r)
          BY <1>1, <5>1 DEF ActedOn
        <5>3. req[i].ops[r] # NoRequest => req[i].ops[r] = i
          BY <5>1 DEF Sound, OpsKnown
        <5>4. Leaves(i, r, q)
          BY <5>1, <5>2, <5>3 DEF Leaves
        <5> QED  BY <3>3, <5>1, <5>4 DEF n
      <4> QED  BY <1>2, <2>2, <3>1, <3>3, <4>1, <4>2 DEF Holder
    <3> QED  BY <2>3, <3>2, <3>3 DEF Holder
  <2>4. ASSUME NEW q \in Request, NEW r \in Nsr, ToCome(q, r)', ~ToCome(q, r)
        PROVE  \E m \in Slice : Holder(m, r, q)'
    <3>0. PICK m \in Slice : m = n
      BY <1>2
    <3>1. /\ Instantiates(i) /\ req[i].pc = "sent" /\ req'[i].pc = "write"
          /\ req[i].ops[r] = q /\ r \in nsi[n].list
          /\ r \in SharedNs \/ (q = i /\ r = n)
      BY <1>22, <2>4
    <3>2. /\ r \in nsi'[n].list /\ nsi'[n].instantiated /\ nsi'[n].life = "there"
          /\ nsi'[n].uses[r] = nsi[n].uses[r]
      BY <1>1, <1>2, <3>1 DEF Careful, Working, There, n
    <3>3. CASE r \in SharedNs
      <4>1. nsi[n].uses[r] # NoRequest
        BY <3>1, <3>3 DEF Sound, Reliance, n, Request, NoRequest
      <4> QED  BY <3>0, <3>2, <3>3, <4>1 DEF Holder, Uses, There
    <3>4. CASE q = i /\ r = n
      <4>1. ASSUME NEW t \in Request, req[t].slice = n, Leaves(t, r, q)'
            PROVE  FALSE
        <5>1. ActedOn(t, r)
          BY <2>2, <4>1 DEF Leaves
        <5>2. Terminates(t) /\ Active(t) /\ req[t].pc # "free"
          BY <5>1 DEF ActedOn, Active
        <5>3. ~(t < i)
          BY <1>1, <1>4, <3>1, <4>1, <5>2 DEF Owned, EndsInTurn, n
        <5>4. ~(i < t)
          BY <1>4, <3>1, <4>1, <5>2 DEF Sound, KindsInTurn, n
        <5>5. t # i
          BY <1>4, <3>1, <5>2
        <5> QED  BY <5>3, <5>4, <5>5 DEF Request
      <4>2. \A t \in Request : req'[t].slice = m => ~Leaves(t, r, q)'
        BY <1>2, <3>0, <4>1
      <4> QED  BY <3>0, <3>2, <4>2 DEF Holder, There
    <3> QED  BY <3>1, <3>3, <3>4
  <2> SUFFICES ASSUME NEW r \in Nsr, NEW q \in Request \cup {NoRequest},
                      Needed(r, q)'
               PROVE  \E m \in Slice : Holder(m, r, q)'
    BY DEF Held
  <2>5. CASE Needed(r, q)
    BY <2>1, <2>3, <2>5 DEF Held
  <2>6. CASE ~Needed(r, q)
    <3>1. q \in Request /\ ToCome(q, r)' /\ ~ToCome(q, r)
      BY <1>1, <2>6 DEF Needed
    <3> QED  BY <1>2, <2>4, <3>1 DEF n
  <2> QED  BY <2>5, <2>6
<1> QED
  BY <1>14, <1>15, <1>16, <1>17, <1>19, <1>20, <1>21, <1>23, <1>24, <1>25, <1>26
  DEF OwnedStays, Owned

\* A round of the poll reads every NS of the slice that has an operation.
LEMMA ReadNowAll ==
    ASSUME Typed, NEW i \in Request, req[i].slice \in Slice,
           NEW r \in nsi[req[i].slice].list, req[i].ops[r] # NoRequest
    PROVE  r \in ReadNow(i).list
<1>1. r \in Nsr
  BY ListedNss
<1>2. req[i].ops[r] \in Request
  BY <1>1, OpAtTyped
<1> DEFINE o == <<req[i].ops[r], r>>
<1>3. o \in OpsOf(i) /\ o[2] = r
  BY <1>1, <1>2 DEF OpsOf
<1> HIDE DEF o
<1>4. r \in nsi[req[i].slice].list \cap {p[2] : p \in OpsOf(i)}
  BY <1>3
<1> QED  BY <1>4 DEF ReadNow

\* What a task that goes on will write.
LEMMA RoundReads ==
    ASSUME Typed, NEW i \in Request, Start(i) \/ Poll(i) \/ Late(i),
           req'[i].pc = "write"
    PROVE  /\ req'[i].read = ReadNow(i)
           /\ Terminates(i) /\ req[i].pc = "sent" => nsi[req[i].slice].instantiated
<1>1. req \in [Request -> ReqRec] /\ req[i] \in ReqRec
  BY DEF Typed, TypeOK
<1> DEFINE now == ReadNow(i)
<1>2. ~(req' = [req EXCEPT ![i].pc = "over"])
  BY <1>1 DEF ReqRec
<1>3. \A state, slice : ~Ends(i, state, slice)
  <2> SUFFICES ASSUME NEW state, NEW slice, Ends(i, state, slice)
               PROVE  FALSE
    OBVIOUS
  <2>1. req'[i].pc = "over"
    BY <1>1 DEF Ends, ReqRec
  <2> QED  BY <2>1
<1>4. ~Fails(i)
  BY <1>3 DEF Fails
<1>5. /\ req' = [req EXCEPT ![i].pc = "write", ![i].read = now]
      /\ Terminates(i) /\ req[i].pc = "sent" => nsi[req[i].slice].instantiated
  <2>1. CASE Start(i)
    <3>1. ~StartNothing(i)
      BY <1>2 DEF StartNothing
    <3>2. CASE StartInstantiate(i)
      BY <1>3, <3>2 DEF StartInstantiate, Terminates
    <3>3. CASE StartTerminate(i)
      BY <1>2, <1>4, <3>3 DEF StartTerminate
    <3> QED  BY <2>1, <3>1, <3>2, <3>3 DEF Start
  <2>2. CASE Poll(i)
    BY <1>4, <2>2 DEF Poll
  <2>3. CASE Late(i)
    BY <1>4, <2>3 DEF Late
  <2> QED  BY <2>1, <2>2, <2>3
<1> HIDE DEF now
<1>6. req'[i].read = now
  BY <1>1, <1>5 DEF ReqRec
<1> QED  BY <1>5, <1>6 DEF now

\* What a task reads, and will write.
Round(i) ==
    \A r \in nsi[req[i].slice].list :
        /\ req[i].ops[r] # NoRequest <=> r \in req'[i].read.list
        /\ /\ r \in req'[i].read.list
           /\ req'[i].read.all = "COMPLETED"
           => nslcmop'[<<req[i].ops[r], r>>].state = "COMPLETED"

LEMMA RoundKnown ==
    ASSUME Typed, NEW i \in Request, req[i].slice \in Slice,
           Start(i) \/ Poll(i) \/ Late(i), Writes(i), NEW O, Launched(O)
    PROVE  Round(i)
<1> SUFFICES ASSUME NEW r \in nsi[req[i].slice].list
             PROVE  /\ req[i].ops[r] # NoRequest <=> r \in req'[i].read.list
                    /\ /\ r \in req'[i].read.list
                       /\ req'[i].read.all = "COMPLETED"
                       => nslcmop'[<<req[i].ops[r], r>>].state = "COMPLETED"
  BY DEF Round
<1>1. req'[i].pc = "write" /\ Reads(i, req'[i].read)
  BY DEF Writes
<1>2. req'[i].read = ReadNow(i)
  BY <1>1, RoundReads
<1>3. req[i].ops[r] # NoRequest => r \in req'[i].read.list
  BY <1>2, ReadNowAll
<1>4. r \in req'[i].read.list =>
          /\ r \in Nsr /\ req[i].ops[r] # NoRequest
          /\ req'[i].read.all = "COMPLETED"
                 => nslcmop[<<req[i].ops[r], r>>].state = "COMPLETED"
  BY <1>1 DEF Reads
<1>5. r \in Nsr
  BY ListedNss
<1>6. req[i].ops[r] \in Request \cup {NoRequest}
  BY <1>5, OpAtTyped
<1>7. req[i].ops[r] \in Request =>
          nslcmop'[<<req[i].ops[r], r>>].state = nslcmop[<<req[i].ops[r], r>>].state
  BY <1>5 DEF Launched
<1> QED  BY <1>3, <1>4, <1>6, <1>7

\* A task that ends without touching its slice.
LEMMA EndOwns ==
    ASSUME Typed, Sound, Owned, NEW i \in Request,
           req[i].pc \in {"sent", "poll", "write"}, req'[i].pc = "over",
           SameTask(i), OnlyReq(i), UNCHANGED <<nsi, nsr, nslcmop, handler, marks>>
    PROVE  OwnedStays
<1> DEFINE n == req[i].slice
<1>1. n \in Slice
  BY DEF Typed, SliceKnown
<1>2. nsi[n].shown \in {"init", "running"} => nsi[n].instantiated
  BY <1>1 DEF Sound, VldKnown
<1>3. TaskStep(i)
  BY <1>1, <1>2 DEF TaskStep, OnlySlice, Working
<1>4. MayLaunch(i, {}) /\ Launched({})
  BY NothingLaunched
<1>5. Careful(i)
  BY DEF Careful, Working
<1> QED  BY <1>3, <1>4, <1>5, TaskOwns

LEMMA FailedOwns ==
    ASSUME Typed, Sound, Owned, NEW i \in Request,
           req[i].pc \in {"sent", "poll", "write"}, Begun(i), Failed(i),
           nsi'[req[i].slice].instantiated =>
               \/ nsi[req[i].slice].instantiated
               \/ (Instantiates(i) /\ req[i].pc = "sent"),
           nsi[req[i].slice].instantiated => nsi'[req[i].slice].instantiated,
           UNCHANGED <<nsr, nslcmop, handler, marks>>
    PROVE  OwnedStays
<1> DEFINE n == req[i].slice
<1>1. n \in Slice
  BY DEF Typed, SliceKnown
<1>2. TaskStep(i)
  BY <1>1 DEF TaskStep, Failed, SameSlice, Working
<1>3. MayLaunch(i, {}) /\ Launched({})
  BY NothingLaunched
<1>4. Careful(i)
  BY DEF Careful, Failed, SameSlice, Working
<1> QED  BY <1>2, <1>3, <1>4, TaskOwns

LEMMA GiveUpOwns ==
    ASSUME Typed, Undisturbed', Sound, Owned, NEW i \in Request, GiveUp(i)
    PROVE  OwnedStays
BY GiveUpDoes, EndOwns

LEMMA StartOwns ==
    ASSUME Typed, Undisturbed', Sound, Owned, NEW i \in Request, Start(i)
    PROVE  OwnedStays
<1> DEFINE n == req[i].slice
<1>1. /\ Undisturbed /\ req[i].pc = "sent" /\ Turn(i)
      /\ UNCHANGED <<nsr, handler, notices, marks, faults>>
      /\ \/ /\ Failed(i) /\ UNCHANGED nslcmop
            /\ nsi[n].instantiated => nsi'[n].instantiated
            /\ Terminates(i) => nsi'[n].instantiated = nsi[n].instantiated
         \/ /\ req'[i].pc = "over" /\ SameTask(i) /\ OnlyReq(i)
            /\ UNCHANGED <<nsi, nslcmop>>
         \/ /\ Instantiates(i) /\ Writes(i) /\ Launched(OpsOf(i))
            /\ SameSlice(n) /\ OnlySlice(n)
            /\ nsi'[n].instantiated /\ nsi'[n].shown = "init"
         \/ /\ Terminates(i) /\ Writes(i) /\ Launched(Terminable(i))
            /\ \A o \in OpsOf(i) : nslcmop[o].state # "none"
            /\ SameSlice(n) /\ OnlySlice(n)
            /\ nsi'[n].instantiated = nsi[n].instantiated
            /\ nsi'[n].shown = "terminating"
  BY StartDoes DEF Sound
<1>2. Begun(i)
  BY <1>1, TurnBegins
<1>3. n \in Slice
  BY <1>1 DEF Typed, SliceKnown
<1>4. Instantiates(i) \/ Terminates(i)
  BY DEF Typed, TypeOK, ReqRec, Instantiates, Terminates
<1>5. ~(Instantiates(i) /\ Terminates(i))
  BY DEF Instantiates, Terminates
<1>6. CASE /\ Failed(i) /\ UNCHANGED nslcmop
           /\ nsi[n].instantiated => nsi'[n].instantiated
           /\ Terminates(i) => nsi'[n].instantiated = nsi[n].instantiated
  <2>1. nsi'[n].instantiated =>
            nsi[n].instantiated \/ (Instantiates(i) /\ req[i].pc = "sent")
    BY <1>1, <1>4, <1>6
  <2> QED  BY <1>1, <1>2, <1>6, <2>1, FailedOwns
<1>7. CASE /\ req'[i].pc = "over" /\ SameTask(i) /\ OnlyReq(i)
           /\ UNCHANGED <<nsi, nslcmop>>
  BY <1>1, <1>7, EndOwns
<1>8. CASE /\ Instantiates(i) /\ Writes(i) /\ Launched(OpsOf(i))
           /\ SameSlice(n) /\ OnlySlice(n)
           /\ nsi'[n].instantiated /\ nsi'[n].shown = "init"
  <2>1. TaskStep(i)
    BY <1>1, <1>2, <1>3, <1>8
    DEF TaskStep, Writes, Reads, SameSlice, Working
  <2>2. MayLaunch(i, OpsOf(i))
    BY <1>1, <1>5, <1>8 DEF MayLaunch, Writes
  <2>3. Round(i)
    BY <1>3, <1>8, RoundKnown
  <2>4. Careful(i)
    BY <1>8, <2>3 DEF Careful, Round, SameSlice
  <2> QED  BY <1>8, <2>1, <2>2, <2>4, TaskOwns
<1>9. CASE /\ Terminates(i) /\ Writes(i) /\ Launched(Terminable(i))
           /\ \A o \in OpsOf(i) : nslcmop[o].state # "none"
           /\ SameSlice(n) /\ OnlySlice(n)
           /\ nsi'[n].instantiated = nsi[n].instantiated
           /\ nsi'[n].shown = "terminating"
  <2>1. TaskStep(i)
    BY <1>1, <1>2, <1>3, <1>5, <1>9
    DEF TaskStep, Writes, Reads, SameSlice, Working
  <2>2. Terminable(i) \subseteq OpsOf(i)
    BY DEF Terminable
  <2>3. MayLaunch(i, Terminable(i))
    BY <1>1, <1>9, <2>2 DEF MayLaunch, Writes
  <2>4. Round(i)
    BY <1>3, <1>9, RoundKnown
  <2>5. nsi[n].instantiated
    <3>1. req'[i].pc = "write"
      BY <1>9 DEF Writes
    <3> QED  BY <1>1, <1>9, <3>1, RoundReads
  <2>6. Careful(i)
    BY <1>5, <1>9, <2>4, <2>5 DEF Careful, Round, SameSlice
  <2> QED  BY <1>9, <2>1, <2>3, <2>6, TaskOwns
<1> QED  BY <1>1, <1>6, <1>7, <1>8, <1>9

LEMMA PollOwns ==
    ASSUME Typed, Undisturbed', Sound, Owned, NEW i \in Request,
           Poll(i) \/ Late(i)
    PROVE  OwnedStays
<1> DEFINE n == req[i].slice
<1>1. /\ req[i].pc = "poll"
      /\ UNCHANGED <<nsr, nslcmop, handler, notices, marks>>
      /\ \/ /\ Failed(i)
            /\ nsi'[n].instantiated = nsi[n].instantiated
         \/ Writes(i) /\ UNCHANGED nsi
  BY PollDoes DEF Sound
<1>2. Begun(i)
  BY <1>1, TurnBegins DEF Working
<1>3. n \in Slice
  BY <1>1 DEF Typed, SliceKnown
<1>4. CASE /\ Failed(i)
           /\ nsi'[n].instantiated = nsi[n].instantiated
  BY <1>1, <1>2, <1>4, FailedOwns
<1>5. CASE Writes(i) /\ UNCHANGED nsi
  <2>1. /\ nsi[n].shown \in {"init", "running"} => nsi[n].instantiated
        /\ nsi[n].shown = IF Instantiates(i) THEN "init" ELSE "terminating"
    BY <1>1, <1>3 DEF Sound, VldKnown, Working
  <2>2. TaskStep(i)
    BY <1>1, <1>2, <1>3, <1>5, <2>1
    DEF TaskStep, Writes, Reads, OnlySlice, Working
  <2>3. MayLaunch(i, {}) /\ Launched({})
    BY <1>1, NothingLaunched
  <2>4. Round(i)
    BY <1>3, <1>5, <2>3, RoundKnown
  <2>5. nsi[n].instantiated
    BY <1>1 DEF Owned, WorkKnown, Working
  <2>6. Careful(i)
    BY <1>1, <1>5, <2>4, <2>5 DEF Careful, Round
  <2> QED  BY <2>2, <2>3, <2>6, TaskOwns
<1> QED  BY <1>1, <1>4, <1>5

LEMMA WriteOwns ==
    ASSUME Typed, Undisturbed', Sound, Owned, NEW i \in Request, Write(i)
    PROVE  OwnedStays
<1> DEFINE n == req[i].slice
           read == req[i].read
<1>1. /\ req[i].pc = "write"
      /\ SameTask(i) /\ OnlyReq(i) /\ OnlySlice(n)
      /\ \A r \in read.list : nsi[n].uses[r] = read.uses[r]
      /\ nsi'[n].life = nsi[n].life /\ nsi'[n].vld = nsi[n].vld
      /\ nsi'[n].list = read.list /\ nsi'[n].uses = read.uses
      /\ \/ /\ req'[i].pc = "poll" /\ req'[i].state = req[i].state
            /\ nsi'[n].instantiated = nsi[n].instantiated
            /\ nsi'[n].shown = nsi[n].shown
            /\ req'[i].read = NoRead
         \/ /\ req'[i].pc = "over" /\ nsi'[n].shown = "failed"
            /\ nsi'[n].instantiated = nsi[n].instantiated
         \/ /\ req'[i].pc = "over" /\ nsi'[n].shown = "terminated"
            /\ ~nsi'[n].instantiated
            /\ Terminates(i) /\ read.all = "COMPLETED"
         \/ /\ req'[i].pc = "over" /\ nsi'[n].shown = "running"
            /\ nsi'[n].instantiated = nsi[n].instantiated
            /\ Instantiates(i) /\ read.all = "COMPLETED"
      /\ marks' = marks
      /\ UNCHANGED <<nsr, nslcmop, handler, faults>>
  BY WriteDoes DEF Sound
<1>2. Begun(i)
  BY <1>1, TurnBegins DEF Working
<1>3. n \in Slice
  BY <1>1 DEF Typed, SliceKnown
<1>4. nsi[n].instantiated
  BY <1>1 DEF Owned, WorkKnown, Working
<1>5. nsi[n].shown = IF Instantiates(i) THEN "init" ELSE "terminating"
  BY <1>1, <1>3 DEF Sound, VldKnown, Working
<1>6. /\ read.list \subseteq nsi[n].list
      /\ \A r \in Nsr \ read.list : read.uses[r] = NoRequest
  BY <1>1 DEF Sound, Lists
<1>7. /\ Working(i)' => req'[i].state = req[i].state /\ nsi'[n].instantiated
      /\ nsi'[n].shown \in {"init", "running"} => nsi'[n].instantiated
      /\ Working(i)' =>
             nsi'[n].shown = IF Instantiates(i) THEN "init" ELSE "terminating"
      /\ req'[i].pc \in {"poll", "over"}
  BY <1>1, <1>4, <1>5 DEF Working
<1>8. /\ \A r \in nsi'[n].list : nsi'[n].uses[r] = nsi[n].uses[r]
      /\ \A r \in Nsr : nsi'[n].uses[r] \in {nsi[n].uses[r], NoRequest}
  BY <1>1, <1>6
<1>9. TaskStep(i)
  BY <1>1, <1>2, <1>4, <1>6, <1>7, <1>8 DEF TaskStep
<1>10. MayLaunch(i, {}) /\ Launched({})
  BY <1>1, NothingLaunched
<1>11. \A r \in nsi[n].list :
           /\ req[i].ops[r] # NoRequest <=> r \in read.list
           /\ r \in read.list /\ read.all = "COMPLETED" =>
                  nslcmop[<<req[i].ops[r], r>>].state = "COMPLETED"
  BY <1>1 DEF Owned, RoundsKnown
<1>12. Careful(i)
  <2>1. \A r \in nsi[n].list : r \notin nsi'[n].list => req[i].ops[r] = NoRequest
    BY <1>1, <1>11
  <2>2. nsi[n].instantiated /\ ~nsi'[n].instantiated =>
              /\ Terminates(i) /\ req'[i].pc = "over"
              /\ \A r \in nsi[n].list :
                     req[i].ops[r] # NoRequest =>
                         nslcmop[<<req[i].ops[r], r>>].state = "COMPLETED"
    BY <1>1, <1>11
  <2> QED  BY <1>1, <1>7, <2>1, <2>2 DEF Careful
<1> QED  BY <1>9, <1>10, <1>12, TaskOwns

-----------------------------------------------------------------------------
(* The requests for slice operations                                        *)

\* What a request does about the NSs of its slice: a termination leaves each to
\* another slice, or creates an operation on it.
Mindful(i) ==
    LET n == req[i].slice
    IN /\ req[i].pc = "own" => req'[i].pc = "sent"
       /\ req'[i].pc = "sent" => req'[i].ops[n] = i
       /\ UNCHANGED nsi \/ req'[i].pc = "own"
       /\ \A s \in SharedNs : ShareKnown(i, s)'
       /\ UserFound'
       /\ Instantiates(i) =>
              \A r \in Nsr : nsi'[n].uses[r] = NoRequest => nsi[n].uses[r] = NoRequest
       /\ Terminates(i) =>
              /\ \A r \in Nsr : nsi'[n].uses[r] \in {nsi[n].uses[r], NoRequest}
              /\ \A r \in nsi[n].list :
                     \/ /\ ActedOn(i, r)' => ActedOn(i, r)
                        /\ req'[i].ops[r] = req[i].ops[r]
                        /\ nsi'[n].uses[r] = nsi[n].uses[r]
                     \/ r \in SharedNs /\ Used(n, r)
                     \/ /\ req'[i].ops[r] = i
                        /\ Uses(n, r) => nsi[n].instantiated

LEMMA RequestOwns ==
    ASSUME Typed, Sound, Owned, NEW i \in Request, NEW R, RequestStep(i, R),
           Mindful(i)
    PROVE  OwnedStays
<1> DEFINE n == req[i].slice
<1>1. /\ Open(i) /\ Active(i) /\ req'[i].pc \in {"act", "own", "sent"}
      /\ OnlySlice(n)
      /\ Open(i)' => req'[i].read = req[i].read
      /\ \A r \in Nsr :
             \/ nsi'[n].uses[r] \in {nsi[n].uses[r], NoRequest}
             \/ Instantiates(i) /\ nsi'[n].uses[r] = req'[i].ops[r]
      /\ UNCHANGED <<nsr, handler, marks>>
  BY DEF RequestStep, Open, Active
<1>2. RequestFact(i, R)
  BY RequestFacts
<1>3. /\ n \in Slice /\ There(n)
      /\ \A j \in Request :
             /\ req'[j].slice = req[j].slice /\ req'[j].kind = req[j].kind
             /\ req'[j].pc = "free" <=> req[j].pc = "free"
             /\ Instantiates(j)' <=> Instantiates(j)
             /\ Terminates(j)' <=> Terminates(j)
             /\ j # i => req'[j] = req[j] /\ ~Open(j)
             /\ i < j => req[j].pc = "free"
             /\ req[j].pc # "free" => req[j].slice \in Slice
      /\ \A t \in Request, r \in Nsr :
             /\ nslcmop'[<<t, r>>].run = nslcmop[<<t, r>>].run
             /\ nslcmop'[<<t, r>>].state = "COMPLETED"
                    <=> nslcmop[<<t, r>>].state = "COMPLETED"
             /\ \/ nslcmop'[<<t, r>>] = nslcmop[<<t, r>>]
                \/ t = i /\ nslcmop'[<<t, r>>].run = "no"
             /\ i < t => Untouched(<<t, r>>)
      /\ \A m \in Slice :
             /\ nsi'[m].life = nsi[m].life /\ nsi'[m].list = nsi[m].list
             /\ nsi'[m].instantiated = nsi[m].instantiated
             /\ nsi[m].list \subseteq Nsr
  BY <1>2 DEF RequestFact
<1>4. /\ \A m \in Slice : There(m)' <=> There(m)
      /\ \A m \in Slice : m # n => nsi'[m] = nsi[m]
      /\ n \in Nsr /\ n \notin SharedNs
      /\ \A j \in Request : ~(Instantiates(j) /\ Terminates(j))
      /\ Instantiates(i) \/ Terminates(i)
  <2>1. req[i] \in ReqRec
    BY DEF Typed, TypeOK
  <2> QED
    BY <1>1, <1>3, <2>1, SliceAssumption
    DEF There, OnlySlice, Nsr, Instantiates, Terminates, ReqRec
<1>5. \A j \in Request :
          /\ Active(j)' <=> Active(j)
          /\ Working(j)' <=> Working(j)
          /\ Working(j) => j # i
  <2> SUFFICES ASSUME NEW j \in Request
               PROVE  /\ Active(j)' <=> Active(j)
                      /\ Working(j)' <=> Working(j)
                      /\ Working(j) => j # i
    OBVIOUS
  <2>1. CASE j = i
    BY <1>1, <2>1 DEF Active, Working, Open
  <2>2. CASE j # i
    BY <1>3, <2>2 DEF Active, Working
  <2> QED  BY <2>1, <2>2
<1>6. ASSUME NEW q \in Request, NEW r \in Nsr
      PROVE  /\ ToCome(q, r)' <=> ToCome(q, r)
             /\ ToCome(q, r) => q < i
  <2>1. nslcmop[<<i, r>>].run = "no"
    BY <1>1 DEF Sound, OpsKnown
  <2>2. ToCome(q, r) => ~(i < q)
    BY <1>3 DEF ToCome, Untouched
  <2>3. ToCome(q, r) => q # i
    BY <2>1 DEF ToCome
  <2>4. nslcmop'[<<q, r>>] = nslcmop[<<q, r>>] \/ q = i
    BY <1>3
  <2>5. ToCome(q, r)' <=> ToCome(q, r)
    <3>1. CASE q = i
      <4>1. nslcmop'[<<i, r>>].run = "no"
        BY <1>3, <2>1
      <4> QED  BY <2>1, <3>1, <4>1 DEF ToCome
    <3>2. CASE nslcmop'[<<q, r>>] = nslcmop[<<q, r>>]
      BY <1>3, <3>2 DEF ToCome, Processing
    <3> QED  BY <2>4, <3>1, <3>2
  <2> QED  BY <2>2, <2>3, <2>5 DEF Request
<1> HIDE DEF n
<1>7. OwnListed'
  BY <1>1, <1>3, <1>4 DEF Owned, OwnListed
<1>8. OwnAsked'
  <2>1. ASSUME NEW j \in Request, req'[j].pc \in {"sent", "poll", "write"}
        PROVE  req'[j].ops[req'[j].slice] = j
    <3>1. CASE j = i
      BY <1>1, <1>3, <2>1, <3>1 DEF Mindful
    <3>2. CASE j # i
      BY <1>3, <2>1, <3>2 DEF Owned, OwnAsked
    <3> QED  BY <3>1, <3>2
  <2>2. ASSUME NEW j \in Request, Instantiates(j), req'[j].pc = "sent"
        PROVE  nslcmop'[<<j, req'[j].slice>>].run = "no"
    <3>1. req[j].slice \in Nsr
      BY <1>3, <2>2 DEF Nsr
    <3>2. nslcmop[<<j, req[j].slice>>].run = "no"
      <4>1. CASE j = i
        BY <1>1, <3>1, <4>1 DEF Sound, OpsKnown
      <4>2. CASE j # i
        BY <1>3, <2>2, <4>2 DEF Owned, OwnAsked
      <4> QED  BY <4>1, <4>2
    <3> QED  BY <1>3, <3>1, <3>2
  <2> QED  BY <1>3, <2>1, <2>2 DEF OwnAsked
<1>9. RoundsKnown'
  <2> SUFFICES ASSUME NEW j \in Request, req'[j].pc = "write",
                      NEW r \in nsi'[req'[j].slice].list
               PROVE  /\ req'[j].ops[r] # NoRequest <=> r \in req'[j].read.list
                      /\ /\ r \in req'[j].read.list
                         /\ req'[j].read.all = "COMPLETED"
                         => nslcmop'[<<req'[j].ops[r], r>>].state = "COMPLETED"
    BY DEF RoundsKnown
  <2>1. j # i /\ req'[j] = req[j] /\ req[j].slice \in Slice
    BY <1>1, <1>3
  <2>2. r \in nsi[req[j].slice].list /\ r \in Nsr
    BY <1>3, <2>1
  <2>3. /\ req[j].ops[r] # NoRequest <=> r \in req[j].read.list
        /\ r \in req[j].read.list /\ req[j].read.all = "COMPLETED" =>
               nslcmop[<<req[j].ops[r], r>>].state = "COMPLETED"
    BY <2>1, <2>2 DEF Owned, RoundsKnown
  <2>4. req[j].ops[r] \in Request \cup {NoRequest}
    BY <2>2, OpAtTyped
  <2> QED  BY <1>3, <2>1, <2>2, <2>3, <2>4
<1>10. WorkKnown'
  <2>1. \A j \in Request : Working(j) => req[j].slice \in Slice
    BY <1>3 DEF Working
  <2> QED  BY <1>3, <1>5, <2>1 DEF Owned, WorkKnown
<1>11. EndsInTurn'
  <2>1. \A t \in Request : Active(t) => req[t].slice \in Slice
    BY <1>3 DEF Active
  <2> QED  BY <1>1, <1>3, <1>5, <2>1 DEF Owned, EndsInTurn
\* Nobody who ends the slice is at work when it is instantiated.
<1>12. ASSUME Instantiates(i), NEW t \in Request, Terminates(t), Active(t),
              req[t].slice = n
       PROVE  FALSE
  <2>1. t # i
    BY <1>4, <1>12
  <2>2. ~(i < t)
    BY <1>3, <1>12 DEF Active
  <2>3. t < i
    BY <2>1, <2>2 DEF Request
  <2>4. req[i].pc # "free"
    BY <1>1 DEF Active
  <2> QED  BY <1>4, <1>12, <2>3, <2>4 DEF Owned, EndsInTurn, n
<1>13. SharesKnown'
  <2>1. ASSUME NEW j \in Request, NEW s \in SharedNs, j # i
        PROVE  ShareKnown(j, s)'
    <3>1. ShareKnown(j, s)
      BY DEF Owned, SharesKnown
    <3>2. req'[j] = req[j] /\ ~Open(j) /\ s \in Nsr
      BY <1>3, <2>1 DEF Nsr
    <3>3. ActedOn(j, s)' <=> ActedOn(j, s)
      BY <1>3, <3>2 DEF ActedOn
    <3>4. CASE req[j].slice \notin Slice
      BY <1>3, <3>2, <3>4 DEF ShareKnown, ActedOn
    <3>5. CASE req[j].slice \in Slice
      <4>1. ActedOn(j, s) => nsi'[req[j].slice].uses[s] \in {nsi[req[j].slice].uses[s], NoRequest}
        <5> SUFFICES ASSUME ActedOn(j, s)
                     PROVE  nsi'[req[j].slice].uses[s]
                                \in {nsi[req[j].slice].uses[s], NoRequest}
          OBVIOUS
        <5>1. CASE req[j].slice # n
          BY <1>4, <3>5, <5>1
        <5>2. CASE req[j].slice = n
          <6>1. ~Instantiates(i)
            BY <1>12, <5>2 DEF ActedOn, Active
          <6> QED  BY <1>1, <3>2, <5>2, <6>1 DEF n
        <5> QED  BY <5>1, <5>2
      <4> QED  BY <1>3, <3>1, <3>2, <3>3, <3>5, <4>1 DEF ShareKnown, Open
    <3> QED  BY <3>4, <3>5
  <2>2. \A s \in SharedNs : ShareKnown(i, s)'
    BY DEF Mindful
  <2>3. ASSUME NEW j \in Request, Instantiates(j)', Open(j)'
        PROVE  req'[j].read.list \subseteq nsi'[req'[j].slice].list
    <3>1. j = i
      BY <1>3, <2>3 DEF Open
    <3>2. req[i].read.list \subseteq nsi[req[i].slice].list
      BY <1>1, <1>3, <2>3, <3>1 DEF Owned, SharesKnown
    <3> QED  BY <1>1, <1>3, <2>3, <3>1, <3>2 DEF n
  <2> QED  BY <2>1, <2>2, <2>3 DEF SharesKnown
<1>14. UserFound'
  BY DEF Mindful
<1>15. EndsFirst'
  <2> SUFFICES ASSUME NEW t \in Request, NEW q \in Request, NEW r \in Nsr,
                      Terminates(t), q < t, Processing(<<t, r>>)',
                      nslcmop'[<<t, r>>].run = "work"
               PROVE  ~ToCome(q, r)
    BY <1>3, <1>6 DEF EndsFirst
  <2>1. nslcmop'[<<t, r>>] = nslcmop[<<t, r>>]
    BY <1>3
  <2> QED  BY <2>1 DEF Owned, EndsFirst, Processing
<1>16. ASSUME NobodyGaveUp'
       PROVE  NobodyGaveUp
  <2> SUFFICES ASSUME NEW j \in Request, Instantiates(j), req[j].pc = "over",
                      req[j].ops[req[j].slice] # NoRequest
               PROVE  nslcmop[<<j, req[j].slice>>].run # "no"
    BY DEF NobodyGaveUp
  <2>1. j # i /\ req[j].slice \in Nsr
    BY <1>1, <1>3 DEF Open, Nsr
  <2> QED  BY <1>3, <1>16, <2>1 DEF NobodyGaveUp
<1>17. ASSUME NobodyGaveUp
       PROVE  Claimed'
  <2> SUFFICES ASSUME NEW m \in Slice, NEW s \in Shared(nsi'[m].list),
                      There(m)', nsi'[m].uses[s] # NoRequest
               PROVE  nsi'[m].instantiated \/ Comes(m)'
    BY DEF Claimed
  <2>1. There(m) /\ s \in Shared(nsi[m].list) /\ s \in Nsr
    BY <1>3, <1>4 DEF Shared, Nsr
  <2>2. Comes(m) => Comes(m)'
    <3> SUFFICES ASSUME NEW j \in Request, Instantiates(j),
                        req[j].pc \in {"own", "sent"}, req[j].slice = m
                 PROVE  Comes(m)'
      BY DEF Comes
    <3>1. req'[j].pc \in {"own", "sent"}
      BY <1>1, <1>3 DEF Mindful, Open
    <3> QED  BY <1>3, <3>1 DEF Comes
  <2>3. CASE nsi[m].uses[s] # NoRequest
    BY <1>3, <1>17, <2>1, <2>2, <2>3 DEF Owned, Claimed
  <2>4. CASE nsi[m].uses[s] = NoRequest
    <3>1. m = n
      BY <1>4, <2>4
    <3>2. Instantiates(i)
      BY <1>1, <2>1, <2>4, <3>1 DEF n
    <3>3. req'[i].pc = "own"
      BY <2>4 DEF Mindful
    <3> QED  BY <1>3, <3>1, <3>2, <3>3 DEF Comes, n
  <2> QED  BY <2>3, <2>4
<1>18. ASSUME NobodyGaveUp
       PROVE  Held'
  <2>1. Held
    BY <1>18 DEF Owned
  <2> SUFFICES ASSUME NEW r \in Nsr, NEW q \in Request \cup {NoRequest},
                      Needed(r, q)'
               PROVE  \E m \in Slice : Holder(m, r, q)'
    BY DEF Held
  <2>2. Needed(r, q) /\ q < i
    <3>1. NoRequest < i
      BY DEF Request, NoRequest
    <3> QED  BY <1>1, <1>6, <3>1 DEF Needed
  <2>3. PICK m \in Slice : Holder(m, r, q)
    BY <2>1, <2>2 DEF Held
  <2>4. There(m)' /\ r \in nsi[m].list /\ r \in nsi'[m].list
    BY <1>3, <1>4, <2>3 DEF Holder
  <2>5. ASSUME NEW t \in Request, t # i, Leaves(t, r, q)'
        PROVE  Leaves(t, r, q)
    BY <1>3, <2>5 DEF Leaves, ActedOn
  <2>6. CASE m # n
    <3>1. \A t \in Request : req'[t].slice = m => t # i /\ req[t].slice = m
      BY <1>3, <2>6 DEF n
    <3> QED  BY <1>4, <2>3, <2>4, <2>5, <2>6, <3>1 DEF Holder, Uses
  <2>7. CASE m = n /\ Instantiates(i)
    <3>1. Uses(m, r) => Uses(m, r)'
      BY <2>7 DEF Uses, Mindful, n
    <3>2. ~ActedOn(i, r)'
      BY <1>3, <1>4, <2>7 DEF ActedOn
    <3>3. ~Leaves(i, r, q)'
      BY <3>2 DEF Leaves
    <3>4. \A t \in Request : Leaves(t, r, q)' => Leaves(t, r, q)
      BY <2>5, <3>3
    <3> QED  BY <1>3, <2>3, <2>4, <3>1, <3>4 DEF Holder
  <2>8. CASE m = n /\ Terminates(i)
    <3>1. \/ /\ ActedOn(i, r)' => ActedOn(i, r)
             /\ req'[i].ops[r] = req[i].ops[r]
             /\ nsi'[m].uses[r] = nsi[m].uses[r]
          \/ r \in SharedNs /\ Used(m, r)
          \/ /\ req'[i].ops[r] = i
             /\ Uses(m, r) => nsi[m].instantiated
      BY <2>4, <2>8 DEF Mindful, n
    <3>2. CASE /\ ActedOn(i, r)' => ActedOn(i, r)
               /\ req'[i].ops[r] = req[i].ops[r]
               /\ nsi'[m].uses[r] = nsi[m].uses[r]
      <4>1. Leaves(i, r, q)' => Leaves(i, r, q)
        BY <1>3, <3>2 DEF Leaves
      <4>2. \A t \in Request : Leaves(t, r, q)' => Leaves(t, r, q)
        BY <2>5, <4>1
      <4> QED  BY <1>3, <2>3, <2>4, <3>2, <4>2 DEF Holder, Uses
    <3>3. CASE r \in SharedNs /\ Used(m, r)
      <4>1. PICK k \in OthersListing(m, r) : nsi[k].uses[r] # NoRequest
        BY <3>3 DEF Used
      <4>2. k \in Slice /\ k # m /\ There(k) /\ r \in nsi[k].list
        BY <4>1 DEF OthersListing
      <4>3. Holder(k, r, q)'
        BY <1>4, <2>8, <3>3, <4>1, <4>2 DEF Holder, Uses
      <4> QED  BY <4>2, <4>3
    <3>4. CASE /\ req'[i].ops[r] = i
               /\ Uses(m, r) => nsi[m].instantiated
      <4>1. nsi'[m].instantiated
        BY <1>3, <2>3, <3>4 DEF Holder
      <4>2. ASSUME NEW t \in Request, req'[t].slice = m, Leaves(t, r, q)'
            PROVE  FALSE
        <5>1. CASE t = i
          <6>1. /\ nslcmop[<<i, r>>].state \in {"none", "PROCESSING"}
                /\ i # NoRequest /\ ~(i <= q)
            BY <1>1, <2>2 DEF Sound, OpsKnown, Request, NoRequest
          <6> QED  BY <1>3, <3>4, <4>2, <5>1, <6>1 DEF Leaves
        <5>2. CASE t # i
          <6>1. Leaves(t, r, q) /\ ActedOn(t, r) /\ req[t].slice = m
            BY <1>3, <2>5, <4>2, <5>2 DEF Leaves
          <6>2. Uses(m, r)
            BY <2>3, <6>1 DEF Holder
          <6>3. ShareKnown(t, r)
            BY <6>2 DEF Owned, SharesKnown, Uses
          <6> QED  BY <2>4, <6>1, <6>2, <6>3 DEF ShareKnown, Uses
        <5> QED  BY <5>1, <5>2
      <4> QED  BY <2>4, <4>1, <4>2 DEF Holder
    <3> QED  BY <3>1, <3>2, <3>3, <3>4
  <2> QED  BY <1>4, <2>6, <2>7, <2>8
<1> QED
  BY <1>7, <1>8, <1>9, <1>10, <1>11, <1>13, <1>14, <1>15, <1>16, <1>17, <1>18
  DEF OwnedStays, Owned

LEMMA LookSharedOwns ==
    ASSUME Typed, Undisturbed', Sound, Owned, NEW i \in Request, LookShared(i)
    PROVE  OwnedStays
<1> DEFINE n == req[i].slice
<1>1. /\ req[i].pc = "look" /\ req'[i].pc = "act"
      /\ SameButFound(i) /\ req'[i].ops = req[i].ops /\ OnlyReq(i)
      /\ UNCHANGED <<nsi, nsr, nslcmop, handler, notices, marks, faults>>
  BY LookSharedDoes
<1>2. PICK s \in Shared(req[i].read.list) :
          \/ /\ req'[i].found = NoRequest
             /\ \A m \in OthersListing(n, s) : nsi[m].uses[s] = NoRequest
          \/ /\ req'[i].found # NoRequest
             /\ \E m \in OthersListing(n, s) : req'[i].found = nsi[m].uses[s]
  BY LookSharedDoes
<1>3. /\ req'[i].slice = n /\ req'[i].kind = req[i].kind
      /\ req'[i].read = req[i].read /\ req'[i].state = req[i].state
      /\ \A j \in Request \ {i} : req'[j] = req[j]
  BY <1>1 DEF SameButFound, OnlyReq
<1>4. n \in Slice /\ s \in SharedNs /\ s \in Nsr /\ Open(i)
  BY <1>1 DEF Shared, Nsr, Open, Typed, SliceKnown
<1>5. \A t \in SharedNs : t \in req[i].read.list => t = s
  BY <1>2, <1>4 DEF Sound, Lists, Listable, Shared
<1>6. req'[i].found # NoRequest
          => req'[i].found \in Request /\ Asked(req'[i].found)
  <2> SUFFICES ASSUME req'[i].found # NoRequest
               PROVE  req'[i].found \in Request /\ Asked(req'[i].found)
    OBVIOUS
  <2>1. PICK m \in Slice : nsi[m].uses[s] = req'[i].found
    BY <1>2 DEF OthersListing
  <2>2. nsi[m].uses[s] \in Request \cup {NoRequest}
    BY <1>4 DEF Typed, TypeOK, SliceRec, OpFun
  <2> QED  BY <1>4, <2>1, <2>2 DEF Sound, OpsKnown
<1>7. RequestStep(i, {})
  <2>1. Created(i, {}) /\ OnlySlice(n)
    BY <1>1 DEF Created, OnlySlice
  <2> QED  BY <1>1, <1>3, <1>4, <1>6, <2>1 DEF RequestStep
<1>8. req'[i].found # NoRequest => Used(n, s)
  BY <1>2 DEF Used
<1>9. UserFound'
  <2> SUFFICES ASSUME NEW t \in Request, Terminates(t)', req'[t].pc = "act",
                      req'[t].found # NoRequest, NEW r \in Shared(req'[t].read.list)
               PROVE  Used(req[t].slice, r)'
    BY DEF UserFound
  <2>1. t = i
    <3> SUFFICES ASSUME t # i PROVE FALSE
      OBVIOUS
    <3>1. req[t].pc = "act"
      BY <1>3
    <3>2. Open(t) /\ req[t].pc # "free" /\ req[i].pc # "free"
      BY <1>1, <3>1 DEF Open
    <3> QED  BY <1>4, <3>2 DEF Sound, InTurn, Request
  <2>2. r = s
    BY <1>3, <1>5, <2>1 DEF Shared
  <2>3. Used(n, r)
    BY <1>8, <2>1, <2>2
  <2> QED  BY <1>1, <1>3, <2>1, <2>3 DEF Used, OthersListing, There
<1>10. ASSUME NEW r \in SharedNs
       PROVE  ShareKnown(i, r)'
  <2>1. ShareKnown(i, r)
    BY DEF Owned, SharesKnown
  <2> QED
    BY <1>1, <1>3, <2>1 DEF ShareKnown, ActedOn, Instantiates, Terminates
<1>11. Mindful(i)
  <2>1. \A r \in Nsr : ~ActedOn(i, r)'
    BY <1>1 DEF ActedOn
  <2>2. nsi[n].list \subseteq Nsr
    BY <1>4, ListedNss
  <2> QED  BY <1>1, <1>9, <1>10, <2>1, <2>2 DEF Mindful
<1> QED  BY <1>7, <1>11, RequestOwns

\* After a request has dealt with the shared NS nobody looks for a user of it.
LEMMA NobodyLooks ==
    ASSUME Typed, Sound, NEW i \in Request, Open(i), OnlyReq(i), req'[i].pc # "act"
    PROVE  UserFound'
<1>1. ASSUME NEW t \in Request
      PROVE  req'[t].pc # "act"
  <2>1. CASE t = i
    BY <2>1
  <2>2. CASE t # i
    <3> SUFFICES ASSUME req[t].pc = "act" PROVE FALSE
      BY <2>2 DEF OnlyReq
    <3>1. Open(t) /\ req[t].pc # "free" /\ req[i].pc # "free"
      BY DEF Open
    <3> QED  BY <2>2, <3>1 DEF Sound, InTurn, Request
  <2> QED  BY <2>1, <2>2
<1> QED  BY <1>1 DEF UserFound

LEMMA ShareInstantiateOwns ==
    ASSUME Typed, Undisturbed', Sound, Owned, NEW i \in Request,
           req[i].pc = "act", NEW s \in SharedNs, s \in req[i].read.list,
           ShareInstantiate(i, s), UNCHANGED <<nsr, handler>>
    PROVE  OwnedStays
<1> DEFINE n == req[i].slice
           u == IF req[i].found = NoRequest /\ nsr[s] = "idle"
                  THEN i ELSE req[i].found
           R == IF req[i].found = NoRequest THEN {s} ELSE {}
<1>1. /\ Undisturbed /\ Instantiates(i)
      /\ req[i].found = NoRequest => nsr[s] # "instantiated"
      /\ req'[i].pc = "own" /\ SameButFound(i)
      /\ \A r \in Nsr : req'[i].ops[r] = IF r = s THEN u ELSE req[i].ops[r]
      /\ nsi'[n].life = nsi[n].life /\ nsi'[n].list = nsi[n].list
      /\ nsi'[n].shown = nsi[n].shown
      /\ nsi'[n].instantiated = nsi[n].instantiated
      /\ nsi'[n].vld = nsi[n].vld \cup {s}
      /\ \A r \in Nsr : nsi'[n].uses[r] = IF r = s /\ u # NoRequest
                                            THEN u ELSE nsi[n].uses[r]
      /\ Created(i, R)
      /\ marks' = marks /\ OnlyReq(i) /\ OnlySlice(n)
  BY ShareInstantiateDoes
<1>2. /\ req'[i].slice = n /\ req'[i].kind = req[i].kind
      /\ req'[i].read = req[i].read
  BY <1>1 DEF SameButFound
<1>3. n \in Slice /\ s \in Nsr /\ Open(i) /\ n \notin SharedNs
  BY SliceAssumption DEF Nsr, Open, Typed, SliceKnown
<1>4. R \subseteq SharedNs
  OBVIOUS
<1>5. u = i \/ u = req[i].found
  OBVIOUS
<1>6. \A r \in nsi[n].list : r \in SharedNs => r = s
  BY <1>3 DEF Sound, Lists, Listable, Shared
<1>7. u = NoRequest => s \notin nsi[n].list
  <2> SUFFICES ASSUME u = NoRequest, s \in nsi[n].list PROVE FALSE
    OBVIOUS
  <2>1. There(n)
    BY <1>3 DEF Sound, Alive, Active, Open
  <2>2. Exist(s)
    BY <1>3, <2>1 DEF Sound, Lists
  <2>3. i # NoRequest
    BY DEF Request, NoRequest
  <2> QED  BY <1>1, <2>2, <2>3 DEF Exist
<1> HIDE DEF u, R
<1>8. RequestStep(i, R)
  <2>1. \A r \in Nsr :
            \/ req'[i].ops[r] = req[i].ops[r]
            \/ req'[i].ops[r] = i /\ r \in SharedNs \cup {n}
            \/ /\ Instantiates(i) /\ r \in SharedNs /\ req[i].pc = "act"
               /\ req'[i].ops[r] = req[i].found
    BY <1>1, <1>5
  <2>2. \A r \in Nsr :
            \/ nsi'[n].uses[r] \in {nsi[n].uses[r], NoRequest}
            \/ Instantiates(i) /\ nsi'[n].uses[r] = req'[i].ops[r]
    BY <1>1
  <2> QED  BY <1>1, <1>2, <1>3, <1>4, <2>1, <2>2 DEF RequestStep
<1>9. Instantiates(i)' /\ ~Terminates(i)' /\ ~Terminates(i)
  BY <1>1, <1>2 DEF Instantiates, Terminates
<1> HIDE DEF n
<1>10. ASSUME NEW r \in SharedNs
       PROVE  ShareKnown(i, r)'
  <2>1. ShareKnown(i, r) /\ r \in Nsr
    BY DEF Owned, SharesKnown, Nsr
  <2>2. ~ActedOn(i, r)'
    BY <1>9 DEF ActedOn
  <2>3. r \in nsi[n].list => req'[i].ops[r] # NoRequest
    BY <1>1, <1>6, <1>7, <2>1
  <2>4. req'[i].ops[r] # NoRequest => r \in nsi[n].list
    <3>1. CASE r = s
      <4>1. req[i].read.list \subseteq nsi[n].list
        BY <1>1, <1>3 DEF Owned, SharesKnown, n
      <4> QED  BY <3>1, <4>1
    <3>2. CASE r # s
      BY <1>1, <2>1, <3>2 DEF ShareKnown, n
    <3> QED  BY <3>1, <3>2
  <2> QED  BY <1>1, <1>2, <1>9, <2>2, <2>3, <2>4 DEF ShareKnown
<1>11. UserFound'
  BY <1>1, <1>3, NobodyLooks
<1>12. Mindful(i)
  <2>1. \A r \in Nsr : nsi'[n].uses[r] = NoRequest => nsi[n].uses[r] = NoRequest
    BY <1>1
  <2> QED  BY <1>1, <1>9, <1>10, <1>11, <2>1 DEF Mindful, n
<1> QED  BY <1>8, <1>12, RequestOwns

LEMMA ShareTerminateOwns ==
    ASSUME Typed, Undisturbed', Sound, Owned, NEW i \in Request,
           req[i].pc = "act", NEW s \in SharedNs, s \in req[i].read.list,
           ShareTerminate(i, s), UNCHANGED <<nsr, handler>>
    PROVE  OwnedStays
<1> DEFINE n == req[i].slice
           R == IF req[i].found # NoRequest THEN {} ELSE {s}
<1>1. /\ Undisturbed /\ Terminates(i)
      /\ req'[i].pc = "own" /\ SameButFound(i)
      /\ \A r \in Nsr : req'[i].ops[r] = IF r \in R /\ Exist(r)
                                           THEN i ELSE req[i].ops[r]
      /\ nsi'[n].life = nsi[n].life /\ nsi'[n].list = nsi[n].list
      /\ nsi'[n].shown = nsi[n].shown
      /\ nsi'[n].instantiated = nsi[n].instantiated
      /\ nsi'[n].vld = nsi[n].vld
      /\ \A r \in Nsr : nsi'[n].uses[r] = IF r = s THEN NoRequest
                                                   ELSE nsi[n].uses[r]
      /\ Created(i, R)
      /\ marks' = marks /\ OnlyReq(i) /\ OnlySlice(n)
  BY ShareTerminateDoes
<1>2. /\ req'[i].slice = n /\ req'[i].kind = req[i].kind
      /\ req'[i].read = req[i].read
  BY <1>1 DEF SameButFound
<1>3. n \in Slice /\ s \in Nsr /\ Open(i) /\ n \notin SharedNs /\ There(n)
  BY SliceAssumption
  DEF Nsr, Open, Typed, SliceKnown, Sound, Alive, Active
<1>4. R \subseteq {s} /\ (R # {} => req[i].found = NoRequest)
      /\ (req[i].found = NoRequest => s \in R)
  OBVIOUS
<1> HIDE DEF R
<1>5. RequestStep(i, R)
  <2>1. \A r \in Nsr :
            \/ req'[i].ops[r] = req[i].ops[r]
            \/ req'[i].ops[r] = i /\ r \in SharedNs \cup {n}
    BY <1>1, <1>4
  <2>2. \A r \in Nsr : nsi'[n].uses[r] \in {nsi[n].uses[r], NoRequest}
    BY <1>1
  <2>3. R \subseteq SharedNs \cup {n}
    BY <1>4
  <2> QED  BY <1>1, <1>2, <1>3, <2>1, <2>2, <2>3 DEF RequestStep
<1>6. \A r \in SharedNs : r \in nsi[n].list => r = s
  BY <1>3 DEF Sound, Lists, Listable, Shared
<1>7. Terminates(i)' /\ ~Instantiates(i)' /\ ~Instantiates(i)
  BY <1>1, <1>2 DEF Instantiates, Terminates
<1> HIDE DEF n
<1>8. ASSUME NEW r \in SharedNs
      PROVE  ShareKnown(i, r)'
  <2>1. r \in nsi[n].list => nsi'[n].uses[r] = NoRequest
    BY <1>1, <1>3, <1>6
  <2> QED  BY <1>1, <1>2, <1>7, <2>1 DEF ShareKnown
<1>9. UserFound'
  BY <1>1, <1>3, NobodyLooks
<1>10. ASSUME NEW r \in nsi[n].list
       PROVE  \/ /\ ActedOn(i, r)' => ActedOn(i, r)
                 /\ req'[i].ops[r] = req[i].ops[r]
                 /\ nsi'[n].uses[r] = nsi[n].uses[r]
              \/ r \in SharedNs /\ Used(n, r)
              \/ /\ req'[i].ops[r] = i
                 /\ Uses(n, r) => nsi[n].instantiated
  <2>1. r \in Nsr
    BY <1>3, ListedNss
  <2>2. CASE r # s
    <3>1. r \notin SharedNs
      BY <1>6, <2>2
    <3>2. ~ActedOn(i, r)'
      BY <1>1, <3>1 DEF ActedOn
    <3>3. req'[i].ops[r] = req[i].ops[r]
      BY <1>1, <1>4, <2>1, <2>2
    <3>4. nsi'[n].uses[r] = nsi[n].uses[r]
      BY <1>1, <2>1, <2>2
    <3> QED  BY <3>2, <3>3, <3>4
  <2>3. CASE r = s /\ req[i].found # NoRequest
    <3>1. s \in Shared(req[i].read.list)
      BY DEF Shared
    <3> QED  BY <1>1, <2>3, <3>1 DEF Owned, UserFound, n
  <2>4. CASE r = s /\ req[i].found = NoRequest
    <3>1. Exist(r)
      BY <1>3 DEF Sound, Lists
    <3>2. req'[i].ops[r] = i
      BY <1>1, <1>4, <2>1, <2>4, <3>1
    <3>3. Uses(n, r) => nsi[n].instantiated
      BY <1>1, <2>4 DEF Owned, SharesKnown, ShareKnown, Uses, n
    <3> QED  BY <3>2, <3>3
  <2> QED  BY <2>2, <2>3, <2>4
<1>11. Mindful(i)
  <2>1. \A r \in Nsr : nsi'[n].uses[r] \in {nsi[n].uses[r], NoRequest}
    BY <1>1
  <2> QED  BY <1>1, <1>7, <1>8, <1>9, <1>10, <2>1 DEF Mindful, n
<1> QED  BY <1>5, <1>11, RequestOwns

LEMMA ActSharedOwns ==
    ASSUME Typed, Undisturbed', Sound, Owned, NEW i \in Request, ActShared(i)
    PROVE  OwnedStays
<1>1. /\ req[i].pc = "act" /\ UNCHANGED <<nsr, handler>>
      /\ \E s \in Shared(req[i].read.list) :
             ShareInstantiate(i, s) \/ ShareTerminate(i, s)
  BY DEF ActShared
<1>2. PICK s \in SharedNs :
          /\ s \in req[i].read.list
          /\ ShareInstantiate(i, s) \/ ShareTerminate(i, s)
  BY <1>1 DEF Shared
<1>3. CASE ShareInstantiate(i, s)
  BY <1>1, <1>2, <1>3, ShareInstantiateOwns
<1>4. CASE ShareTerminate(i, s)
  BY <1>1, <1>2, <1>4, ShareTerminateOwns
<1> QED  BY <1>2, <1>3, <1>4

LEMMA SendOwns ==
    ASSUME Typed, Sound, Owned, NEW i \in Request, req[i].pc = "own",
           req'[i].slice = req[i].slice, req'[i].kind = req[i].kind,
           req'[i].pc = "sent", req'[i].state = "PROCESSING",
           Created(i, {req[i].slice} \cap req[i].read.list),
           \A r \in Nsr :
               req'[i].ops[r] =
                   IF r \in {req[i].slice} \cap req[i].read.list /\ Exist(r)
                     THEN i ELSE req[i].ops[r],
           OnlyReq(i), UNCHANGED <<nsi, nsr, handler, marks>>
    PROVE  OwnedStays
<1> DEFINE n == req[i].slice
           R == {n} \cap req[i].read.list
<1>1. /\ \A r \in Nsr : req'[i].ops[r] = IF r \in R /\ Exist(r)
                                           THEN i ELSE req[i].ops[r]
      /\ Created(i, R)
  OBVIOUS
<1>2. n \in Slice /\ n \notin SharedNs /\ Open(i) /\ ~Open(i)' /\ R \subseteq {n}
      /\ n \in Nsr
  BY SliceAssumption DEF Open, Typed, SliceKnown, Nsr
<1>3. n \in R /\ Exist(n)
  <2>1. There(n)
    BY <1>2 DEF Sound, Alive, Active, Open
  <2>2. n \in nsi[n].list
    BY <1>2, <2>1 DEF Owned, OwnListed
  <2> QED  BY <1>2, <2>1, <2>2 DEF Sound, Lists
<1> HIDE DEF R
<1>4. RequestStep(i, R)
  <2>1. /\ OnlySlice(n)
        /\ nsi'[n].life = nsi[n].life /\ nsi'[n].list = nsi[n].list
        /\ nsi'[n].shown = nsi[n].shown
        /\ nsi'[n].instantiated = nsi[n].instantiated
        /\ nsi[n].vld \subseteq nsi'[n].vld
        /\ \A r \in Nsr : nsi'[n].uses[r] \in {nsi[n].uses[r], NoRequest}
    BY DEF OnlySlice
  <2>2. \A r \in Nsr :
            \/ req'[i].ops[r] = req[i].ops[r]
            \/ req'[i].ops[r] = i /\ r \in SharedNs \cup {n}
    BY <1>1, <1>2
  <2>3. R \subseteq SharedNs \cup {n}
    BY <1>2
  <2> QED  BY <1>1, <1>2, <2>1, <2>2, <2>3 DEF RequestStep
<1>5. /\ \A r \in SharedNs : req'[i].ops[r] = req[i].ops[r]
      /\ req'[i].ops[n] = i
  BY <1>1, <1>2, <1>3 DEF Nsr
<1>6. /\ Instantiates(i)' <=> Instantiates(i)
      /\ Terminates(i)' <=> Terminates(i)
  BY DEF Instantiates, Terminates
<1>7. ASSUME NEW r \in SharedNs
      PROVE  /\ ActedOn(i, r)' => ActedOn(i, r)
             /\ ShareKnown(i, r)'
  <2>1. ShareKnown(i, r)
    BY DEF Owned, SharesKnown
  <2>2. ActedOn(i, r)' => ActedOn(i, r)
    BY <1>6 DEF ActedOn
  <2> QED  BY <1>5, <1>6, <2>1, <2>2 DEF ShareKnown
<1>8. UserFound'
  BY <1>2, NobodyLooks
<1>9. ASSUME NEW r \in nsi[n].list
      PROVE  \/ /\ ActedOn(i, r)' => ActedOn(i, r)
                /\ req'[i].ops[r] = req[i].ops[r]
                /\ nsi'[n].uses[r] = nsi[n].uses[r]
             \/ /\ req'[i].ops[r] = i
                /\ Uses(n, r) => nsi[n].instantiated
  <2>1. r \in SharedNs \/ r = n
    BY <1>2 DEF Sound, Lists, Listable
  <2>2. ~Uses(n, n)
    BY <1>2 DEF Uses
  <2> QED  BY <1>5, <1>7, <2>1, <2>2
<1>10. Mindful(i)
  BY <1>5, <1>6, <1>7, <1>8, <1>9 DEF Mindful
<1> QED  BY <1>4, <1>10, RequestOwns

LEMMA RefusedOwns ==
    ASSUME Typed, Sound, Owned, NEW i \in Request, req[i].pc = "own",
           req'[i].slice = req[i].slice, req'[i].kind = req[i].kind,
           req'[i].pc = "over", req'[i].ops = NoUse,
           Shared(req[i].read.list) = {},
           \A o \in Request \X Nsr :
               /\ nslcmop'[o].run = nslcmop[o].run
               /\ nslcmop'[o].state = IF o[1] = i THEN "none"
                                        ELSE nslcmop[o].state,
           OnlyReq(i), UNCHANGED <<nsi, nsr, handler, marks>>
    PROVE  OwnedStays
<1> DEFINE n == req[i].slice
<1>1. Open(i)
  BY DEF Open
<1>2. \A j \in Request :
          /\ req'[j].slice = req[j].slice /\ req'[j].kind = req[j].kind
          /\ Instantiates(j)' <=> Instantiates(j)
          /\ Terminates(j)' <=> Terminates(j)
          /\ req'[j].pc = "free" <=> req[j].pc = "free"
          /\ req'[j].pc \notin {"over", "free"} => j # i
          /\ j # i => req'[j] = req[j]
          /\ Active(j)' => Active(j) /\ j # i
          /\ Working(j)' => Working(j) /\ j # i
          /\ req[j].pc # "free" => req[j].slice \in Slice
  <2> SUFFICES ASSUME NEW j \in Request
               PROVE  /\ req'[j].slice = req[j].slice /\ req'[j].kind = req[j].kind
                      /\ Instantiates(j)' <=> Instantiates(j)
                      /\ Terminates(j)' <=> Terminates(j)
                      /\ req'[j].pc = "free" <=> req[j].pc = "free"
                      /\ req'[j].pc \notin {"over", "free"} => j # i
                      /\ j # i => req'[j] = req[j]
                      /\ Active(j)' => Active(j) /\ j # i
                      /\ Working(j)' => Working(j) /\ j # i
                      /\ req[j].pc # "free" => req[j].slice \in Slice
    OBVIOUS
  <2>1. req'[j].slice = req[j].slice /\ req'[j].kind = req[j].kind
        /\ (j # i => req'[j] = req[j])
    BY DEF OnlyReq
  <2> QED
    BY <2>1 DEF Instantiates, Terminates, Active, Working, Typed, SliceKnown
<1>3. ASSUME NEW t \in Request, NEW r \in Nsr
      PROVE  /\ nslcmop'[<<t, r>>].run = nslcmop[<<t, r>>].run
             /\ Processing(<<t, r>>)' => Processing(<<t, r>>)
             /\ nslcmop'[<<t, r>>].state = "COMPLETED"
                    <=> nslcmop[<<t, r>>].state = "COMPLETED"
  <2>1. nslcmop[<<i, r>>].state \in {"none", "PROCESSING"}
    BY <1>1 DEF Sound, OpsKnown
  <2>2. /\ nslcmop'[<<t, r>>].run = nslcmop[<<t, r>>].run
        /\ nslcmop'[<<t, r>>].state =
               IF t = i THEN "none" ELSE nslcmop[<<t, r>>].state
    OBVIOUS
  <2> QED  BY <2>1, <2>2 DEF Processing
<1>4. nsi' = nsi /\ nsr' = nsr /\ handler' = handler /\ marks' = marks
  OBVIOUS
<1>5. \A m \in Slice : There(m)' <=> There(m)
  BY <1>4 DEF There
<1>6. \A q \in Request, r \in Nsr : ToCome(q, r)' => ToCome(q, r)
  BY <1>2, <1>3 DEF ToCome
<1>7. OwnListed'
  BY <1>4, <1>5 DEF Owned, OwnListed
<1>8. OwnAsked'
  <2>1. \A j \in Request :
            Instantiates(j)' /\ req'[j].pc = "sent"
                => nslcmop'[<<j, req'[j].slice>>].run = "no"
    BY <1>2, <1>3 DEF Owned, OwnAsked, Nsr
  <2>2. \A j \in Request :
            req'[j].pc \in {"sent", "poll", "write"}
                => req'[j].ops[req'[j].slice] = j
    BY <1>2 DEF Owned, OwnAsked
  <2> QED  BY <2>1, <2>2 DEF OwnAsked
<1>9. RoundsKnown'
  <2> SUFFICES ASSUME NEW j \in Request, req'[j].pc = "write",
                      NEW r \in nsi'[req'[j].slice].list
               PROVE  /\ req'[j].ops[r] # NoRequest <=> r \in req'[j].read.list
                      /\ /\ r \in req'[j].read.list
                         /\ req'[j].read.all = "COMPLETED"
                         => nslcmop'[<<req'[j].ops[r], r>>].state = "COMPLETED"
    BY DEF RoundsKnown
  <2>1. req'[j] = req[j] /\ req[j].slice \in Slice
    BY <1>2
  <2>2. r \in nsi[req[j].slice].list /\ r \in Nsr
    BY <1>4, <2>1, ListedNss
  <2>3. /\ req[j].ops[r] # NoRequest <=> r \in req[j].read.list
        /\ r \in req[j].read.list /\ req[j].read.all = "COMPLETED" =>
               nslcmop[<<req[j].ops[r], r>>].state = "COMPLETED"
    BY <2>1, <2>2 DEF Owned, RoundsKnown
  <2>4. req[j].ops[r] \in Request \cup {NoRequest}
    BY <2>2, OpAtTyped
  <2> QED  BY <1>3, <2>1, <2>2, <2>3, <2>4
<1>10. WorkKnown'
  BY <1>2, <1>4 DEF Owned, WorkKnown
<1>11. EndsInTurn'
  BY <1>2, <1>4 DEF Owned, EndsInTurn
<1>12. \A t \in Request, r \in Nsr :
           ActedOn(t, r)' => ActedOn(t, r) /\ t # i
  BY <1>2 DEF ActedOn
<1>13. SharesKnown'
  <2>1. ASSUME NEW j \in Request, NEW s \in SharedNs
        PROVE  ShareKnown(j, s)'
    <3>1. ShareKnown(j, s)
      BY DEF Owned, SharesKnown
    <3>2. CASE j = i
      BY <1>2, <1>12, <3>2 DEF ShareKnown, Nsr
    <3>3. CASE j # i
      BY <1>2, <1>4, <3>1, <3>3 DEF ShareKnown, ActedOn
    <3> QED  BY <3>2, <3>3
  <2>2. ASSUME NEW j \in Request, Instantiates(j)', Open(j)'
        PROVE  req'[j].read.list \subseteq nsi'[req'[j].slice].list
    <3>1. j # i /\ req'[j] = req[j]
      BY <1>2, <2>2 DEF Open
    <3> QED  BY <1>2, <1>4, <2>2, <3>1 DEF Owned, SharesKnown, Open
  <2> QED  BY <2>1, <2>2 DEF SharesKnown
<1>14. UserFound'
  BY <1>1, NobodyLooks
<1>15. EndsFirst'
  BY <1>2, <1>3, <1>6 DEF Owned, EndsFirst
<1>16. ASSUME NobodyGaveUp'
       PROVE  NobodyGaveUp
  <2> SUFFICES ASSUME NEW j \in Request, Instantiates(j), req[j].pc = "over",
                      req[j].ops[req[j].slice] # NoRequest
               PROVE  nslcmop[<<j, req[j].slice>>].run # "no"
    BY DEF NobodyGaveUp
  <2>1. j # i /\ req[j].slice \in Nsr
    BY <1>2 DEF Nsr
  <2>2. nslcmop'[<<j, req'[j].slice>>].run # "no"
    BY <1>2, <1>16, <2>1 DEF NobodyGaveUp
  <2> QED  BY <1>2, <1>3, <2>1, <2>2
<1>17. ASSUME NobodyGaveUp
       PROVE  Claimed' /\ Held'
  <2>1. Claimed /\ Held
    BY <1>17 DEF Owned
  <2>2. Claimed'
    <3> SUFFICES ASSUME NEW m \in Slice, NEW s \in Shared(nsi[m].list),
                        There(m), nsi[m].uses[s] # NoRequest
                 PROVE  nsi[m].instantiated \/ Comes(m)'
      BY <1>4, <1>5 DEF Claimed
    <3>1. nsi[m].instantiated \/ Comes(m)
      BY <2>1 DEF Claimed
    <3>2. m # n
      <4>1. nsi[n].list \subseteq req[i].read.list
        BY <1>1 DEF Sound, Lists
      <4> QED  BY <4>1 DEF Shared
    <3>3. Comes(m) => Comes(m)'
      BY <1>2, <3>2 DEF Comes
    <3> QED  BY <3>1, <3>3
  <2>3. \A t \in Request, r \in Nsr, q \in Request \cup {NoRequest} :
            Leaves(t, r, q)' => Leaves(t, r, q)
    BY <1>2, <1>3, <1>12 DEF Leaves
  <2>4. \A m \in Slice, r \in Nsr, q \in Request \cup {NoRequest} :
            Holder(m, r, q) => Holder(m, r, q)'
    BY <1>2, <1>4, <1>5, <2>3 DEF Holder, Uses
  <2>5. \A r \in Nsr, q \in Request \cup {NoRequest} :
            Needed(r, q)' => Needed(r, q)
    BY <1>4, <1>6 DEF Needed
  <2> QED  BY <2>1, <2>2, <2>4, <2>5 DEF Held
<1> QED
  BY <1>7, <1>8, <1>9, <1>10, <1>11, <1>13, <1>14, <1>15, <1>16, <1>17
  DEF OwnedStays, Owned

LEMMA ActOwnOwns ==
    ASSUME Typed, Undisturbed', Sound, Owned, NEW i \in Request, ActOwn(i)
    PROVE  OwnedStays
<1>1. /\ req[i].pc = "own"
      /\ req'[i].slice = req[i].slice /\ req'[i].kind = req[i].kind
      /\ OnlyReq(i) /\ UNCHANGED <<nsi, nsr, handler, marks>>
  BY ActOwnDoes
<1>2. \/ /\ req'[i].pc = "over" /\ req'[i].ops = NoUse
         /\ Shared(req[i].read.list) = {}
         /\ \A o \in Request \X Nsr :
                /\ nslcmop'[o].run = nslcmop[o].run
                /\ nslcmop'[o].state = IF o[1] = i THEN "none"
                                         ELSE nslcmop[o].state
      \/ /\ req'[i].pc = "sent" /\ req'[i].state = "PROCESSING"
         /\ \A r \in Nsr :
                req'[i].ops[r] =
                    IF r \in {req[i].slice} \cap req[i].read.list /\ Exist(r)
                      THEN i ELSE req[i].ops[r]
         /\ Created(i, {req[i].slice} \cap req[i].read.list)
  BY ActOwnDoes
<1> QED  BY <1>1, <1>2, RefusedOwns, SendOwns

LEMMA AskOwns ==
    ASSUME Typed, Undisturbed', Sound, Owned, NEW i \in Request, NEW n \in Slice,
           NEW kind \in Kinds, NEW auto \in BOOLEAN, Ask(i, n, kind, auto),
           marks \subseteq {"together"}
    PROVE  OwnedStays
<1>1. /\ NbiFree /\ There(n) /\ nsi[n].instantiated = (kind = "terminate")
      /\ req[i].pc = "free" /\ \A q \in 1 .. i - 1 : req[q].pc # "free"
      /\ req'[i].pc \in {"look", "own"}
      /\ req'[i].pc = "own" => Shared(nsi[n].list) = {}
      /\ req'[i].slice = n /\ req'[i].kind = kind
      /\ kind \in {"instantiate", "terminate"}
      /\ req'[i].ops = NoUse /\ req'[i].found = NoRequest
      /\ req'[i].read.list = nsi[n].list
      /\ OnlyReq(i)
      /\ UNCHANGED <<nsi, nsr, nslcmop, handler>>
  BY AskDoes
<1>2. \A j \in Request : j # i => req'[j] = req[j]
  BY <1>1 DEF OnlyReq
<1>3. \A r \in Nsr : Untouched(<<i, r>>) /\ req'[i].ops[r] = NoRequest
  BY <1>1 DEF Sound, OpsKnown, NoUse
<1>4. \A j \in Request : ~Open(j) /\ (i < j => req[j].pc = "free")
  BY <1>1 DEF Sound, InTurn, NbiFree
<1>5. /\ \A m \in Slice : There(m)' <=> There(m)
      /\ Terminates(i)' <=> kind = "terminate"
      /\ Instantiates(i)' <=> kind = "instantiate"
      /\ ~Working(i)' /\ Active(i)' /\ ~Active(i) /\ ~Working(i)
  BY <1>1 DEF There, Terminates, Instantiates, Working, Active
<1>6. \A j \in Request :
          j # i => /\ Active(j)' <=> Active(j)
                   /\ Working(j)' <=> Working(j)
                   /\ Instantiates(j)' <=> Instantiates(j)
                   /\ Terminates(j)' <=> Terminates(j)
                   /\ req[j].pc # "free" => req[j].slice \in Slice
  BY <1>2 DEF Active, Working, Instantiates, Terminates, Typed, SliceKnown
<1>7. \A q \in Request, r \in Nsr : ToCome(q, r)' <=> ToCome(q, r) /\ q # i
  <2> SUFFICES ASSUME NEW q \in Request, NEW r \in Nsr
               PROVE  ToCome(q, r)' <=> ToCome(q, r) /\ q # i
    OBVIOUS
  <2>1. CASE q = i
    BY <1>1, <1>3, <2>1 DEF ToCome, Untouched
  <2>2. CASE q # i
    BY <1>1, <1>6, <2>2 DEF ToCome, Processing
  <2> QED  BY <2>1, <2>2
<1>8. OwnListed'
  BY <1>1, <1>5 DEF Owned, OwnListed
<1>9. OwnAsked'
  BY <1>1, <1>2, <1>6 DEF Owned, OwnAsked
<1>10. RoundsKnown'
  <2> SUFFICES ASSUME NEW j \in Request, req'[j].pc = "write",
                      NEW r \in nsi'[req'[j].slice].list
               PROVE  /\ req'[j].ops[r] # NoRequest <=> r \in req'[j].read.list
                      /\ /\ r \in req'[j].read.list
                         /\ req'[j].read.all = "COMPLETED"
                         => nslcmop'[<<req'[j].ops[r], r>>].state = "COMPLETED"
    BY DEF RoundsKnown
  <2>1. req'[j] = req[j]
    BY <1>1, <1>2
  <2> QED  BY <1>1, <2>1 DEF Owned, RoundsKnown
<1>11. WorkKnown'
  BY <1>1, <1>2, <1>5, <1>6 DEF Owned, WorkKnown
<1>12. EndsInTurn'
  <2>1. ASSUME NEW t \in Request, NEW j \in Request, Terminates(t)', Active(t)',
               t < j, req'[j].pc # "free", req'[j].slice = req'[t].slice
        PROVE  Terminates(j)'
    <3>1. t # i
      BY <1>2, <1>4, <2>1 DEF Request
    <3>2. Terminates(t) /\ Active(t) /\ req'[t] = req[t]
      BY <1>2, <1>6, <2>1, <3>1
    <3>3. CASE j # i
      BY <1>2, <1>6, <2>1, <3>2, <3>3 DEF Owned, EndsInTurn
    <3>4. CASE j = i
      <4>1. req[t].slice = n
        BY <1>1, <2>1, <3>2, <3>4
      <4>2. "repeated" \notin marks
        OBVIOUS
      <4>3. nsi[n].instantiated
        BY <3>2, <4>1, <4>2 DEF Owned, EndsInTurn
      <4> QED  BY <1>1, <1>5, <3>4, <4>3
    <3> QED  BY <3>3, <3>4
  <2>2. ASSUME NEW t \in Request, Terminates(t)', Active(t)'
        PROVE  nsi'[req'[t].slice].instantiated
    <3>1. CASE t = i
      BY <1>1, <1>5, <2>2, <3>1
    <3>2. CASE t # i
      <4>1. Terminates(t) /\ Active(t) /\ req'[t] = req[t]
        BY <1>2, <1>6, <2>2, <3>2
      <4>2. "repeated" \notin marks
        OBVIOUS
      <4> QED  BY <1>1, <4>1, <4>2 DEF Owned, EndsInTurn
    <3> QED  BY <3>1, <3>2
  <2> QED  BY <2>1, <2>2 DEF EndsInTurn
<1>13. \A t \in Request, r \in Nsr : t # i => (ActedOn(t, r)' <=> ActedOn(t, r))
  BY <1>2, <1>6 DEF ActedOn
<1>14. SharesKnown'
  <2>1. ASSUME NEW j \in Request, NEW s \in SharedNs
        PROVE  ShareKnown(j, s)'
    <3>1. s \in Nsr
      BY DEF Nsr
    <3>2. CASE j # i
      <4>1. ShareKnown(j, s)
        BY DEF Owned, SharesKnown
      <4> QED  BY <1>1, <1>2, <1>6, <1>13, <3>1, <3>2, <4>1 DEF ShareKnown
    <3>3. CASE j = i
      <4>1. s \in nsi[n].list => req'[i].pc = "look"
        BY <1>1 DEF Shared
      <4>2. ActedOn(i, s)' => s \notin nsi[n].list
        BY <1>1, <4>1 DEF ActedOn
      <4>3. nsi' = nsi /\ req'[i].slice = n
        BY <1>1
      <4> QED  BY <1>1, <1>3, <1>5, <3>1, <3>3, <4>1, <4>2, <4>3 DEF ShareKnown
    <3> QED  BY <3>2, <3>3
  <2>2. ASSUME NEW j \in Request, Instantiates(j)', Open(j)'
        PROVE  req'[j].read.list \subseteq nsi'[req'[j].slice].list
    <3>1. CASE j = i
      BY <1>1, <3>1
    <3>2. CASE j # i
      BY <1>2, <1>4, <2>2, <3>2 DEF Open
    <3> QED  BY <3>1, <3>2
  <2> QED  BY <2>1, <2>2 DEF SharesKnown
<1>15. UserFound'
  <2>1. \A t \in Request : req'[t].pc # "act"
    BY <1>1, <1>2, <1>4 DEF Open
  <2> QED  BY <2>1 DEF UserFound
<1>16. EndsFirst'
  <2> SUFFICES ASSUME NEW t \in Request, NEW q \in Request, NEW r \in Nsr,
                      Terminates(t)', q < t, Processing(<<t, r>>)',
                      nslcmop'[<<t, r>>].run = "work"
               PROVE  ~ToCome(q, r)'
    BY DEF EndsFirst
  <2>1. t # i
    BY <1>1, <1>3 DEF Untouched
  <2>2. Terminates(t) /\ Processing(<<t, r>>) /\ nslcmop[<<t, r>>].run = "work"
    BY <1>1, <1>6, <2>1 DEF Processing
  <2> QED  BY <1>7, <2>2 DEF Owned, EndsFirst
<1>17. ASSUME NobodyGaveUp'
       PROVE  NobodyGaveUp
  <2> SUFFICES ASSUME NEW j \in Request, Instantiates(j), req[j].pc = "over",
                      req[j].ops[req[j].slice] # NoRequest
               PROVE  nslcmop[<<j, req[j].slice>>].run # "no"
    BY DEF NobodyGaveUp
  <2>1. j # i /\ req'[j] = req[j]
    BY <1>1, <1>2
  <2> QED  BY <1>1, <1>6, <1>17, <2>1 DEF NobodyGaveUp
<1>18. ASSUME NobodyGaveUp
       PROVE  Claimed' /\ Held'
  <2>1. Claimed /\ Held
    BY <1>18 DEF Owned
  <2>2. ASSUME NEW m \in Slice, Comes(m)
        PROVE  Comes(m)'
    <3>1. PICK j \in Request : /\ Instantiates(j) /\ req[j].pc \in {"own", "sent"}
                               /\ req[j].slice = m
      BY <2>2 DEF Comes
    <3>2. j # i
      BY <1>1, <3>1
    <3> QED  BY <1>2, <1>6, <3>1, <3>2 DEF Comes
  <2>3. Claimed'
    BY <1>1, <1>5, <2>1, <2>2 DEF Claimed
  <2>4. \A r \in Nsr, q \in Request \cup {NoRequest} : Needed(r, q)' => Needed(r, q)
    BY <1>1, <1>7 DEF Needed
  <2>5. ASSUME NEW t \in Request, NEW r \in Nsr, NEW q \in Request \cup {NoRequest},
               t # i, Leaves(t, r, q)'
        PROVE  Leaves(t, r, q)
    BY <1>1, <1>2, <1>13, <2>5 DEF Leaves
  <2>6. ASSUME NEW r \in Nsr, r \in nsi[n].list
        PROVE  ~ActedOn(i, r)'
    BY <1>1, <2>6 DEF ActedOn, Shared
  <2>7. ASSUME NEW m \in Slice, NEW r \in Nsr, NEW q \in Request \cup {NoRequest},
               Holder(m, r, q)
        PROVE  Holder(m, r, q)'
    <3>1. /\ There(m) /\ r \in nsi[m].list
          /\ Uses(m, r)' <=> Uses(m, r)
      BY <1>1, <2>7 DEF Holder, Uses
    <3>2. CASE Uses(m, r)
      BY <1>1, <1>5, <3>1, <3>2 DEF Holder
    <3>3. CASE ~Uses(m, r)
      <4>1. /\ nsi[m].instantiated
            /\ \A t \in Request : req[t].slice = m => ~Leaves(t, r, q)
        BY <2>7, <3>3 DEF Holder
      <4>2. ASSUME NEW t \in Request, req'[t].slice = m
            PROVE  ~Leaves(t, r, q)'
        <5>1. CASE t = i
          <6>1. m = n
            BY <1>1, <4>2, <5>1
          <6> QED  BY <2>6, <3>1, <5>1, <6>1 DEF Leaves
        <5>2. CASE t # i
          BY <1>2, <2>5, <4>1, <4>2, <5>2
        <5> QED  BY <5>1, <5>2
      <4> QED  BY <1>1, <1>5, <3>1, <4>1, <4>2 DEF Holder
    <3> QED  BY <3>2, <3>3
  <2>8. Held'
    BY <2>1, <2>4, <2>7 DEF Held
  <2> QED  BY <2>3, <2>8
<1> QED
  BY <1>8, <1>9, <1>10, <1>11, <1>12, <1>14, <1>15, <1>16, <1>17, <1>18
  DEF OwnedStays, Owned

-----------------------------------------------------------------------------
(* Clients that have one slice operation at a time under way                *)

\* A step that leaves the lists of the slices as they are.
Beside ==
    /\ \A n \in Slice : nsi'[n].life = nsi[n].life /\ nsi'[n].list = nsi[n].list
    /\ \A i \in Request :
           req'[i].slice = req[i].slice /\ (Active(i)' => Active(i))
    /\ \A r \in Nsr : Exist(r)' => Exist(r)
    /\ \A t \in Request, s \in SharedNs :
             /\ ActedOn(t, s)' /\ s \in nsi[req[t].slice].list
             /\ req'[t].ops[s] = NoRequest
           => OthersListing(req[t].slice, s) # {}
    /\ UNCHANGED handler

LEMMA ActiveSlice ==
    ASSUME Typed, NEW i \in Request, Active(i)
    PROVE  req[i].slice \in Slice
BY DEF Typed, SliceKnown, Active

LEMMA ActedActive ==
    ASSUME NEW t \in Request, NEW r, ActedOn(t, r)
    PROVE  Active(t)
BY DEF ActedOn, Active

LEMMA BesideKeeps ==
    ASSUME Typed, Alone, Beside, OwnedStays
    PROVE  Alone'
<1>1. \A n \in Slice : There(n)' <=> There(n)
  BY DEF Beside, There
<1>2. OneAtATime'
  BY DEF Alone, OneAtATime, Beside
<1>3. RemovalsKnown'
  BY <1>1 DEF Alone, RemovalsKnown, Beside
<1>4. ASSUME NEW n \in Slice, NEW s \in SharedNs, NEW m \in OthersListing(n, s)
      PROVE  m \in Slice /\ m # n /\ There(m)' /\ s \in nsi'[m].list
  BY <1>1 DEF OthersListing, Beside
<1>5. OthersRemain'
  <2> SUFFICES ASSUME NEW t \in Request, NEW s \in SharedNs, ActedOn(t, s)',
                      s \in nsi'[req'[t].slice].list, req'[t].ops[s] = NoRequest
               PROVE  OthersListing(req[t].slice, s)' # {}
    BY DEF OthersRemain
  <2>1. Active(t)
    BY DEF ActedOn, Active, Beside
  <2>2. req[t].slice \in Slice /\ req'[t].slice = req[t].slice
    BY <2>1, ActiveSlice DEF Beside
  <2>3. s \in nsi[req[t].slice].list
    BY <2>2 DEF Beside
  <2>4. OthersListing(req[t].slice, s) # {}
    BY <2>3 DEF Beside
  <2>5. PICK m \in OthersListing(req[t].slice, s) : TRUE
    BY <2>4
  <2>6. /\ m \in Slice /\ m # req'[t].slice /\ There(m)'
        /\ s \in nsi'[m].list
    BY <1>4, <2>2, <2>5
  <2> QED  BY <2>6 DEF OthersListing
<1>6. ASSUME NobodyGaveUp'
      PROVE  AllBelong'
  <2>1. AllBelong
    BY <1>6 DEF OwnedStays, Alone
  <2>2. \A r \in Nsr : Belongs(r) => Belongs(r)'
    BY <1>1 DEF Belongs, Beside
  <2> QED  BY <2>1, <2>2 DEF AllBelong, Beside
<1> QED  BY <1>2, <1>3, <1>5, <1>6 DEF Alone

\* A request that goes on at NBI.
LEMMA RequestAlone ==
    ASSUME Typed, Alone, OwnedStays, NEW i \in Request, Open(i),
           req'[i].slice = req[i].slice, OnlyReq(i), OnlySlice(req[i].slice),
           nsi'[req[i].slice].life = nsi[req[i].slice].life,
           nsi'[req[i].slice].list = nsi[req[i].slice].list,
           \A s \in SharedNs :
               \/ /\ ActedOn(i, s)' => ActedOn(i, s)
                  /\ req'[i].ops[s] = req[i].ops[s]
               \/ ActedOn(i, s)' /\ s \in nsi[req[i].slice].list
                  /\ req'[i].ops[s] = NoRequest => Used(req[i].slice, s)
               \/ ~ActedOn(i, s)',
           UNCHANGED <<nsr, handler>>
    PROVE  Alone'
<1>1. Active(i)
  BY DEF Open, Active
<1>2. \A n \in Slice : nsi'[n].life = nsi[n].life /\ nsi'[n].list = nsi[n].list
  BY DEF OnlySlice
<1>3. \A j \in Request :
          req'[j].slice = req[j].slice /\ (Active(j)' => Active(j))
  BY <1>1 DEF OnlyReq, Active
<1>4. ASSUME NEW t \in Request, NEW s \in SharedNs, ActedOn(t, s)',
             s \in nsi[req[t].slice].list, req'[t].ops[s] = NoRequest
      PROVE  OthersListing(req[t].slice, s) # {}
  <2>1. CASE ActedOn(t, s) /\ req'[t].ops[s] = req[t].ops[s]
    BY <1>4, <2>1 DEF Alone, OthersRemain
  <2>2. CASE t # i
    <3>1. req'[t] = req[t]
      BY <2>2 DEF OnlyReq
    <3>2. ActedOn(t, s)
      BY <1>4, <3>1 DEF ActedOn, Terminates
    <3> QED  BY <2>1, <3>1, <3>2
  <2>3. CASE t = i
    BY <1>4, <2>1, <2>3 DEF Used
  <2> QED  BY <2>2, <2>3
<1>5. \A r \in Nsr : Exist(r)' => Exist(r)
  BY DEF Exist
<1>6. Beside
  BY <1>2, <1>3, <1>4, <1>5 DEF Beside
<1> QED  BY <1>6, BesideKeeps

LEMMA LookSharedAlone ==
    ASSUME Typed, Undisturbed', Sound, Owned, Alone, OwnedStays,
           NEW i \in Request, LookShared(i)
    PROVE  Alone'
<1>1. /\ req[i].pc = "look" /\ req'[i].pc = "act" /\ SameButFound(i)
      /\ OnlyReq(i) /\ UNCHANGED <<nsi, nsr, handler>>
  BY LookSharedDoes
<1>2. Open(i) /\ \A s \in SharedNs : ~ActedOn(i, s)'
  BY <1>1 DEF Open, ActedOn
<1> QED  BY <1>1, <1>2, RequestAlone DEF SameButFound, OnlySlice

LEMMA ShareTerminateAlone ==
    ASSUME Typed, Undisturbed', Sound, Owned, Alone, OwnedStays,
           NEW i \in Request, req[i].pc = "act", NEW s \in SharedNs,
           s \in req[i].read.list, ShareTerminate(i, s), UNCHANGED <<nsr, handler>>
    PROVE  Alone'
<1> DEFINE n == req[i].slice
           R == IF req[i].found # NoRequest THEN {} ELSE {s}
<1>1. /\ Terminates(i) /\ req'[i].pc = "own" /\ SameButFound(i)
      /\ \A r \in Nsr : req'[i].ops[r] = IF r \in R /\ Exist(r)
                                           THEN i ELSE req[i].ops[r]
      /\ nsi'[n].life = nsi[n].life /\ nsi'[n].list = nsi[n].list
      /\ OnlyReq(i) /\ OnlySlice(n)
  BY ShareTerminateDoes
<1>2. n \in Slice /\ Open(i) /\ There(n) /\ req'[i].slice = n
  BY <1>1 DEF Open, Typed, SliceKnown, Sound, Alive, Active, SameButFound
<1>3. \A r \in SharedNs : r \in nsi[n].list => r = s
  BY <1>2 DEF Sound, Lists, Listable, Shared
<1>4. ASSUME NEW r \in SharedNs, r \in nsi[n].list, req'[i].ops[r] = NoRequest
      PROVE  Used(n, r)
  <2>1. r = s /\ r \in Nsr /\ Exist(r)
    BY <1>2, <1>3, <1>4 DEF Sound, Lists, Nsr
  <2>2. i # NoRequest
    BY DEF Request, NoRequest
  <2>3. req[i].found # NoRequest
    BY <1>1, <1>4, <2>1, <2>2
  <2> QED  BY <1>1, <2>1, <2>3 DEF Owned, UserFound, Shared
<1> HIDE DEF R
<1> QED  BY <1>1, <1>2, <1>4, RequestAlone

LEMMA ActSharedAlone ==
    ASSUME Typed, Undisturbed', Sound, Owned, Alone, OwnedStays,
           NEW i \in Request, ActShared(i)
    PROVE  Alone'
<1> DEFINE n == req[i].slice
<1>1. /\ req[i].pc = "act" /\ UNCHANGED <<nsr, handler>>
      /\ \E s \in Shared(req[i].read.list) :
             ShareInstantiate(i, s) \/ ShareTerminate(i, s)
  BY DEF ActShared
<1>2. PICK s \in SharedNs :
          /\ s \in req[i].read.list
          /\ ShareInstantiate(i, s) \/ ShareTerminate(i, s)
  BY <1>1 DEF Shared
<1>3. CASE ShareInstantiate(i, s)
  <2>1. /\ Instantiates(i) /\ SameButFound(i)
        /\ nsi'[n].life = nsi[n].life /\ nsi'[n].list = nsi[n].list
        /\ OnlyReq(i) /\ OnlySlice(n)
    BY <1>1, <1>3, ShareInstantiateDoes
  <2>2. \A r \in SharedNs : ~ActedOn(i, r)'
    BY <2>1 DEF ActedOn, Instantiates, Terminates, SameButFound
  <2>3. Open(i) /\ req'[i].slice = n
    BY <1>1, <2>1 DEF Open, SameButFound
  <2> QED  BY <1>1, <2>1, <2>2, <2>3, RequestAlone
<1>4. CASE ShareTerminate(i, s)
  BY <1>1, <1>2, <1>4, ShareTerminateAlone
<1> QED  BY <1>2, <1>3, <1>4

LEMMA ActOwnAlone ==
    ASSUME Typed, Undisturbed', Sound, Owned, Alone, OwnedStays,
           NEW i \in Request, ActOwn(i)
    PROVE  Alone'
<1>1. /\ req[i].pc = "own"
      /\ req'[i].slice = req[i].slice /\ req'[i].kind = req[i].kind
      /\ OnlyReq(i) /\ UNCHANGED <<nsi, nsr, handler>>
  BY ActOwnDoes
<1>2. \/ req'[i].pc = "over"
      \/ /\ req'[i].pc = "sent"
         /\ \A r \in Nsr :
                req'[i].ops[r] =
                    IF r \in {req[i].slice} \cap req[i].read.list /\ Exist(r)
                      THEN i ELSE req[i].ops[r]
  BY ActOwnDoes
<1>3. Open(i) /\ req[i].slice \in Slice /\ req[i].slice \notin SharedNs
  BY <1>1, SliceAssumption DEF Open, Typed, SliceKnown
<1>4. CASE req'[i].pc = "over"
  <2>1. \A s \in SharedNs : ~ActedOn(i, s)'
    BY <1>4 DEF ActedOn
  <2> QED  BY <1>1, <1>3, <2>1, RequestAlone DEF OnlySlice
<1>5. CASE /\ req'[i].pc = "sent"
           /\ \A r \in Nsr :
                  req'[i].ops[r] =
                      IF r \in {req[i].slice} \cap req[i].read.list /\ Exist(r)
                        THEN i ELSE req[i].ops[r]
  <2>1. \A s \in SharedNs : /\ ActedOn(i, s)' => ActedOn(i, s)
                            /\ req'[i].ops[s] = req[i].ops[s]
    BY <1>1, <1>3, <1>5 DEF ActedOn, Terminates, Nsr
  <2> QED  BY <1>1, <1>3, <2>1, RequestAlone DEF OnlySlice
<1> QED  BY <1>2, <1>4, <1>5

\* A task leaves out only what another slice lists.
LEMMA TaskAlone ==
    ASSUME Typed, Sound, Owned, Alone, OwnedStays, NEW i \in Request,
           req[i].pc \in {"sent", "poll", "write"},
           req'[i].pc \in {"poll", "write", "over"},
           SameTask(i), OnlyReq(i), OnlySlice(req[i].slice),
           nsi'[req[i].slice].life = nsi[req[i].slice].life,
           nsi'[req[i].slice].list \subseteq nsi[req[i].slice].list,
           \A r \in nsi[req[i].slice].list :
               r \notin nsi'[req[i].slice].list => req[i].ops[r] = NoRequest,
           UNCHANGED <<nsr, handler>>
    PROVE  Alone'
<1> DEFINE n == req[i].slice
<1>1. Active(i) /\ n \in Slice /\ There(n)
  BY ActiveSlice DEF Active, Sound, Alive
<1>2. /\ \A m \in Slice : /\ There(m)' <=> There(m)
                          /\ m # n => nsi'[m] = nsi[m]
      /\ \A j \in Request : /\ req'[j].slice = req[j].slice
                            /\ req'[j].ops = req[j].ops
                            /\ Active(j)' => Active(j)
      /\ \A r \in Nsr : Exist(r)' => Exist(r)
      /\ handler' = handler
  BY <1>1 DEF There, OnlySlice, OnlyReq, SameTask, Active, Exist
<1>3. \A j \in Request : Active(j) => req[j].slice = n
  BY <1>1 DEF Alone, OneAtATime
<1>4. \A m \in Slice : handler[m].pc \in {"idle", "new"}
  BY <1>1 DEF Alone, OneAtATime
<1>5. OneAtATime'
  BY <1>2 DEF Alone, OneAtATime
<1>6. RemovalsKnown'
  BY <1>2, <1>4 DEF RemovalsKnown
<1> HIDE DEF n
<1>7. ASSUME NEW s \in SharedNs, NEW m \in OthersListing(n, s)
      PROVE  m \in Slice /\ m # n /\ There(m)' /\ s \in nsi'[m].list
  BY <1>2 DEF OthersListing
<1>8. OthersRemain'
  <2> SUFFICES ASSUME NEW t \in Request, NEW s \in SharedNs, ActedOn(t, s)',
                      s \in nsi'[req'[t].slice].list, req'[t].ops[s] = NoRequest
               PROVE  OthersListing(req[t].slice, s)' # {}
    BY DEF OthersRemain
  <2>1. ActedOn(t, s)
    <3>1. CASE t = i
      BY <3>1 DEF ActedOn, Terminates, SameTask
    <3>2. CASE t # i
      BY <3>2 DEF ActedOn, Terminates, OnlyReq
    <3> QED  BY <3>1, <3>2
  <2>2. req[t].slice = n
    BY <1>3, <2>1, ActedActive
  <2>3. s \in nsi[n].list
    BY <1>2, <2>2 DEF n
  <2>4. OthersListing(n, s) # {}
    BY <1>2, <2>1, <2>2, <2>3 DEF Alone, OthersRemain
  <2>5. PICK m \in OthersListing(n, s) : TRUE
    BY <2>4
  <2>6. m \in Slice /\ m # n /\ There(m)' /\ s \in nsi'[m].list
    BY <1>7, <2>5
  <2>7. m # req'[t].slice
    BY <1>2, <2>2, <2>6
  <2> QED  BY <2>6, <2>7 DEF OthersListing
<1>9. ASSUME NobodyGaveUp'
      PROVE  AllBelong'
  <2>1. AllBelong
    BY <1>9 DEF OwnedStays, Alone
  <2>2. ASSUME NEW r \in Nsr, Exist(r)
        PROVE  Belongs(r)'
    <3>1. Belongs(r)
      BY <2>1, <2>2 DEF AllBelong
    <3>2. CASE r \in nsi[n].list /\ r \notin nsi'[n].list
      <4>1. req[i].ops[r] = NoRequest
        BY <3>2 DEF n
      <4>2. r \in SharedNs
        <5>1. nsi[n].list \subseteq SharedNs \cup {n}
          BY <1>1 DEF Sound, Lists, Listable
        <5>2. req[i].ops[n] = i
          BY DEF Owned, OwnAsked, n
        <5>3. i # NoRequest
          BY DEF Request, NoRequest
        <5> QED  BY <3>2, <4>1, <5>1, <5>2, <5>3
      <4>3. ShareKnown(i, r)
        BY <4>2 DEF Owned, SharesKnown
      <4>4. ~Instantiates(i)
        BY <3>2, <4>1, <4>3 DEF ShareKnown, n
      <4>5. Terminates(i)
        BY <4>4 DEF Typed, TypeOK, ReqRec, Instantiates, Terminates
      <4>6. ActedOn(i, r)
        BY <4>5 DEF ActedOn
      <4>7. OthersListing(n, r) # {}
        BY <3>2, <4>1, <4>2, <4>6 DEF Alone, OthersRemain, n
      <4>8. PICK m \in Slice : m # n /\ There(m) /\ r \in nsi[m].list
        BY <4>7 DEF OthersListing
      <4> QED  BY <1>2, <4>8 DEF Belongs
    <3>3. CASE ~(r \in nsi[n].list /\ r \notin nsi'[n].list)
      <4>1. \A m \in Slice : There(m) /\ r \in nsi[m].list
                                 => There(m)' /\ r \in nsi'[m].list
        BY <1>2, <3>3
      <4> QED  BY <1>2, <3>1, <4>1 DEF Belongs
    <3> QED  BY <3>2, <3>3
  <2> QED  BY <1>2, <2>2 DEF AllBelong
<1> QED  BY <1>5, <1>6, <1>8, <1>9 DEF Alone

LEMMA GiveUpAlone ==
    ASSUME Typed, Undisturbed', Sound, Owned, Alone, OwnedStays,
           NEW i \in Request, GiveUp(i)
    PROVE  Alone'
<1>1. /\ req[i].pc = "sent" /\ req'[i].pc = "over" /\ SameTask(i) /\ OnlyReq(i)
      /\ UNCHANGED <<nsi, nsr, handler>>
  BY GiveUpDoes
<1> QED  BY <1>1, TaskAlone DEF OnlySlice

LEMMA StartAlone ==
    ASSUME Typed, Undisturbed', Sound, Owned, Alone, OwnedStays,
           NEW i \in Request, Start(i)
    PROVE  Alone'
<1> DEFINE n == req[i].slice
<1>1. /\ req[i].pc = "sent" /\ UNCHANGED <<nsr, handler>>
      /\ \/ Failed(i)
         \/ /\ req'[i].pc = "over" /\ SameTask(i) /\ OnlyReq(i)
            /\ UNCHANGED nsi
         \/ Writes(i) /\ SameSlice(n) /\ OnlySlice(n)
  BY StartDoes DEF Sound
<1>2. CASE Failed(i)
  BY <1>1, <1>2, TaskAlone DEF Failed, SameSlice
<1>3. CASE req'[i].pc = "over" /\ SameTask(i) /\ OnlyReq(i) /\ UNCHANGED nsi
  BY <1>1, <1>3, TaskAlone DEF OnlySlice
<1>4. CASE Writes(i) /\ SameSlice(n) /\ OnlySlice(n)
  BY <1>1, <1>4, TaskAlone DEF Writes, SameSlice
<1> QED  BY <1>1, <1>2, <1>3, <1>4

LEMMA PollAlone ==
    ASSUME Typed, Undisturbed', Sound, Owned, Alone, OwnedStays,
           NEW i \in Request, Poll(i) \/ Late(i)
    PROVE  Alone'
<1>1. /\ req[i].pc = "poll" /\ UNCHANGED <<nsr, handler>>
      /\ Failed(i) \/ (Writes(i) /\ UNCHANGED nsi)
  BY PollDoes DEF Sound
<1>2. CASE Failed(i)
  BY <1>1, <1>2, TaskAlone DEF Failed, SameSlice
<1>3. CASE Writes(i) /\ UNCHANGED nsi
  BY <1>1, <1>3, TaskAlone DEF Writes, OnlySlice
<1> QED  BY <1>1, <1>2, <1>3

LEMMA WriteAlone ==
    ASSUME Typed, Undisturbed', Sound, Owned, Alone, OwnedStays,
           NEW i \in Request, Write(i)
    PROVE  Alone'
<1> DEFINE n == req[i].slice
<1>1. /\ req[i].pc = "write" /\ req'[i].pc \in {"poll", "over"}
      /\ SameTask(i) /\ OnlyReq(i) /\ OnlySlice(n)
      /\ nsi'[n].life = nsi[n].life /\ nsi'[n].list = req[i].read.list
      /\ UNCHANGED <<nsr, handler>>
  BY WriteDoes DEF Sound
<1>2. req[i].read.list \subseteq nsi[n].list
  BY <1>1 DEF Sound, Lists
<1>3. \A r \in nsi[n].list :
          r \notin nsi'[n].list => req[i].ops[r] = NoRequest
  BY <1>1 DEF Owned, RoundsKnown
<1> QED  BY <1>1, <1>2, <1>3, TaskAlone

\* A handler that changes neither requests nor who is active.
LEMMA SameActs ==
    ASSUME SameRequests, NEW i \in Request
    PROVE  /\ Active(i)' <=> Active(i)
           /\ req'[i].slice = req[i].slice /\ req'[i].ops = req[i].ops
           /\ \A r : ActedOn(i, r)' <=> ActedOn(i, r)
BY DEF SameRequests, Active, ActedOn, Terminates

\* A handler that begins or ends while nobody is active.
LEMMA NobodyActive ==
    ASSUME SameRequests, \A i \in Request : ~Active(i)
    PROVE  OneAtATime' /\ OthersRemain'
<1>1. \A i \in Request : ~Active(i)' /\ \A r : ~ActedOn(i, r)'
  BY SameActs, ActedActive
<1> QED  BY <1>1 DEF OneAtATime, OthersRemain

LEMMA FindSharedAlone ==
    ASSUME Typed, Undisturbed', Sound, Owned, Alone, OwnedStays,
           NEW n \in Slice, FindShared(n)
    PROVE  Alone'
<1>1. /\ NbiFree /\ OnlyHandler(n) /\ UNCHANGED <<nsi, req>>
  BY FindSharedDoes
<1>2. PICK s \in SharedNs :
          /\ handler'[n] = [pc |-> "new", list |-> {s, n}]
          /\ \A r \in Nsr : nsr'[r] = IF r = n \/ (r = s /\ Listed = {})
                                        THEN "idle" ELSE nsr[r]
  BY FindSharedDoes
<1>3. OneAtATime'
  BY <1>1, <1>2 DEF Alone, OneAtATime, OnlyHandler, Active
<1>4. RemovalsKnown'
  BY <1>1, <1>2 DEF Alone, RemovalsKnown, OnlyHandler, There
<1>5. OthersRemain'
  BY <1>1 DEF Alone, OthersRemain, ActedOn, Terminates, OthersListing, There
<1>6. ASSUME NobodyGaveUp'
      PROVE  AllBelong'
  <2>1. AllBelong
    BY <1>6 DEF OwnedStays, Alone
  <2>2. ASSUME NEW r \in Nsr, Exist(r)'
        PROVE  Belongs(r)'
    <3>1. CASE r \in {s, n}
      BY <1>2, <3>1 DEF Belongs
    <3>2. CASE r \notin {s, n}
      <4>1. Exist(r)
        BY <1>2, <2>2, <3>2 DEF Exist
      <4>2. Belongs(r)
        BY <2>1, <4>1 DEF AllBelong
      <4>3. PICK m \in Slice : There(m) /\ r \in nsi[m].list
        BY <1>1, <4>2 DEF Belongs, NbiFree
      <4> QED  BY <1>1, <4>3 DEF Belongs, There
    <3> QED  BY <3>1, <3>2
  <2> QED  BY <2>2 DEF AllBelong
<1> QED  BY <1>3, <1>4, <1>5, <1>6 DEF Alone

LEMMA CreateSliceAlone ==
    ASSUME Typed, Undisturbed', Sound, Owned, Alone, OwnedStays,
           NEW n \in Slice, CreateSlice(n)
    PROVE  Alone'
<1>1. /\ handler[n].pc = "new" /\ handler'[n].pc = "idle"
      /\ nsi'[n].life = "there" /\ nsi'[n].list = handler[n].list
      /\ OnlyHandler(n) /\ OnlySlice(n) /\ UNCHANGED <<nsr, req>>
  BY CreateSliceDoes DEF Idle
<1>2. ~There(n) /\ There(n)'
  BY <1>1 DEF Sound, Alive, There
<1>3. \A i \in Request : Active(i) => req[i].slice # n
  BY <1>2 DEF Sound, Alive
<1>4. OneAtATime'
  BY <1>1 DEF Alone, OneAtATime, OnlyHandler, Active
<1>5. RemovalsKnown'
  BY <1>1 DEF Alone, RemovalsKnown, OnlyHandler, OnlySlice, There
<1>6. \A m \in Slice : m # n => nsi'[m] = nsi[m] /\ handler'[m] = handler[m]
  BY <1>1 DEF OnlySlice, OnlyHandler
<1>7. OthersRemain'
  <2> SUFFICES ASSUME NEW t \in Request, NEW s \in SharedNs, ActedOn(t, s)',
                      s \in nsi'[req'[t].slice].list, req'[t].ops[s] = NoRequest
               PROVE  OthersListing(req[t].slice, s)' # {}
    BY DEF OthersRemain
  <2>1. ActedOn(t, s) /\ req' = req
    BY <1>1 DEF ActedOn, Terminates
  <2>2. req[t].slice # n /\ req[t].slice \in Slice
    BY <1>3, <2>1, ActedActive, ActiveSlice
  <2>3. OthersListing(req[t].slice, s) # {}
    BY <1>6, <2>1, <2>2 DEF Alone, OthersRemain
  <2>4. PICK m \in Slice : /\ m # req[t].slice /\ There(m)
                           /\ s \in nsi[m].list
    BY <2>3 DEF OthersListing
  <2>5. There(m)' /\ s \in nsi'[m].list
    BY <1>2, <1>6, <2>4 DEF There
  <2> QED  BY <2>1, <2>4, <2>5 DEF OthersListing
<1>8. ASSUME NobodyGaveUp'
      PROVE  AllBelong'
  <2>1. AllBelong
    BY <1>8 DEF OwnedStays, Alone
  <2>2. ASSUME NEW r \in Nsr, Exist(r)
        PROVE  Belongs(r)'
    <3>1. Belongs(r)
      BY <2>1, <2>2 DEF AllBelong
    <3>2. CASE r \in handler[n].list
      BY <1>1, <1>2, <3>2 DEF Belongs
    <3>3. CASE r \notin handler[n].list
      <4>1. CASE \E m \in Slice : There(m) /\ r \in nsi[m].list
        <5>1. PICK m \in Slice : There(m) /\ r \in nsi[m].list
          BY <4>1
        <5> QED  BY <1>2, <1>6, <5>1 DEF Belongs, There
      <4>2. CASE \E m \in Slice : /\ r \in handler[m].list
                                  /\ \/ handler[m].pc \in {"new", "shared"}
                                     \/ handler[m].pc = "own" /\ r = m
        <5>1. PICK m \in Slice : /\ r \in handler[m].list
                                 /\ \/ handler[m].pc \in {"new", "shared"}
                                    \/ handler[m].pc = "own" /\ r = m
          BY <4>2
        <5>2. handler'[m] = handler[m]
          BY <1>6, <3>3, <5>1
        <5> QED  BY <5>1, <5>2 DEF Belongs
      <4> QED  BY <3>1, <4>1, <4>2 DEF Belongs
    <3> QED  BY <3>2, <3>3
  <2>3. \A r \in Nsr : Exist(r)' => Exist(r)
    BY <1>1 DEF Exist
  <2> QED  BY <2>2, <2>3 DEF AllBelong
<1> QED  BY <1>4, <1>5, <1>7, <1>8 DEF Alone

LEMMA CheckRemoveAlone ==
    ASSUME Typed, Undisturbed', "together" \notin marks', Sound, Owned, Alone,
           OwnedStays, NEW n \in Slice, CheckRemove(n),
           UNCHANGED <<nsi, nsr, nslcmop, req>>
    PROVE  Alone'
<1>1. /\ NbiFree /\ There(n) /\ OnlyHandler(n)
      /\ handler'[n] = [pc |-> "remove", list |-> nsi[n].list]
      /\ \A i \in Request :
             req[i].slice = n => req[i].pc \notin {"sent", "poll", "write"}
  BY CheckRemoveDoes
<1>2. \A i \in Request : ~Active(i)
  <2> SUFFICES ASSUME NEW i \in Request, Active(i) PROVE FALSE
    OBVIOUS
  <2>1. /\ req[i].pc \in {"sent", "poll", "write"}
        /\ req[i].slice \in Slice \ {n}
    BY <1>1, ActiveSlice DEF Active, NbiFree, Open
  <2>2. req[i].kind \in {"instantiate", "terminate"}
    BY DEF Typed, TypeOK, ReqRec
  <2>3. Live(req[i].slice, {"instantiate", "terminate"})
    BY <2>1, <2>2 DEF Live
  <2>4. Together(n) = {"together"}
    BY <2>1, <2>3 DEF Together
  <2> QED  BY <2>4 DEF CheckRemove
<1>3. SameRequests
  BY DEF SameRequests
<1>4. OneAtATime' /\ OthersRemain'
  BY <1>2, <1>3, NobodyActive
<1>5. RemovalsKnown'
  BY <1>1 DEF Alone, RemovalsKnown, OnlyHandler, There
<1>6. ASSUME NobodyGaveUp'
      PROVE  AllBelong'
  <2>1. AllBelong
    BY <1>6 DEF OwnedStays, Alone
  <2>2. \A r \in Nsr : Belongs(r) => Belongs(r)'
    BY <1>1 DEF Belongs, There, NbiFree
  <2> QED  BY <2>1, <2>2 DEF AllBelong, Exist
<1> QED  BY <1>4, <1>5, <1>6 DEF Alone

\* While a slice is being removed nobody is active.
LEMMA RemovingAlone ==
    ASSUME Alone, NEW n \in Slice, handler[n].pc \notin {"idle", "new"}
    PROVE  \A i \in Request : ~Active(i)
BY DEF Alone, OneAtATime

LEMMA RemoveRecordAlone ==
    ASSUME Typed, Undisturbed', Sound, Owned, Alone, OwnedStays,
           NEW n \in Slice, RemoveRecord(n)
    PROVE  Alone'
<1>1. /\ handler[n].pc = "remove" /\ handler'[n].list = handler[n].list
      /\ OnlyHandler(n) /\ OnlySlice(n) /\ UNCHANGED <<nsr, req>>
  BY RemoveRecordDoes
<1>2. handler'[n].pc = IF Shared(handler[n].list) # {} THEN "shared" ELSE "own"
  <2>1. handler \in [Slice -> HandlerRec] /\ handler[n] \in HandlerRec
    BY DEF Typed, TypeOK
  <2> QED  BY <2>1 DEF RemoveRecord, HandlerRec
<1>3. OneAtATime' /\ OthersRemain'
  <2>1. \A i \in Request : ~Active(i)
    BY <1>1, RemovingAlone
  <2>2. SameRequests
    BY <1>1 DEF SameRequests
  <2> QED  BY <2>1, <2>2, NobodyActive
<1>4. \A m \in Slice : m # n => /\ nsi'[m] = nsi[m] /\ handler'[m] = handler[m]
                                /\ handler[m].pc = "idle"
  BY <1>1 DEF OnlySlice, OnlyHandler, Sound, InTurn
<1>5. RemovalsKnown'
  BY <1>2, <1>4 DEF RemovalsKnown
<1>6. ASSUME NobodyGaveUp'
      PROVE  AllBelong'
  <2>1. AllBelong
    BY <1>6 DEF OwnedStays, Alone
  <2>2. ASSUME NEW r \in Nsr, Exist(r)
        PROVE  Belongs(r)'
    <3>1. Belongs(r)
      BY <2>1, <2>2 DEF AllBelong
    <3>2. PICK m \in Slice : There(m) /\ r \in nsi[m].list
      BY <1>1, <1>4, <3>1 DEF Belongs
    <3>3. CASE m # n
      BY <1>4, <3>2, <3>3 DEF Belongs, There
    <3>4. CASE m = n
      <4>1. r \in handler'[n].list
        BY <1>1, <3>2, <3>4 DEF Alone, RemovalsKnown
      <4>2. CASE Shared(handler[n].list) # {}
        BY <1>2, <4>1, <4>2 DEF Belongs
      <4>3. CASE Shared(handler[n].list) = {}
        <5>1. r = n
          BY <1>1, <4>1, <4>3 DEF Sound, Lists, Listable, Shared
        <5> QED  BY <1>2, <4>1, <4>3, <5>1 DEF Belongs
      <4> QED  BY <4>2, <4>3
    <3> QED  BY <3>3, <3>4
  <2>3. \A r \in Nsr : Exist(r)' => Exist(r)
    BY <1>1 DEF Exist
  <2> QED  BY <2>2, <2>3 DEF AllBelong
<1> QED  BY <1>3, <1>5, <1>6 DEF Alone

\* An NS that runs is listed by a slice, when no instantiation has given up.
LEMMA RunningListed ==
    ASSUME Owned, NobodyGaveUp, NEW r \in Nsr, nsr[r] = "instantiated"
    PROVE  \E m \in Slice : There(m) /\ r \in nsi[m].list
BY DEF Owned, Held, Needed, Holder

LEMMA RemoveSharedAlone ==
    ASSUME Typed, Undisturbed', Sound, Owned, Alone, OwnedStays,
           NEW n \in Slice, RemoveShared(n)
    PROVE  Alone'
<1>1. /\ handler[n].pc = "shared" /\ OnlyHandler(n) /\ UNCHANGED <<nsi, req>>
  BY RemoveSharedDoes
<1>2. PICK s \in SharedNs :
          /\ s \in handler[n].list
          /\ \/ /\ ~KeepShared(n, s) /\ nsr[s] = "instantiated"
                /\ handler' = [handler EXCEPT ![n] = Idle]
             \/ /\ handler' = [handler EXCEPT ![n].pc = "own"]
                /\ Deletes(IF KeepShared(n, s) THEN {} ELSE {s})
  BY DEF RemoveShared, Shared
<1>3. handler \in [Slice -> HandlerRec] /\ handler[n] \in HandlerRec
  BY DEF Typed, TypeOK
<1>4. handler'[n].pc \in {"idle", "own"}
  BY <1>2, <1>3 DEF Idle, HandlerRec
<1>5. OneAtATime' /\ OthersRemain'
  <2>1. \A i \in Request : ~Active(i)
    BY <1>1, RemovingAlone
  <2>2. SameRequests
    BY <1>1 DEF SameRequests
  <2> QED  BY <2>1, <2>2, NobodyActive
<1>6. RemovalsKnown'
  BY <1>1, <1>4 DEF Alone, RemovalsKnown, OnlyHandler, There
<1>7. ASSUME NobodyGaveUp'
      PROVE  AllBelong'
  <2>1. AllBelong /\ NobodyGaveUp
    BY <1>7 DEF OwnedStays, Alone
  <2>2. s \in Nsr /\ ~There(n)
    BY <1>1 DEF Nsr, Sound, Alive
  <2>3. /\ handler' = [handler EXCEPT ![n].pc = "own"]
        /\ Deletes(IF KeepShared(n, s) THEN {} ELSE {s})
    <3>1. nsr[s] = "instantiated" => KeepShared(n, s)
      BY <2>1, <2>2, RunningListed DEF KeepShared, OthersListing
    <3> QED  BY <1>2, <3>1
  <2>4. handler'[n].pc = "own" /\ handler'[n].list = handler[n].list
    BY <1>3, <2>3 DEF HandlerRec
  <2>5. Deleted(IF KeepShared(n, s) THEN {} ELSE {s})
    BY <2>3, DeletesDoes
  <2>6. \A r \in Nsr : /\ Exist(r)' => Exist(r)
                       /\ Exist(r)' /\ r = s => KeepShared(n, s)
    BY <2>5 DEF Deleted, Exist
  <2>7. ASSUME NEW r \in Nsr, Exist(r)'
        PROVE  Belongs(r)'
    <3>1. Belongs(r)
      BY <2>1, <2>6, <2>7 DEF AllBelong
    <3>2. CASE \E m \in Slice : There(m) /\ r \in nsi[m].list
      BY <1>1, <3>2 DEF Belongs, There
    <3>3. CASE r \in handler[n].list
      <4>1. CASE r = s
        BY <2>6, <2>7, <3>2, <4>1 DEF KeepShared, OthersListing
      <4>2. CASE r # s
        <5>1. r = n
          BY <1>2, <3>3, <4>2 DEF Sound, Lists, Listable, Shared
        <5> QED  BY <2>4, <3>3, <5>1 DEF Belongs
      <4> QED  BY <4>1, <4>2
    <3>4. \A m \in Slice : m # n => handler[m].pc = "idle"
      BY <1>1 DEF Sound, InTurn
    <3> QED  BY <3>1, <3>2, <3>3, <3>4 DEF Belongs
  <2> QED  BY <2>7 DEF AllBelong
<1> QED  BY <1>5, <1>6, <1>7 DEF Alone

LEMMA RemoveOwnAlone ==
    ASSUME Typed, Undisturbed', Sound, Owned, Alone, OwnedStays,
           NEW n \in Slice, RemoveOwn(n)
    PROVE  Alone'
<1>1. /\ handler[n].pc = "own" /\ handler'[n].pc = "idle"
      /\ OnlyHandler(n) /\ UNCHANGED nsi
      /\ \A i \in Request :
             \/ req'[i] = req[i]
             \/ req[i].slice = n /\ req'[i] = [req[i] EXCEPT !.state = "none"]
  BY RemoveOwnDoes DEF Idle
<1>2. SameRequests
  <2> SUFFICES ASSUME NEW i \in Request
               PROVE  /\ req'[i].pc = req[i].pc /\ req'[i].slice = req[i].slice
                      /\ req'[i].kind = req[i].kind /\ req'[i].ops = req[i].ops
                      /\ req'[i].read = req[i].read
                      /\ req'[i].found = req[i].found
    BY DEF SameRequests
  <2>1. req[i] \in ReqRec
    BY DEF Typed, TypeOK
  <2> QED  BY <1>1, <2>1 DEF ReqRec
<1>3. OneAtATime' /\ OthersRemain'
  <2>1. \A i \in Request : ~Active(i)
    BY <1>1, RemovingAlone
  <2> QED  BY <1>2, <2>1, NobodyActive
<1>4. RemovalsKnown'
  BY <1>1 DEF Alone, RemovalsKnown, OnlyHandler, There
<1>5. ASSUME NobodyGaveUp'
      PROVE  AllBelong'
  <2>1. AllBelong /\ NobodyGaveUp
    BY <1>5 DEF OwnedStays, Alone
  <2>2. n \in Nsr /\ ~There(n) /\ n \in handler[n].list
    BY <1>1 DEF Nsr, Sound, Alive, Owned, OwnListed
  <2>3. \A m \in Slice : There(m) => n \notin nsi[m].list
    <3> SUFFICES ASSUME NEW m \in Slice, There(m), n \in nsi[m].list PROVE FALSE
      OBVIOUS
    <3>1. nsi[m].list \subseteq SharedNs \cup {m}
      BY DEF Sound, Lists, Listable
    <3> QED  BY <2>2, <3>1, SliceAssumption
  <2>4. nsr[n] # "instantiated"
    BY <2>1, <2>2, <2>3, RunningListed
  <2>5. Deletes({n} \cap handler[n].list)
    BY <2>2, <2>4 DEF RemoveOwn
  <2>6. Deleted({n} \cap handler[n].list)
    BY <2>5, DeletesDoes
  <2>7. \A r \in Nsr : Exist(r)' => Exist(r) /\ r # n
    BY <2>2, <2>6 DEF Deleted, Exist
  <2>8. ASSUME NEW r \in Nsr, Exist(r)'
        PROVE  Belongs(r)'
    <3>1. Belongs(r) /\ r # n
      BY <2>1, <2>7, <2>8 DEF AllBelong
    <3>2. \A m \in Slice : m # n => handler[m].pc = "idle"
      BY <1>1 DEF Sound, InTurn
    <3>3. PICK m \in Slice : There(m) /\ r \in nsi[m].list
      BY <1>1, <3>1, <3>2 DEF Belongs
    <3> QED  BY <1>1, <3>3 DEF Belongs, There
  <2> QED  BY <2>8 DEF AllBelong
<1> QED  BY <1>3, <1>4, <1>5 DEF Alone

LEMMA AskAlone ==
    ASSUME Typed, Undisturbed', "together" \notin marks', Sound, Owned, Alone,
           OwnedStays, NEW i \in Request, NEW n \in Slice, NEW kind \in Kinds,
           NEW auto \in BOOLEAN, Ask(i, n, kind, auto), marks \subseteq {"together"}
    PROVE  Alone'
<1>1. /\ NbiFree /\ There(n) /\ req[i].pc = "free"
      /\ req'[i].pc \in {"look", "own"} /\ req'[i].slice = n
      /\ req'[i].pc = "own" => Shared(nsi[n].list) = {}
      /\ OnlyReq(i) /\ UNCHANGED <<nsi, nsr, handler>>
  BY AskDoes
<1>2. \A j \in Request : j # i => req'[j] = req[j]
  BY <1>1 DEF OnlyReq
<1>3. \A j \in Request : Active(j) => req[j].slice = n
  <2> SUFFICES ASSUME NEW j \in Request, Active(j), req[j].slice # n PROVE FALSE
    OBVIOUS
  <2>1. /\ req[j].pc \in {"sent", "poll", "write"}
        /\ req[j].slice \in Slice \ {n}
    BY <1>1, ActiveSlice DEF Active, NbiFree, Open
  <2>2. req[j].kind \in {"instantiate", "terminate"}
    BY DEF Typed, TypeOK, ReqRec
  <2>3. Live(req[j].slice, {"instantiate", "terminate"})
    BY <2>1, <2>2 DEF Live
  <2>4. Together(n) = {"together"}
    BY <2>1, <2>3 DEF Together
  <2> QED  BY <2>4 DEF Ask
<1>4. OneAtATime'
  <2>1. \A j \in Request : Active(j)' => req'[j].slice = n
    BY <1>1, <1>2, <1>3 DEF Active
  <2>2. \A m \in Slice : handler'[m].pc = "idle"
    BY <1>1 DEF NbiFree
  <2> QED  BY <2>1, <2>2 DEF OneAtATime
<1>5. RemovalsKnown'
  BY <1>1 DEF RemovalsKnown, NbiFree
<1>6. OthersRemain'
  <2> SUFFICES ASSUME NEW t \in Request, NEW s \in SharedNs, ActedOn(t, s)',
                      s \in nsi'[req'[t].slice].list, req'[t].ops[s] = NoRequest
               PROVE  OthersListing(req[t].slice, s)' # {}
    BY DEF OthersRemain
  <2>1. t # i
    BY <1>1 DEF ActedOn, Shared
  <2>2. ActedOn(t, s) /\ req'[t] = req[t]
    BY <1>2, <2>1 DEF ActedOn, Terminates
  <2>3. OthersListing(req[t].slice, s) # {}
    BY <1>1, <2>2 DEF Alone, OthersRemain
  <2>4. PICK m \in Slice : /\ m # req[t].slice /\ There(m) /\ s \in nsi[m].list
    BY <2>3 DEF OthersListing
  <2> QED  BY <1>1, <2>2, <2>4 DEF OthersListing, There
<1>7. ASSUME NobodyGaveUp'
      PROVE  AllBelong'
  <2>1. AllBelong
    BY <1>7 DEF OwnedStays, Alone
  <2> QED  BY <1>1, <2>1 DEF AllBelong, Belongs, Exist, There
<1> QED  BY <1>4, <1>5, <1>6, <1>7 DEF Alone

\* A task of an NS: its record stays.
LEMMA NsAlone ==
    ASSUME Typed, Undisturbed', Sound, Owned, Alone, OwnedStays,
           NEW o \in Request \X Nsr, NsStep(o) \/ NsFails(o) \/ NsGivesUp(o)
    PROVE  Alone'
<1>1. /\ UNCHANGED <<nsi, req, handler>>
      /\ \A r \in Nsr : Exist(r)' => Exist(r)
  <2>1. CASE NsStart(o)
    <3>1. Processing(o) => Exist(o[2])
      <4>1. o = <<o[1], o[2]>> /\ o[1] \in Request /\ o[2] \in Nsr
        OBVIOUS
      <4> QED  BY <4>1 DEF Sound, OpsKnown
    <3> QED  BY <2>1, <3>1, NsStartDoes DEF Exist
  <2>2. CASE NsDone(o)
    BY <2>2, NsDoneDoes DEF Exist
  <2>3. CASE NsFails(o) \/ NsGivesUp(o)
    BY <2>3, NsFailsDoes DEF Exist
  <2> QED  BY <2>1, <2>2, <2>3 DEF NsStep
<1>2. Beside
  BY <1>1 DEF Beside, Active, ActedOn, Terminates, Alone, OthersRemain
<1> QED  BY <1>2, BesideKeeps

LEMMA NothingAlone ==
    ASSUME Typed, Alone, OwnedStays, UNCHANGED <<nsi, nsr, nslcmop, req, handler>>
    PROVE  Alone'
<1>1. Beside
  BY DEF Beside, Active, ActedOn, Terminates, Exist, Alone, OthersRemain
<1> QED  BY <1>1, BesideKeeps

-----------------------------------------------------------------------------
(* The invariant, and what follows from it                                  *)

LEMMA InitOwned == Init => Owned
<1> SUFFICES ASSUME Init PROVE Owned
  OBVIOUS
<1>1. /\ \A i \in Request : /\ req[i].pc = "free"
                            /\ ~Active(i) /\ ~Working(i) /\ ~Open(i)
      /\ \A n \in Slice : ~There(n) /\ handler[n].pc = "idle"
      /\ \A r \in Nsr : nsr[r] = "new"
      /\ \A i \in Request, r \in Nsr : /\ ~ToCome(i, r)
                                       /\ ~ActedOn(i, r)
                                       /\ req[i].ops[r] = NoRequest
                                       /\ nslcmop[<<i, r>>].run = "no"
  BY DEF Init, NoReq, NewSlice, Idle, NoUse, Active, Working, Open, There,
     ToCome, Processing, ActedOn
<1>2. OwnListed /\ OwnAsked /\ RoundsKnown /\ WorkKnown /\ EndsInTurn
  BY <1>1 DEF OwnListed, OwnAsked, RoundsKnown, WorkKnown, EndsInTurn
<1>3. SharesKnown
  BY <1>1 DEF SharesKnown, ShareKnown, Nsr
<1>4. UserFound /\ EndsFirst
  BY <1>1 DEF UserFound, EndsFirst
<1>5. Claimed /\ Held
  BY <1>1 DEF Claimed, Held, Needed
<1> QED  BY <1>2, <1>3, <1>4, <1>5 DEF Owned

LEMMA NextOwned ==
    ASSUME Typed, Undisturbed => Sound /\ Owned, [Next]_vars, Undisturbed'
    PROVE  OwnedStays
<1>1. Sound /\ Owned
  BY MarksGrow DEF Undisturbed
<1>2. ASSUME NEW n \in Slice, FindShared(n)
      PROVE  OwnedStays
  BY <1>1, <1>2, FindSharedOwns
<1>3. ASSUME NEW n \in Slice, RequestRemove(n)
      PROVE  OwnedStays
  BY <1>1, <1>3, CheckRemoveOwns DEF RequestRemove
<1>4. ASSUME marks \subseteq {"together"}, NEW i \in Request, NEW n \in Slice,
             NEW kind \in Kinds, NEW auto \in BOOLEAN, Ask(i, n, kind, auto)
      PROVE  OwnedStays
  BY <1>1, <1>4, AskOwns
<1>5. ASSUME NEW n \in Slice, HandlerStep(n)
      PROVE  OwnedStays
  BY <1>1, <1>5, CreateSliceOwns, RemoveRecordOwns, RemoveSharedOwns,
     RemoveOwnOwns DEF HandlerStep
<1>6. ASSUME NEW n \in Slice, AutoRemove(n)
      PROVE  OwnedStays
  <2>1. CASE CheckRemove(n)
    BY <1>1, <1>6, <2>1, CheckRemoveOwns DEF AutoRemove
  <2>2. CASE UNCHANGED <<handler, marks>>
    BY <1>1, <1>6, <2>2, NothingOwns DEF AutoRemove
  <2> QED  BY <1>6, <2>1, <2>2 DEF AutoRemove
<1>7. ASSUME NEW i \in Request, NbiStep(i)
      PROVE  OwnedStays
  BY <1>1, <1>7, LookSharedOwns, ActSharedOwns, ActOwnOwns DEF NbiStep
<1>8. ASSUME NEW i \in Request, LcmStep(i) \/ GiveUp(i) \/ Late(i)
      PROVE  OwnedStays
  BY <1>1, <1>8, StartOwns, PollOwns, WriteOwns, GiveUpOwns DEF LcmStep
<1>9. ASSUME NEW o \in Request \X Nsr, NsStep(o) \/ NsFails(o) \/ NsGivesUp(o)
      PROVE  OwnedStays
  <2>1. PICK k \in Request, x \in Nsr : o = <<k, x>>
    OBVIOUS
  <2> QED
    BY <1>1, <1>9, <2>1, NsStartOwns, NsDoneOwns, NsFailsOwns DEF NsStep
<1>10. CASE UNCHANGED vars
  BY <1>1, <1>10, NothingOwns DEF vars
<1>11. /\ \A i \in Request : ~StartBeside(i)
       /\ \A o \in Request \X Nsr : ~NsStartBeside(o)
  BY BesideDisturbs
<1> QED
  BY <1>2, <1>3, <1>4, <1>5, <1>6, <1>7, <1>8, <1>9, <1>10, <1>11
  DEF Next, NbiRequest

LEMMA NextOwns ==
    Typed /\ (Undisturbed => Sound /\ Owned) /\ [Next]_vars
        => (Undisturbed => Owned)'
BY NextOwned DEF OwnedStays

\* The inductive invariant of who an NS belongs to, while nothing is disturbed:
\* what a slice does not list any more, or does not use any more, it has seen
\* terminated, or another slice uses.
THEOREM OwnedAlways ==
    Spec => [](Typed /\ GoneIsBare /\ (Undisturbed => Sound /\ Owned))
<1> DEFINE I == Typed /\ GoneIsBare /\ (Undisturbed => Sound /\ Owned)
<1>1. Init => I
  BY InitTyped, InitSound, InitOwned
  DEF Init, Typed, SliceKnown, NoReq, GoneIsBare, NewSlice
<1>2. I /\ [Next]_vars => I'
  BY NextTyped, GoneStaysBare, NextKeeps, NextOwns
<1> QED  BY <1>1, <1>2, PTL DEF Spec

\* What the properties ask for, seen from the operation on a slice's own NS.
LEMMA NobodyGivesUp ==
    ASSUME Typed, Sound, NoneGivenUp
    PROVE  NobodyGaveUp
<1> SUFFICES ASSUME NEW i \in Request, Instantiates(i), req[i].pc = "over",
                    req[i].ops[req[i].slice] # NoRequest
             PROVE  nslcmop[<<i, req[i].slice>>].run # "no"
  BY DEF NobodyGaveUp
<1> DEFINE n == req[i].slice
<1>1. n \in Slice /\ n \in Nsr
  BY DEF Typed, SliceKnown, Nsr
<1>2. req[i].ops[n] = i
  BY <1>1 DEF Sound, OpsKnown
<1>3. <<i, n>> \in OpsOf(i)
  BY <1>1, <1>2 DEF OpsOf
<1> QED  BY <1>3 DEF NoneGivenUp, Instantiates

\* Where all is quiet, an NS that is instantiated is listed by an instantiated slice.
LEMMA QuietHeld ==
    ASSUME Typed, Sound, Owned, Quiet, NoneGivenUp, NEW r \in Nsr,
           nsr[r] = "instantiated"
    PROVE  \E n \in Slice : There(n) /\ nsi[n].instantiated /\ r \in nsi[n].list
<1>1. NobodyGaveUp
  BY NobodyGivesUp
<1>2. Claimed /\ Held
  BY <1>1 DEF Owned
<1>3. PICK n \in Slice : Holder(n, r, NoRequest)
  BY <1>2 DEF Held, Needed
<1>4. There(n) /\ r \in nsi[n].list
  BY <1>3 DEF Holder
<1>5. ~Comes(n)
  BY DEF Comes, Quiet
<1>6. CASE Uses(n, r)
  BY <1>2, <1>4, <1>5, <1>6 DEF Claimed, Uses, Shared
<1>7. CASE ~Uses(n, r)
  BY <1>3, <1>4, <1>7 DEF Holder
<1> QED  BY <1>4, <1>6, <1>7

\* When nothing is disturbed or under way, and no instantiation gave up, no NS runs
\* for nobody: a slice that is instantiated lists it (NsiLcmOpTopic.new,
\* NetsliceLcm.terminate).  Whether that slice can still be terminated is not said.
THEOREM NothingRunsForNobodyAlways == Spec => []NothingRunsForNobody
<1>1. Typed /\ (Undisturbed => Sound /\ Owned) => NothingRunsForNobody
  BY QuietHeld DEF NothingRunsForNobody
<1> QED  BY <1>1, OwnedAlways, PTL

\* For a client that has one slice operation at a time under way, nobody else is
\* active when it asks, and what it leaves out or removes another slice lists.
Single == marks \subseteq {"repeated"}

LEMMA NextAlone ==
    Typed /\ (Undisturbed => Sound /\ Owned) /\ (Single => Alone) /\ [Next]_vars
        => (Single => Alone)'
<1> SUFFICES ASSUME Typed, Undisturbed => Sound /\ Owned, Single => Alone,
                    [Next]_vars, Single'
             PROVE  Alone'
  OBVIOUS
<1>1. Undisturbed' /\ Undisturbed /\ Single /\ "together" \notin marks'
  BY MarksGrow DEF Undisturbed, Single
<1>2. Sound /\ Owned /\ Alone
  BY <1>1
<1>3. OwnedStays
  BY <1>1, NextOwned
<1>4. ASSUME NEW n \in Slice, FindShared(n)
      PROVE  Alone'
  BY <1>1, <1>2, <1>3, <1>4, FindSharedAlone
<1>5. ASSUME NEW n \in Slice, RequestRemove(n)
      PROVE  Alone'
  BY <1>1, <1>2, <1>3, <1>5, CheckRemoveAlone DEF RequestRemove
<1>6. ASSUME marks \subseteq {"together"}, NEW i \in Request, NEW n \in Slice,
             NEW kind \in Kinds, NEW auto \in BOOLEAN, Ask(i, n, kind, auto)
      PROVE  Alone'
  BY <1>1, <1>2, <1>3, <1>6, AskAlone
<1>7. ASSUME NEW n \in Slice, HandlerStep(n)
      PROVE  Alone'
  BY <1>1, <1>2, <1>3, <1>7, CreateSliceAlone, RemoveRecordAlone,
     RemoveSharedAlone, RemoveOwnAlone DEF HandlerStep
<1>8. ASSUME NEW n \in Slice, AutoRemove(n)
      PROVE  Alone'
  <2>1. CASE CheckRemove(n)
    BY <1>1, <1>2, <1>3, <1>8, <2>1, CheckRemoveAlone DEF AutoRemove
  <2>2. CASE UNCHANGED <<handler, marks>>
    BY <1>2, <1>3, <1>8, <2>2, NothingAlone DEF AutoRemove
  <2> QED  BY <1>8, <2>1, <2>2 DEF AutoRemove
<1>9. ASSUME NEW i \in Request, NbiStep(i)
      PROVE  Alone'
  BY <1>1, <1>2, <1>3, <1>9, LookSharedAlone, ActSharedAlone, ActOwnAlone
  DEF NbiStep
<1>10. ASSUME NEW i \in Request, LcmStep(i) \/ GiveUp(i) \/ Late(i)
       PROVE  Alone'
  BY <1>1, <1>2, <1>3, <1>10, StartAlone, PollAlone, WriteAlone, GiveUpAlone
  DEF LcmStep
<1>11. ASSUME NEW o \in Request \X Nsr, NsStep(o) \/ NsFails(o) \/ NsGivesUp(o)
       PROVE  Alone'
  BY <1>1, <1>2, <1>3, <1>11, NsAlone
<1>12. CASE UNCHANGED vars
  BY <1>2, <1>3, <1>12, NothingAlone DEF vars
<1>13. /\ \A i \in Request : ~StartBeside(i)
       /\ \A o \in Request \X Nsr : ~NsStartBeside(o)
  BY <1>1, BesideDisturbs
<1> QED
  BY <1>4, <1>5, <1>6, <1>7, <1>8, <1>9, <1>10, <1>11, <1>12, <1>13
  DEF Next, NbiRequest

\* The inductive invariant of clients that have one slice operation at a time
\* under way: an NS that exists is listed, or is about to be listed or removed.
THEOREM AloneAlways ==
    Spec => [](/\ Typed /\ GoneIsBare /\ (Undisturbed => Sound /\ Owned)
               /\ Single => Alone)
<1> DEFINE I == Typed /\ GoneIsBare /\ (Undisturbed => Sound /\ Owned)
<1>1. Init => I /\ (Single => Alone)
  <2> SUFFICES ASSUME Init PROVE I /\ Alone
    OBVIOUS
  <2>1. I
    BY InitTyped, InitSound, InitOwned
    DEF Init, Typed, SliceKnown, NoReq, GoneIsBare, NewSlice
  <2>2. /\ \A i \in Request : ~Active(i) /\ \A r : ~ActedOn(i, r)
        /\ \A n \in Slice : handler[n].pc = "idle"
        /\ \A r \in Nsr : ~Exist(r)
    BY DEF Init, NoReq, Idle, Active, ActedOn, Exist
  <2>3. Alone
    BY <2>2
    DEF Alone, OneAtATime, RemovalsKnown, OthersRemain, AllBelong
  <2> QED  BY <2>1, <2>3
<1>2. I /\ (Single => Alone) /\ [Next]_vars => (I /\ (Single => Alone))'
  BY NextTyped, GoneStaysBare, NextKeeps, NextOwns, NextAlone
<1> QED  BY <1>1, <1>2, PTL DEF Spec

\* For a client that has one slice operation at a time under way, and no
\* instantiation that gave up, no NS is left that no slice lists, which nobody
\* would remove (NsiTopic.delete_extra).
THEOREM NoOrphanAlways == Spec => []NoOrphan
<1>1. /\ Typed /\ (Undisturbed => Sound /\ Owned) /\ (Single => Alone)
      => NoOrphan
  <2> SUFFICES ASSUME Typed, Undisturbed => Sound /\ Owned, Single => Alone,
                      marks \subseteq {"repeated"}, Quiet, NoneGivenUp,
                      NEW r \in Nsr, Exist(r)
               PROVE  \E n \in Slice : There(n) /\ r \in nsi[n].list
    BY DEF NoOrphan, Exist
  <2>1. Undisturbed /\ Single
    BY DEF Undisturbed, Single
  <2>2. NobodyGaveUp
    BY <2>1, NobodyGivesUp
  <2>3. Belongs(r)
    BY <2>1, <2>2 DEF Alone, AllBelong
  <2>4. \A n \in Slice : handler[n].pc = "idle"
    BY DEF Quiet, Handled
  <2> QED  BY <2>3, <2>4 DEF Belongs
<1> QED  BY <1>1, AloneAlways, PTL

=============================================================================
