--------------------------- MODULE GatewayProofs ---------------------------
(***************************************************************************)
(* Proofs about Gateway, for any number of connections and sessions and    *)
(* any concurrency cap.                                                    *)
(***************************************************************************)
EXTENDS Gateway, FiniteSetTheorems, TLAPS

-----------------------------------------------------------------------------
(***************************************************************************)
(* The inductive invariant.                                                *)
(***************************************************************************)

\* What a client's hold on a session rests on: it is registered and has its
\* slot, or somebody or something has ended it.
Secure(s) == (s \in registry /\ s \in slots) \/ s \in asked \/ s \in closed

\* A session that was never created is known nowhere.
Started ==
    \A s \in Sids : ssh[s] = "none" =>
        /\ s \notin registry
        /\ s \notin told
        /\ \A c \in Conns : sess[c] # s

\* The session a handler is opening at the control plane is registered, and
\* nobody but that handler can know of it.
Private ==
    \A c \in Conns : pc[c] = "sopen" =>
        /\ sess[c] \in registry
        /\ sess[c] \notin told
        /\ \A d \in Conns : d # c => sess[d] # sess[c]

\* Resume tokens were issued.
Issued == \A c \in Conns : want[c] \in told \cup {None}

\* A session a handler has, or a client was told of, is secure; a handler that
\* tears a session down has a reason to.
Held ==
    /\ \A s \in told : Secure(s)
    /\ \A c \in Conns : pc[c] \in {"reply", "status", "run", "report"} => Secure(sess[c])
    /\ \A c \in Conns : outcome[c] = "Closed" => sess[c] \in asked
    /\ \A c \in Conns : pc[c] \in {"close", "remove"} => sess[c] \in asked \cup closed

SlotBound == Cardinality(slots) <= Cap

IInv == TypeOK /\ Started /\ Private /\ Issued /\ Held /\ SlotBound

-----------------------------------------------------------------------------
\* The slots are a finite set.
LEMMA SlotsFinite == ASSUME TypeOK PROVE IsFiniteSet(slots) /\ Cardinality(slots) \in Nat
<1>1. slots \subseteq Sids /\ IsFiniteSet(Sids)
  BY GatewayAssumption DEF TypeOK
<1>2. IsFiniteSet(slots)
  BY <1>1, FS_Subset
<1>3. QED
  BY <1>2, FS_CardinalityType

\* The control plane never gives out more slots than the cap.
LEMMA TakeSlotBound ==
    ASSUME TypeOK, SlotBound, NEW s \in Sids, TakeSlot(s)
    PROVE  SlotBound'
<1>1. IsFiniteSet(slots) /\ Cardinality(slots) \in Nat /\ Cardinality(slots) < Cap
  BY SlotsFinite DEF TakeSlot
<1>2. Cardinality(slots \cup {s}) = IF s \in slots THEN Cardinality(slots)
                                    ELSE Cardinality(slots) + 1
  BY <1>1, FS_AddElement
<1>3. QED
  BY <1>1, <1>2, GatewayAssumption DEF SlotBound, TakeSlot

\* Initially there is no session.
LEMMA InitEstablishesIInv == Init => IInv
<1> SUFFICES ASSUME Init PROVE IInv
  OBVIOUS
<1>1. TypeOK
  BY DEF Init, TypeOK, PCs, Attached
<1>2. Started /\ Private /\ Issued /\ Held
  BY GatewayAssumption DEF Init, Started, Private, Issued, Held
<1>3. SlotBound
  BY FS_EmptySet, GatewayAssumption DEF Init, SlotBound
<1>4. QED
  BY <1>1, <1>2, <1>3 DEF IInv

\* A handler that returns, changing nothing else, gives up what it holds.
LEMMA ReturnPreserves ==
    ASSUME IInv, NEW c \in Conns, Return(c),
           UNCHANGED <<sessions, slots, history>>
    PROVE  IInv'
<1> USE DEF IInv
<1>1. /\ registry' = registry /\ ssh' = ssh /\ closed' = closed /\ slots' = slots
      /\ told' = told /\ asked' = asked
  BY DEF sessions, history
<1>2. \A d \in Conns \ {c} : /\ pc'[d] = pc[d] /\ sess'[d] = sess[d]
                             /\ want'[d] = want[d] /\ outcome'[d] = outcome[d]
  BY DEF Return, Goto, TypeOK
<1>3. pc'[c] = "free" /\ sess'[c] = None /\ want'[c] = None /\ outcome'[c] = "none"
  BY DEF Return, Goto, TypeOK
<1>4. TypeOK'
  <2>1. \A d \in Conns : sess'[d] # None <=> pc'[d] \in Attached
    BY <1>2, <1>3 DEF TypeOK, Attached
  <2>2. QED
    BY <1>1, <2>1 DEF TypeOK, Return, Goto, PCs
<1>5. Started'
  BY <1>1, <1>2, <1>3, GatewayAssumption DEF Started
<1>6. Private'
  <2>1. \A d \in Conns : pc'[d] = "sopen" => d # c /\ sess'[d] = sess[d] /\ sess[d] \in registry
    BY <1>2, <1>3 DEF Private
  <2>2. None \notin registry
    BY GatewayAssumption DEF TypeOK
  <2>3. QED
    BY <1>1, <1>2, <1>3, <2>1, <2>2 DEF Private
<1>7. Issued'
  BY <1>1, <1>2, <1>3 DEF Issued
<1>8. Held' /\ SlotBound'
  BY <1>1, <1>2, <1>3 DEF Held, Secure, SlotBound
<1>9. QED
  BY <1>4, <1>5, <1>6, <1>7, <1>8

\* Steps before a handler holds a session, and steps of an attached handler
\* that change neither the registry nor the slots.
LEMMA MovePreserves ==
    ASSUME IInv, NEW c \in Conns, NEW label \in PCs, Goto(c, label),
           UNCHANGED <<sess, sessions, slots, history>>,
           up' \in [Conns -> BOOLEAN],
           outcome' \in [Conns -> {"none", "Detached", "Closed"}],
           \A d \in Conns : outcome'[d] = "Closed" => sess[d] \in asked,
           want' \in [Conns -> Sids \cup {None}],
           \A d \in Conns : want'[d] \in told \cup {None},
           label # "sopen",
           label \in Attached <=> pc[c] \in Attached,
           label \in {"reply", "status", "run", "report"}
              => pc[c] \in {"reply", "status", "run", "report"},
           label \in {"close", "remove"} => sess[c] \in asked \cup closed
    PROVE  IInv'
<1> USE DEF IInv
<1>1. /\ registry' = registry /\ ssh' = ssh /\ closed' = closed /\ slots' = slots
      /\ told' = told /\ asked' = asked /\ sess' = sess
  BY DEF sessions, history
<1>2. \A d \in Conns \ {c} : pc'[d] = pc[d]
  BY DEF Goto, TypeOK
<1>3. pc'[c] = label
  BY DEF Goto, TypeOK
<1>4. TypeOK'
  <2>1. \A d \in Conns : sess'[d] # None <=> pc'[d] \in Attached
    BY <1>1, <1>2, <1>3 DEF TypeOK
  <2>2. QED
    BY <1>1, <2>1 DEF TypeOK, Goto
<1>5. Started' /\ Private' /\ Issued' /\ SlotBound'
  BY <1>1, <1>2, <1>3 DEF Started, Private, Issued, SlotBound
<1>6. Held'
  BY <1>1, <1>2, <1>3 DEF Held, Secure
<1>7. QED
  BY <1>4, <1>5, <1>6

\* The steps of the client and the handler that only move a handler.
LEMMA MovesPreserve ==
    ASSUME IInv, NEW c \in Conns,
           \/ Accept(c) \/ (\E t \in Sids \cup {None} : RecvHello(c, t))
           \/ RecvOpen(c) \/ HelloLost(c) \/ StatusSent(c) \/ RecvErr(c)
    PROVE  IInv'
<1> USE DEF IInv
<1>1. /\ \A d \in Conns : outcome[d] = "Closed" => sess[d] \in asked
      /\ \A d \in Conns : want[d] \in told \cup {None}
      /\ up \in [Conns -> BOOLEAN] /\ want \in [Conns -> Sids \cup {None}]
      /\ outcome \in [Conns -> {"none", "Detached", "Closed"}]
      /\ told \subseteq Sids
  BY DEF TypeOK, Held, Issued
<1>2. CASE Accept(c)
  BY <1>1, <1>2, MovePreserves DEF Accept, PCs, Attached
<1>3. ASSUME NEW t \in Sids \cup {None}, RecvHello(c, t) PROVE IInv'
  <2>1. want' = [want EXCEPT ![c] = t] /\ t \in told \cup {None}
    BY <1>3 DEF RecvHello
  <2>2. /\ want' \in [Conns -> Sids \cup {None}]
        /\ \A d \in Conns : want'[d] \in told \cup {None}
    BY <1>1, <2>1
  <2>3. QED
    BY <1>1, <1>3, <2>2, MovePreserves DEF RecvHello, PCs, Attached
<1>4. CASE RecvOpen(c)
  BY <1>1, <1>4, MovePreserves DEF RecvOpen, PCs, Attached
<1>5. CASE HelloLost(c)
  BY <1>1, <1>5, MovePreserves DEF HelloLost, PCs, Attached
<1>6. CASE StatusSent(c)
  BY <1>1, <1>6, MovePreserves DEF StatusSent, PCs, Attached
<1>7. CASE RecvErr(c)
  <2>1. outcome' = [outcome EXCEPT ![c] = "Detached"]
    BY <1>7 DEF RecvErr
  <2>2. /\ outcome' \in [Conns -> {"none", "Detached", "Closed"}]
        /\ \A d \in Conns : outcome'[d] = "Closed" => sess[d] \in asked
    BY <1>1, <2>1
  <2>3. QED
    BY <1>1, <1>7, <2>2, MovePreserves DEF RecvErr, PCs, Attached
<1>8. QED
  BY <1>2, <1>3, <1>4, <1>5, <1>6, <1>7

\* A lost connection and the SSH side of a session.
LEMMA EnvironmentPreserves ==
    ASSUME IInv,
           \/ \E c \in Conns : Drop(c)
           \/ \E s \in Sids : TargetEnds(s) \/ ActorStops(s) \/ IngestClose(s)
    PROVE  IInv'
<1> USE DEF IInv
<1>1. /\ pc' = pc /\ sess' = sess /\ want' = want /\ outcome' = outcome
      /\ registry' = registry /\ slots' = slots /\ told' = told /\ asked' = asked
      /\ closed \subseteq closed'
  BY DEF Drop, TargetEnds, ActorStops, IngestClose, handlers, sessions, history
<1>2. TypeOK'
  <2>1. CASE \E c \in Conns : Drop(c)
    BY <1>1, <2>1 DEF TypeOK, Drop, sessions, history
  <2>2. CASE \E s \in Sids : TargetEnds(s) \/ ActorStops(s) \/ IngestClose(s)
    BY <1>1, <2>2 DEF TypeOK, TargetEnds, ActorStops, IngestClose, handlers, history
  <2>3. QED
    BY <2>1, <2>2
<1>3. \A s \in Sids : ssh'[s] = "none" => ssh[s] = "none"
  BY DEF TypeOK, Drop, TargetEnds, ActorStops, IngestClose, sessions
<1>4. Started' /\ Private' /\ Issued' /\ SlotBound'
  BY <1>1, <1>3 DEF Started, Private, Issued, SlotBound
<1>5. Held'
  BY <1>1 DEF Held, Secure
<1>6. QED
  BY <1>2, <1>4, <1>5

\* Resuming a registered session: it was told to a client, so it is secure.
LEMMA AuthorizedPreserves ==
    ASSUME IInv, NEW c \in Conns, Authorized(c)
    PROVE  IInv'
<1> USE DEF IInv
<1>1. CASE ~resume(want[c])
  <2>1. /\ Goto(c, "open") /\ pc[c] = "authorize"
        /\ UNCHANGED <<sess, want, up, outcome, sessions, slots, history>>
    BY <1>1 DEF Authorized
  <2>2. /\ \A d \in Conns : outcome[d] = "Closed" => sess[d] \in asked
        /\ \A d \in Conns : want[d] \in told \cup {None}
        /\ up \in [Conns -> BOOLEAN] /\ want \in [Conns -> Sids \cup {None}]
        /\ outcome \in [Conns -> {"none", "Detached", "Closed"}]
    BY DEF TypeOK, Held, Issued
  <2>3. QED
    BY <2>1, <2>2, MovePreserves DEF PCs, Attached
<1>2. CASE resume(want[c])
  <2>1. /\ pc[c] = "authorize" /\ Goto(c, "reply")
        /\ sess' = [sess EXCEPT ![c] = want[c]]
        /\ want' = want /\ up' = up /\ outcome' = outcome
        /\ registry' = registry /\ ssh' = ssh /\ closed' = closed /\ slots' = slots
        /\ told' = told /\ asked' = asked
    BY <1>2 DEF Authorized, sessions, history
  <2>2. want[c] \in registry /\ want[c] \in Sids /\ want[c] # None /\ want[c] \in told
    BY <1>2, GatewayAssumption DEF resume, TypeOK, Issued
  <2>3. \A d \in Conns \ {c} : pc'[d] = pc[d] /\ sess'[d] = sess[d]
    BY <2>1 DEF Goto, TypeOK
  <2>4. pc'[c] = "reply" /\ sess'[c] = want[c] /\ sess[c] = None
    BY <2>1 DEF Goto, TypeOK, Attached
  <2>5. TypeOK'
    <3>1. \A d \in Conns : sess'[d] # None <=> pc'[d] \in Attached
      BY <2>2, <2>3, <2>4 DEF TypeOK, Attached
    <3>2. QED
      BY <2>1, <2>2, <3>1 DEF TypeOK, Goto, PCs, Attached
  <2>6. Started' /\ Private' /\ Issued' /\ SlotBound'
    BY <2>1, <2>2, <2>3, <2>4 DEF Started, Private, Issued, SlotBound
  <2>7. outcome[c] # "Closed"
    BY <2>4, GatewayAssumption DEF Held, TypeOK
  <2>8. Held'
    BY <2>1, <2>2, <2>3, <2>4, <2>7 DEF Held, Secure
  <2>9. QED
    BY <2>5, <2>6, <2>8
<1>3. QED
  BY <1>1, <1>2

\* A new session is known only to the handler that created it.
LEMMA ConnectedPreserves ==
    ASSUME IInv, NEW c \in Conns, NEW s \in Sids, Connected(c, s)
    PROVE  IInv'
<1> USE DEF IInv
<1>1. /\ pc[c] = "connect" /\ ssh[s] = "none" /\ Goto(c, "sopen")
      /\ ssh' = [ssh EXCEPT ![s] = "live"] /\ registry' = registry \cup {s}
      /\ sess' = [sess EXCEPT ![c] = s]
      /\ want' = want /\ up' = up /\ outcome' = outcome /\ closed' = closed
      /\ slots' = slots /\ told' = told /\ asked' = asked
  BY DEF Connected, create, history
<1>2. s \notin told /\ \A d \in Conns : sess[d] # s
  BY <1>1 DEF Started
<1>3. \A d \in Conns \ {c} : pc'[d] = pc[d] /\ sess'[d] = sess[d]
  BY <1>1 DEF Goto, TypeOK
<1>4. pc'[c] = "sopen" /\ sess'[c] = s /\ sess[c] = None /\ s # None
  BY <1>1, GatewayAssumption DEF Goto, TypeOK, Attached
<1>5. TypeOK'
  <2>1. \A d \in Conns : sess'[d] # None <=> pc'[d] \in Attached
    BY <1>3, <1>4 DEF TypeOK, Attached
  <2>2. QED
    BY <1>1, <2>1 DEF TypeOK, Goto, PCs, Attached
<1>6. Started'
  <2>1. \A q \in Sids : ssh'[q] = "none" => q # s /\ ssh[q] = "none"
    BY <1>1 DEF TypeOK
  <2>2. QED
    BY <1>1, <1>3, <1>4, <2>1 DEF Started
<1>7. Private'
  BY <1>1, <1>2, <1>3, <1>4 DEF Private
<1>8. Issued' /\ SlotBound'
  BY <1>1 DEF Issued, SlotBound
<1>9. outcome[c] # "Closed"
  BY <1>4, GatewayAssumption DEF Held, TypeOK
<1>10. Held'
  BY <1>1, <1>3, <1>4, <1>9 DEF Held, Secure
<1>11. QED
  BY <1>5, <1>6, <1>7, <1>8, <1>10

\* A granted slot makes the private session secure.
LEMMA SessionOpenedPreserves ==
    ASSUME IInv, NEW c \in Conns, SessionOpened(c)
    PROVE  IInv'
<1> USE DEF IInv
<1>1. /\ pc[c] = "sopen" /\ Goto(c, "reply") /\ TakeSlot(sess[c])
      /\ sess' = sess /\ want' = want /\ up' = up /\ outcome' = outcome
      /\ registry' = registry /\ ssh' = ssh /\ closed' = closed
      /\ told' = told /\ asked' = asked
      /\ slots' = slots \cup {sess[c]}
  BY DEF SessionOpened, TakeSlot, sessions, history
<1>2. sess[c] \in registry /\ sess[c] \in Sids
  BY <1>1 DEF Private, TypeOK
<1>3. pc'[c] = "reply" /\ \A d \in Conns \ {c} : pc'[d] = pc[d]
  BY <1>1 DEF Goto, TypeOK
<1>4. TypeOK'
  <2>1. \A d \in Conns : sess'[d] # None <=> pc'[d] \in Attached
    BY <1>1, <1>3 DEF TypeOK, Attached
  <2>2. QED
    BY <1>1, <1>2, <2>1 DEF TypeOK, Goto, PCs, Attached
<1>5. Started' /\ Private' /\ Issued'
  BY <1>1, <1>3 DEF Started, Private, Issued
<1>6. SlotBound'
  BY <1>1, <1>2, TakeSlotBound
<1>7. Held'
  BY <1>1, <1>2, <1>3 DEF Held, Secure
<1>8. QED
  BY <1>4, <1>5, <1>6, <1>7

\* Removing the session of a handler that returns is safe when no client was
\* told of it and no other handler holds it, or when it was ended.
LEMMA RemovePreserves ==
    ASSUME IInv, NEW c \in Conns, Return(c),
           pc[c] \in {"sopen", "remove"},
           registry' = registry \ {sess[c]},
           UNCHANGED <<ssh, closed, history>>,
           slots' = slots \/ TakeSlot(sess[c])
    PROVE  IInv'
<1> USE DEF IInv
<1>1. /\ ssh' = ssh /\ closed' = closed /\ told' = told /\ asked' = asked
  BY DEF history
<1>2. \A d \in Conns \ {c} : /\ pc'[d] = pc[d] /\ sess'[d] = sess[d]
                             /\ want'[d] = want[d] /\ outcome'[d] = outcome[d]
  BY DEF Return, Goto, TypeOK
<1>3. pc'[c] = "free" /\ sess'[c] = None /\ want'[c] = None /\ outcome'[c] = "none"
  BY DEF Return, Goto, TypeOK
<1>4. sess[c] \in Sids
  BY DEF TypeOK, Attached
<1>5. slots \subseteq slots' /\ slots' \subseteq Sids
  BY <1>4 DEF TakeSlot, TypeOK
<1>6. TypeOK'
  <2>1. \A d \in Conns : sess'[d] # None <=> pc'[d] \in Attached
    BY <1>2, <1>3 DEF TypeOK, Attached
  <2>2. QED
    BY <1>1, <1>5, <2>1 DEF TypeOK, Return, Goto, PCs
<1>7. Started'
  BY <1>1, <1>2, <1>3, GatewayAssumption DEF Started
<1>8. Private'
  <2>1. SUFFICES ASSUME NEW d \in Conns, pc'[d] = "sopen"
                 PROVE  /\ sess'[d] \in registry'
                        /\ sess'[d] \notin told'
                        /\ \A e \in Conns : e # d => sess'[e] # sess'[d]
    BY DEF Private
  <2>2. d # c /\ pc[d] = "sopen" /\ sess'[d] = sess[d]
    BY <1>2, <1>3, <2>1
  <2>3. sess[d] \in registry /\ sess[d] \notin told /\ sess[d] # None
    BY <2>2, GatewayAssumption DEF Private, TypeOK
  <2>4. \A e \in Conns : e # d => sess[e] # sess[d]
    BY <2>2 DEF Private
  <2>5. QED
    BY <1>1, <1>2, <1>3, <2>2, <2>3, <2>4
<1>9. Issued'
  BY <1>1, <1>2, <1>3 DEF Issued
<1>10. SlotBound'
  BY <1>4, TakeSlotBound DEF SlotBound
<1> DEFINE After(s) == (s \in registry' /\ s \in slots') \/ s \in asked' \/ s \in closed'
<1>11. \A s : Secure(s) /\ (s # sess[c] \/ pc[c] = "remove") => After(s)
  <2>1. SUFFICES ASSUME NEW s, Secure(s), s # sess[c] \/ pc[c] = "remove"
                 PROVE  After(s)
    OBVIOUS
  <2>2. CASE s # sess[c]
    BY <1>1, <1>5, <2>1, <2>2 DEF Secure
  <2>3. CASE pc[c] = "remove" /\ s = sess[c]
    BY <1>1, <2>3 DEF Held
  <2>4. QED
    BY <2>1, <2>2, <2>3
<1> HIDE DEF After
<1>12. Held'
  <2>1. ASSUME NEW s \in told PROVE After(s)
    <3>1. s # sess[c] \/ pc[c] = "remove"
      BY DEF Private
    <3>2. QED
      BY <1>11, <3>1 DEF Held
  <2>2. ASSUME NEW d \in Conns, pc'[d] \in {"reply", "status", "run", "report"}
        PROVE  After(sess'[d])
    <3>1. d # c /\ pc[d] = pc'[d] /\ sess'[d] = sess[d]
      BY <1>2, <1>3, <2>2
    <3>2. Secure(sess[d])
      BY <2>2, <3>1 DEF Held
    <3>3. sess[d] # sess[c] \/ pc[c] = "remove"
      BY <3>1 DEF Private
    <3>4. QED
      BY <1>11, <3>1, <3>2, <3>3
  <2>3. \A d \in Conns :
           /\ outcome'[d] = "Closed" => sess'[d] \in asked
           /\ pc'[d] \in {"close", "remove"} => sess'[d] \in asked \cup closed
    BY <1>2, <1>3 DEF Held
  <2>4. (\A s \in told : Secure(s))'
    BY <1>1, <2>1 DEF Secure, After
  <2>5. (\A d \in Conns : pc[d] \in {"reply", "status", "run", "report"} => Secure(sess[d]))'
    BY <2>2 DEF Secure, After
  <2>6. QED
    BY <1>1, <2>3, <2>4, <2>5 DEF Held, Secure
<1>13. QED
  BY <1>6, <1>7, <1>8, <1>9, <1>10, <1>12

\* Hello tells the client of a session that is secure and not private.
LEMMA HelloDeliveredPreserves ==
    ASSUME IInv, NEW c \in Conns, HelloDelivered(c)
    PROVE  IInv'
<1> USE DEF IInv
<1>1. /\ pc[c] = "reply" /\ Goto(c, "status") /\ told' = told \cup {sess[c]}
      /\ sess' = sess /\ want' = want /\ up' = up /\ outcome' = outcome
      /\ registry' = registry /\ ssh' = ssh /\ closed' = closed /\ slots' = slots
      /\ asked' = asked
  BY DEF HelloDelivered, sessions
<1>2. sess[c] \in Sids /\ Secure(sess[c])
  BY <1>1 DEF TypeOK, Attached, Held
<1>3. pc'[c] = "status" /\ \A d \in Conns \ {c} : pc'[d] = pc[d]
  BY <1>1 DEF Goto, TypeOK
<1>4. TypeOK'
  <2>1. \A d \in Conns : sess'[d] # None <=> pc'[d] \in Attached
    BY <1>1, <1>3 DEF TypeOK, Attached
  <2>2. QED
    BY <1>1, <1>2, <2>1 DEF TypeOK, Goto, PCs, Attached
<1>5. Started' /\ Private' /\ Issued' /\ SlotBound'
  BY <1>1, <1>3 DEF Started, Private, Issued, SlotBound
<1>6. Held'
  BY <1>1, <1>2, <1>3 DEF Held, Secure
<1>7. QED
  BY <1>4, <1>5, <1>6

\* Close gives the teardown of the session its reason.
LEMMA RecvClosePreserves ==
    ASSUME IInv, NEW c \in Conns, RecvClose(c)
    PROVE  IInv'
<1> USE DEF IInv
<1>1. /\ pc[c] = "run" /\ Goto(c, "report") /\ asked' = asked \cup {sess[c]}
      /\ outcome' = [outcome EXCEPT ![c] = "Closed"]
      /\ sess' = sess /\ want' = want /\ up' = up
      /\ registry' = registry /\ ssh' = ssh /\ closed' = closed /\ slots' = slots
      /\ told' = told
  BY DEF RecvClose, sessions
<1>2. sess[c] \in Sids
  BY <1>1 DEF TypeOK, Attached
<1>3. pc'[c] = "report" /\ \A d \in Conns \ {c} : pc'[d] = pc[d] /\ outcome'[d] = outcome[d]
  BY <1>1 DEF Goto, TypeOK
<1>4. TypeOK'
  <2>1. \A d \in Conns : sess'[d] # None <=> pc'[d] \in Attached
    BY <1>1, <1>3 DEF TypeOK, Attached
  <2>2. QED
    BY <1>1, <1>2, <2>1 DEF TypeOK, Goto, PCs, Attached
<1>5. Started' /\ Private' /\ Issued' /\ SlotBound'
  BY <1>1, <1>3 DEF Started, Private, Issued, SlotBound
<1>6. Held'
  BY <1>1, <1>3 DEF Held, Secure
<1>7. QED
  BY <1>4, <1>5, <1>6

\* After the usage report a handler tears down an ended session or returns.
LEMMA ReportUsagePreserves ==
    ASSUME IInv, NEW c \in Conns, ReportUsage(c)
    PROVE  IInv'
<1>1. CASE outcome[c] = "Closed" \/ sess[c] \in closed
  <2>1. /\ pc[c] = "report" /\ Goto(c, "close")
        /\ UNCHANGED <<sess, want, up, outcome, sessions, slots, history>>
    BY <1>1 DEF ReportUsage
  <2>2. /\ \A d \in Conns : outcome[d] = "Closed" => sess[d] \in asked
        /\ \A d \in Conns : want[d] \in told \cup {None}
        /\ up \in [Conns -> BOOLEAN] /\ want \in [Conns -> Sids \cup {None}]
        /\ outcome \in [Conns -> {"none", "Detached", "Closed"}]
    BY DEF IInv, TypeOK, Held, Issued
  <2>3. sess[c] \in asked \cup closed
    BY <1>1, <2>2
  <2>4. QED
    BY <2>1, <2>2, <2>3, MovePreserves DEF PCs, Attached
<1>2. CASE ~(outcome[c] = "Closed" \/ sess[c] \in closed)
  BY <1>2, ReturnPreserves DEF ReportUsage
<1>3. QED
  BY <1>1, <1>2

\* The slot given back belongs to an ended session.
LEMMA SessionClosePreserves ==
    ASSUME IInv, NEW c \in Conns, SessionClose(c)
    PROVE  IInv'
<1> USE DEF IInv
<1>1. /\ pc[c] = "close" /\ Goto(c, "remove") /\ slots' \in {slots, slots \ {sess[c]}}
      /\ sess' = sess /\ want' = want /\ up' = up /\ outcome' = outcome
      /\ registry' = registry /\ ssh' = ssh /\ closed' = closed
      /\ told' = told /\ asked' = asked
  BY DEF SessionClose, sessions, history
<1>2. sess[c] \in asked \cup closed
  BY <1>1 DEF Held
<1>3. pc'[c] = "remove" /\ \A d \in Conns \ {c} : pc'[d] = pc[d]
  BY <1>1 DEF Goto, TypeOK
<1>4. TypeOK'
  <2>1. \A d \in Conns : sess'[d] # None <=> pc'[d] \in Attached
    BY <1>1, <1>3 DEF TypeOK, Attached
  <2>2. QED
    BY <1>1, <2>1 DEF TypeOK, Goto, PCs, Attached
<1>5. Started' /\ Private' /\ Issued'
  BY <1>1, <1>3 DEF Started, Private, Issued
<1>6. SlotBound'
  <2>1. slots' \subseteq slots /\ IsFiniteSet(slots) /\ Cardinality(slots) \in Nat
    BY <1>1, SlotsFinite
  <2>2. Cardinality(slots') <= Cardinality(slots) /\ Cardinality(slots') \in Nat
    BY <2>1, FS_Subset, FS_CardinalityType
  <2>3. QED
    BY <2>1, <2>2, GatewayAssumption DEF SlotBound
<1>7. Held'
  BY <1>1, <1>2, <1>3 DEF Held, Secure
<1>8. QED
  BY <1>4, <1>5, <1>6, <1>7

\* Every step preserves the inductive invariant.
LEMMA NextPreservesIInv == IInv /\ [Next]_vars => IInv'
<1> SUFFICES ASSUME IInv, [Next]_vars PROVE IInv'
  OBVIOUS
<1>1. ASSUME NEW c \in Conns, Client(c) \/ Handler(c) PROVE IInv'
  <2>1. CASE RefuseFrame(c) \/ RecvFails(c) \/ AuthorizeDenied(c)
             \/ ConnectFails(c) \/ SendFails(c)
    BY <2>1, ReturnPreserves
       DEF RefuseFrame, RecvFails, AuthorizeDenied, ConnectFails, SendFails
  <2>2. CASE \/ Accept(c) \/ (\E t \in Sids \cup {None} : RecvHello(c, t))
             \/ RecvOpen(c) \/ HelloLost(c) \/ StatusSent(c) \/ RecvErr(c)
    BY <2>2, MovesPreserve
  <2>3. CASE Drop(c)
    BY <2>3, EnvironmentPreserves
  <2>4. CASE Authorized(c)
    BY <2>4, AuthorizedPreserves
  <2>5. CASE \E s \in Sids : Connected(c, s)
    BY <2>5, ConnectedPreserves
  <2>6. CASE SessionOpened(c)
    BY <2>6, SessionOpenedPreserves
  <2>7. CASE SessionOpenDenied(c)
    BY <2>7, RemovePreserves DEF SessionOpenDenied, remove
  <2>8. CASE HelloDelivered(c)
    BY <2>8, HelloDeliveredPreserves
  <2>9. CASE RecvClose(c)
    BY <2>9, RecvClosePreserves
  <2>10. CASE ReportUsage(c)
    BY <2>10, ReportUsagePreserves
  <2>11. CASE SessionClose(c)
    BY <2>11, SessionClosePreserves
  <2>12. CASE Remove(c)
    BY <2>12, RemovePreserves DEF Remove, remove
  <2>13. QED
    BY <1>1, <2>1, <2>2, <2>3, <2>4, <2>5, <2>6, <2>7, <2>8, <2>9, <2>10, <2>11, <2>12
       DEF Client, Handler
<1>2. CASE \E s \in Sids : TargetEnds(s) \/ ActorStops(s) \/ IngestClose(s)
  BY <1>2, EnvironmentPreserves
<1>3. CASE UNCHANGED vars
  BY <1>3 DEF vars, IInv, TypeOK, Started, Private, Issued, Held, Secure, SlotBound
<1>4. QED
  BY <1>1, <1>2, <1>3 DEF Next

-----------------------------------------------------------------------------
(***************************************************************************)
(* The theorems.                                                           *)
(***************************************************************************)

\* The inductive invariant holds in every reachable state.
THEOREM Invariance == Spec => []IInv
  BY InitEstablishesIInv, NextPreservesIInv, PTL DEF Spec

\* Every variable keeps its type, and a handler holds a session exactly while
\* it is past connecting (handle_connection).
THEOREM TypeCorrect == Spec => []TypeOK
<1>1. IInv => TypeOK
  BY DEF IInv
<1>2. QED
  BY <1>1, Invariance, PTL

\* A session whose token a client holds is lost only to a Close or to the end
\* of its SSH session, whatever the other connections do.
THEOREM SessionsAreKeptAlive == Spec => []KeepAlive
<1>1. IInv => KeepAlive
  BY DEF IInv, Held, Secure, KeepAlive
<1>2. QED
  BY <1>1, Invariance, PTL

\* A session a client was told of keeps its concurrency slot until it is ended.
THEOREM SlotsAreHeld == Spec => []SlotHeld
<1>1. IInv => SlotHeld
  BY DEF IInv, Held, Secure, SlotHeld
<1>2. QED
  BY <1>1, Invariance, PTL

\* The sessions told to clients and not ended never exceed the cap.
THEOREM CapIsEnforced == Spec => []ConcurrencyCap
<1>1. ASSUME IInv PROVE ConcurrencyCap
  <2> DEFINE live == told \ (asked \cup closed)
  <2>1. live \subseteq slots
    BY <1>1 DEF IInv, Held, Secure
  <2>2. IsFiniteSet(slots) /\ Cardinality(slots) \in Nat /\ Cardinality(slots) <= Cap
    BY <1>1, SlotsFinite DEF IInv, SlotBound
  <2> HIDE DEF live
  <2>3. Cardinality(live) <= Cardinality(slots) /\ Cardinality(live) \in Nat
    BY <2>1, <2>2, FS_Subset, FS_CardinalityType
  <2>4. Cardinality(live) <= Cap
    BY <2>2, <2>3, GatewayAssumption
  <2>5. QED
    BY <2>4 DEF live, ConcurrencyCap
<1>2. QED
  BY <1>1, Invariance, PTL

\* No handler takes hold of a session that is not registered, so a removed
\* session's token stays dead.
THEOREM TokensStopWorking == Spec => TokenStopsWorking
<1> DEFINE Attach == \A c \in Conns : sess'[c] \notin {sess[c], None} => sess'[c] \in registry'
<1>1. IInv /\ [Next]_vars => [Attach]_vars
  <2>1. SUFFICES ASSUME IInv, Next, NEW c \in Conns, sess'[c] \notin {sess[c], None}
                 PROVE  sess'[c] \in registry'
    OBVIOUS
  <2>2. sess \in [Conns -> Sids \cup {None}]
    BY <2>1 DEF IInv, TypeOK
  <2>3. ASSUME NEW d \in Conns, Return(d) PROVE FALSE
    BY <2>1, <2>2, <2>3 DEF Return
  <2>4. ASSUME NEW d \in Conns, Authorized(d) PROVE sess'[c] \in registry'
    BY <2>1, <2>2, <2>4 DEF Authorized, resume, sessions
  <2>5. ASSUME NEW d \in Conns, NEW s \in Sids, Connected(d, s) PROVE sess'[c] \in registry'
    BY <2>1, <2>2, <2>5 DEF Connected, create
  <2>6. sess' # sess
    BY <2>1
  <2>7. ASSUME NEW d \in Conns, Client(d) \/ Handler(d)
        PROVE  sess'[c] \in registry'
    BY <2>3, <2>4, <2>5, <2>6, <2>7
       DEF Client, Handler, Accept, Drop, RecvHello, RefuseFrame, RecvOpen,
           RecvClose, RecvFails, AuthorizeDenied, ConnectFails, SessionOpened,
           SessionOpenDenied, HelloDelivered, HelloLost, StatusSent, SendFails, RecvErr,
           ReportUsage, SessionClose, Remove, remove, handlers
  <2>8. ASSUME NEW s \in Sids, TargetEnds(s) \/ ActorStops(s) \/ IngestClose(s)
        PROVE  FALSE
    BY <2>6, <2>8 DEF TargetEnds, ActorStops, IngestClose, handlers
  <2>9. QED
    BY <2>1, <2>7, <2>8 DEF Next
<1>2. QED
  BY <1>1, Invariance, PTL DEF Spec, TokenStopsWorking

-----------------------------------------------------------------------------
(***************************************************************************)
(* Slots that are given back, and sessions that are left behind.           *)
(***************************************************************************)

\* Every registered session has its slot, or a handler is between registering
\* it and its slot, or between its slot and removing it.
Slotted ==
    \A s \in registry :
        s \in slots \/ \E c \in Conns : sess[c] = s /\ pc[c] \in {"sopen", "remove"}

\* A handler that reports without a Close has lost its connection.
Parted == \A c \in Conns : pc[c] = "report" => outcome[c] = "Closed" \/ ~up[c]

\* Steps of a handler that is in neither of the two places.
LEMMA SlottedKept ==
    ASSUME Slotted, NEW c \in Conns, pc[c] \notin {"sopen", "remove"},
           registry' = registry, slots' = slots,
           \A d \in Conns \ {c} : pc'[d] = pc[d] /\ sess'[d] = sess[d]
    PROVE  Slotted'
  BY DEF Slotted

\* What a step of one handler leaves alone.
LEMMA OthersUntouched ==
    ASSUME TypeOK, NEW c \in Conns, Client(c) \/ Handler(c)
    PROVE  \A d \in Conns \ {c} : /\ pc'[d] = pc[d] /\ sess'[d] = sess[d]
                                  /\ up'[d] = up[d] /\ outcome'[d] = outcome[d]
<1>1. CASE Client(c)
  BY <1>1 DEF Client, TypeOK, Accept, Drop, RecvHello, RefuseFrame, RecvOpen, RecvClose,
              Return, Goto
<1>2. CASE Handler(c)
  <2>1. CASE RecvFails(c) \/ AuthorizeDenied(c) \/ Authorized(c) \/ ConnectFails(c)
             \/ SendFails(c) \/ RecvErr(c) \/ ReportUsage(c)
    BY <2>1 DEF TypeOK, RecvFails, AuthorizeDenied, Authorized, ConnectFails, SendFails,
                RecvErr, ReportUsage, Return, Goto
  <2>2. CASE (\E s \in Sids : Connected(c, s)) \/ SessionOpened(c) \/ SessionOpenDenied(c)
             \/ HelloDelivered(c) \/ HelloLost(c) \/ StatusSent(c)
    BY <2>2 DEF TypeOK, Connected, SessionOpened, SessionOpenDenied, HelloDelivered,
                HelloLost, StatusSent, Return, Goto
  <2>3. CASE SessionClose(c) \/ Remove(c)
    BY <2>3 DEF TypeOK, SessionClose, Remove, Return, Goto
  <2>4. QED
    BY <1>2, <2>1, <2>2, <2>3 DEF Handler
<1>3. QED
  BY <1>1, <1>2

\* Slots are taken after registering and given back before removing.
LEMMA SlottedPreserved == IInv /\ Slotted /\ [Next]_vars => Slotted'
<1> SUFFICES ASSUME IInv, Slotted, [Next]_vars PROVE Slotted'
  OBVIOUS
<1>1. TypeOK
  BY DEF IInv
<1>2. ASSUME NEW c \in Conns, Client(c) \/ Handler(c) PROVE Slotted'
  <2>1. \A d \in Conns \ {c} : pc'[d] = pc[d] /\ sess'[d] = sess[d]
    BY <1>1, <1>2, OthersUntouched
  <2>2. CASE Drop(c)
    BY <2>2 DEF Drop, Slotted, sessions
  <2>3. CASE \/ Accept(c) \/ (\E t \in Sids \cup {None} : RecvHello(c, t)) \/ RefuseFrame(c)
             \/ RecvOpen(c) \/ RecvClose(c) \/ RecvFails(c) \/ AuthorizeDenied(c)
             \/ Authorized(c) \/ ConnectFails(c) \/ HelloDelivered(c) \/ HelloLost(c)
             \/ StatusSent(c) \/ SendFails(c) \/ RecvErr(c) \/ ReportUsage(c)
    <3>1. registry' = registry /\ slots' = slots /\ pc[c] \notin {"sopen", "remove"}
      BY <2>3 DEF Accept, RecvHello, RefuseFrame, RecvOpen, RecvClose, RecvFails,
                  AuthorizeDenied, Authorized, ConnectFails, HelloDelivered, HelloLost,
                  StatusSent, SendFails, RecvErr, ReportUsage, sessions
    <3>2. QED
      BY <2>1, <3>1, SlottedKept
  <2>4. ASSUME NEW s \in Sids, Connected(c, s) PROVE Slotted'
    <3>1. /\ registry' = registry \cup {s} /\ slots' = slots /\ pc[c] = "connect"
          /\ pc'[c] = "sopen" /\ sess'[c] = s
      BY <1>1, <2>4 DEF Connected, create, Goto, TypeOK
    <3>2. QED
      BY <2>1, <3>1 DEF Slotted
  <2>5. CASE SessionOpened(c)
    <3>1. /\ registry' = registry /\ slots' = slots \cup {sess[c]}
      BY <2>5 DEF SessionOpened, TakeSlot, sessions
    <3>2. QED
      BY <2>1, <3>1 DEF Slotted
  <2>6. CASE SessionOpenDenied(c) \/ Remove(c)
    <3>1. /\ registry' = registry \ {sess[c]} /\ slots \subseteq slots'
      BY <2>6 DEF SessionOpenDenied, Remove, remove, TakeSlot
    <3>2. QED
      BY <2>1, <3>1 DEF Slotted
  <2>7. CASE SessionClose(c)
    <3>1. /\ registry' = registry /\ slots \ {sess[c]} \subseteq slots'
          /\ sess' = sess /\ pc[c] = "close" /\ pc'[c] = "remove"
      BY <1>1, <2>7 DEF SessionClose, sessions, Goto, TypeOK
    <3>2. QED
      BY <2>1, <3>1 DEF Slotted
  <2>8. QED
    BY <1>2, <2>2, <2>3, <2>4, <2>5, <2>6, <2>7 DEF Client, Handler
<1>3. CASE \E s \in Sids : TargetEnds(s) \/ ActorStops(s) \/ IngestClose(s)
  BY <1>3 DEF TargetEnds, ActorStops, IngestClose, handlers, sessions, Slotted
<1>4. CASE UNCHANGED vars
  BY <1>4 DEF vars, Slotted
<1>5. QED
  BY <1>2, <1>3, <1>4 DEF Next

\* A session without its slot is about to be removed; it cannot stay behind.
THEOREM UnslottedSessionsEnd == Spec => []UnslottedIsEnding
<1>1. Init => Slotted
  BY DEF Init, Slotted
<1>2. IInv /\ Slotted => UnslottedIsEnding
  BY DEF IInv, Private, Slotted, UnslottedIsEnding
<1>3. QED
  BY <1>1, <1>2, SlottedPreserved, Invariance, PTL DEF Spec

\* receiver_loop returns on a Close or on an error, and a lost connection stays lost.
LEMMA PartedPreserved == TypeOK /\ Parted /\ [Next]_vars => Parted'
<1> SUFFICES ASSUME TypeOK, Parted, [Next]_vars PROVE Parted'
  OBVIOUS
<1>1. ASSUME NEW c \in Conns, Client(c) \/ Handler(c) PROVE Parted'
  <2>1. \A d \in Conns \ {c} : pc'[d] = pc[d] /\ up'[d] = up[d] /\ outcome'[d] = outcome[d]
    BY <1>1, OthersUntouched
  <2>2. pc'[c] = "report" => outcome'[c] = "Closed" \/ ~up'[c]
    <3>1. CASE Drop(c)
      BY <3>1 DEF Drop, TypeOK
    <3>2. CASE RecvClose(c) \/ RecvErr(c)
      BY <3>2 DEF RecvClose, RecvErr, TypeOK
    <3>3. CASE /\ ~Drop(c) /\ ~RecvClose(c) /\ ~RecvErr(c)
      <4>1. CASE Client(c)
        BY <3>3, <4>1 DEF Client, TypeOK, Accept, RecvHello, RefuseFrame, RecvOpen, Return, Goto
      <4>2. CASE Handler(c)
        BY <3>3, <4>2 DEF Handler, TypeOK, RecvFails, AuthorizeDenied, Authorized,
           ConnectFails, Connected, SessionOpened, SessionOpenDenied, HelloDelivered,
           HelloLost, StatusSent, SendFails, ReportUsage, SessionClose, Remove, Return, Goto
      <4>3. QED
        BY <1>1, <4>1, <4>2
    <3>4. QED
      BY <3>1, <3>2, <3>3
  <2>3. QED
    BY <2>1, <2>2 DEF Parted
<1>2. CASE \E s \in Sids : TargetEnds(s) \/ ActorStops(s) \/ IngestClose(s)
  BY <1>2 DEF TargetEnds, ActorStops, IngestClose, handlers, Parted
<1>3. CASE UNCHANGED vars
  BY <1>3 DEF vars, Parted
<1>4. QED
  BY <1>1, <1>2, <1>3 DEF Next

\* Only the loss of a connection leaves a registered session to nobody.
THEOREM OrphansAreLost == Spec => OrphanOnlyByLoss
<1> DEFINE Orphans ==
      \A s \in registry' \ told' :
          InHand(s) /\ ~InHand(s)' => \E c \in Conns : sess[c] = s /\ ~up[c]
<1>1. Init => Parted
  BY DEF Init, Parted
<1>2. IInv /\ Parted /\ [Next]_vars => [Orphans]_vars
  <2>1. SUFFICES ASSUME IInv, Parted, Next, NEW s \in registry' \ told',
                        NEW c \in Conns, sess[c] = s, sess'[c] # s
                 PROVE  ~up[c]
    BY DEF InHand
  <2>2. TypeOK /\ TypeOK' /\ s \in Sids /\ s # None
    BY <2>1, NextPreservesIInv, GatewayAssumption DEF IInv, TypeOK
  <2>3. pc[c] \in Attached /\ sess' # sess
    BY <2>1, <2>2 DEF TypeOK
  <2>4. PICK d \in Conns : Client(d) \/ Handler(d)
    BY <2>1, <2>3 DEF Next, TargetEnds, ActorStops, IngestClose, handlers
  <2>5. d = c
    BY <2>1, <2>2, <2>4, OthersUntouched
  <2>6. CASE SendFails(c)
    BY <2>6 DEF SendFails
  <2>7. CASE ReportUsage(c)
    BY <2>1, <2>7 DEF ReportUsage, Parted
  <2>8. CASE SessionOpenDenied(c) \/ Remove(c)
    BY <2>1, <2>8 DEF SessionOpenDenied, Remove, remove
  <2>9. ~ (SendFails(c) \/ ReportUsage(c) \/ SessionOpenDenied(c) \/ Remove(c)) => FALSE
    BY <2>3, <2>4, <2>5 DEF Client, Handler, Attached, Accept, Drop, RecvHello, RefuseFrame,
       RecvOpen, RecvClose, RecvFails, AuthorizeDenied, Authorized, ConnectFails, Connected,
       SessionOpened, HelloDelivered, HelloLost, StatusSent, RecvErr, SessionClose
  <2>10. QED
    BY <2>6, <2>7, <2>8, <2>9
<1>3. TypeOK /\ Parted /\ [Next]_vars => Parted'
  BY PartedPreserved
<1>4. QED
  BY <1>1, <1>2, <1>3, TypeCorrect, Invariance, PTL DEF Spec, OrphanOnlyByLoss

-----------------------------------------------------------------------------
(***************************************************************************)
(* The refinement of SessionBook.                                          *)
(***************************************************************************)

\* A session that was never created has not been ended.
Fresh == \A s \in Sids : ssh[s] = "none" => s \notin asked /\ s \notin closed

\* Only a session that a handler runs is asked to close, and only one whose
\* actor has stopped is closed.
LEMMA FreshPreserved == IInv /\ Fresh /\ [Next]_vars => Fresh'
<1> SUFFICES ASSUME IInv, Fresh, [Next]_vars PROVE Fresh'
  OBVIOUS
<1>1. TypeOK /\ Started
  BY DEF IInv
<1>2. ASSUME NEW c \in Conns, Client(c) \/ Handler(c) PROVE Fresh'
  <2>1. CASE RecvClose(c)
    <3>1. ssh' = ssh /\ closed' = closed /\ asked' = asked \cup {sess[c]}
      BY <2>1 DEF RecvClose, sessions
    <3>2. QED
      BY <1>1, <3>1 DEF Fresh, Started
  <2>2. ASSUME NEW s \in Sids, Connected(c, s) PROVE Fresh'
    <3>1. ssh' = [ssh EXCEPT ![s] = "live"] /\ closed' = closed /\ asked' = asked
      BY <2>2 DEF Connected, create, history
    <3>2. \A q \in Sids : ssh'[q] = "none" => ssh[q] = "none"
      BY <1>1, <3>1 DEF TypeOK
    <3>3. QED
      BY <3>1, <3>2 DEF Fresh
  <2>3. CASE ~RecvClose(c) /\ ~(\E s \in Sids : Connected(c, s))
    <3>1. ssh' = ssh /\ closed' = closed /\ asked' = asked
      BY <1>2, <2>3 DEF Client, Handler, Accept, Drop, RecvHello, RefuseFrame, RecvOpen,
         RecvFails, AuthorizeDenied, Authorized, ConnectFails, SessionOpened,
         SessionOpenDenied, HelloDelivered, HelloLost, StatusSent, SendFails, RecvErr,
         ReportUsage, SessionClose, Remove, sessions, history
    <3>2. QED
      BY <3>1 DEF Fresh
  <2>4. QED
    BY <2>1, <2>2, <2>3
<1>3. ASSUME NEW s \in Sids, TargetEnds(s) \/ ActorStops(s) \/ IngestClose(s) PROVE Fresh'
  <2>1. asked' = asked /\ \A q \in Sids : ssh'[q] = "none" => ssh[q] = "none"
    BY <1>1, <1>3 DEF TypeOK, TargetEnds, ActorStops, IngestClose, history
  <2>2. \A q \in Sids : ssh[q] = "none" => (q \in closed' => q \in closed)
    BY <1>3 DEF TargetEnds, ActorStops, IngestClose
  <2>3. QED
    BY <2>1, <2>2 DEF Fresh
<1>4. CASE UNCHANGED vars
  BY <1>4 DEF vars, Fresh
<1>5. QED
  BY <1>2, <1>3, <1>4 DEF Next

\* The stage of a session depends on these four facts about it.
LEMMA SameStages ==
    ASSUME \A s \in Sids : /\ ssh'[s] = "none" <=> ssh[s] = "none"
                           /\ s \in registry' <=> s \in registry
                           /\ s \in asked' \cup closed' <=> s \in asked \cup closed
    PROVE  Stages' = Stages
<1>1. \A s \in Sids : Stage(s)' = Stage(s)
  BY DEF Stage
<1>2. QED
  BY <1>1 DEF Stages

\* Marking one session as ended ends it in the book, or changes nothing there.
LEMMA EndInBook ==
    ASSUME NEW s \in Sids, Fresh, ssh[s] # "none", ssh' = ssh, registry' = registry,
           asked' \cup closed' = (asked \cup closed) \cup {s},
           told' = told, sess' = sess
    PROVE  [Book!Next]_Book!vars
<1>1. CASE Stage(s) = "open"
  <2>1. \A q \in Sids : Stage(q)' = IF q = s THEN "ending" ELSE Stage(q)
    BY <1>1 DEF Stage
  <2>2. Stages' = [Stages EXCEPT ![s] = "ending"]
    BY <2>1 DEF Stages
  <2>3. Stages[s] = "open"
    BY <1>1 DEF Stages
  <2>4. Book!End(s)
    BY <2>2, <2>3 DEF Book!End
  <2>5. QED
    BY <2>4 DEF Book!Next
<1>2. CASE Stage(s) # "open"
  <2>1. \A q \in Sids : Stage(q)' = Stage(q)
    BY <1>2 DEF Stage
  <2>2. Stages' = Stages
    BY <2>1 DEF Stages
  <2>3. QED
    BY <2>2 DEF Book!vars
<1>3. QED
  BY <1>1, <1>2

\* A handler that returns and changes nothing else detaches.
LEMMA DetachInBook ==
    ASSUME NEW c \in Conns, Return(c), UNCHANGED <<sessions, history>>
    PROVE  [Book!Next]_Book!vars
<1>1. Stages' = Stages
  BY SameStages DEF sessions, history
<1>2. Book!Detach(c)
  BY <1>1 DEF Book!Detach, Return, history
<1>3. QED
  BY <1>2 DEF Book!Next

\* A handler that returns after removing its session strikes it.
LEMMA StrikeInBook ==
    ASSUME IInv, NEW c \in Conns, pc[c] \in Attached, remove(sess[c]), Return(c),
           UNCHANGED <<ssh, closed, history>>
    PROVE  Book!Strike(c)
<1>1. sess[c] \in Sids /\ sess[c] # None /\ ssh[sess[c]] # "none"
  BY GatewayAssumption DEF IInv, TypeOK, Started
<1>2. \A q \in Sids : Stage(q)' = IF q = sess[c] THEN "struck" ELSE Stage(q)
  BY <1>1 DEF Stage, remove, history
<1>3. Stages' = [Stages EXCEPT ![sess[c]] = "struck"]
  BY <1>2 DEF Stages
<1>4. QED
  BY <1>1, <1>3 DEF Book!Strike, Return, history

\* A new session is opened in the book.
LEMMA OpenInBook ==
    ASSUME IInv, Fresh, NEW c \in Conns, NEW s \in Sids, Connected(c, s)
    PROVE  Book!Open(c, s)
<1>1. /\ pc[c] = "connect" /\ ssh[s] = "none"
      /\ ssh' = [ssh EXCEPT ![s] = "live"] /\ registry' = registry \cup {s}
      /\ sess' = [sess EXCEPT ![c] = s]
      /\ closed' = closed /\ told' = told /\ asked' = asked
  BY DEF Connected, create, history
<1>2. s \notin asked /\ s \notin closed
  BY <1>1 DEF Fresh
<1>3. sess[c] = None
  BY <1>1 DEF IInv, TypeOK, Attached
<1>4. /\ ssh'[s] # "none" /\ s \in registry'
      /\ \A q \in Sids \ {s} : ssh'[q] = ssh[q]
  BY <1>1 DEF IInv, TypeOK
<1>5. \A q \in Sids : Stage(q)' = IF q = s THEN "open" ELSE Stage(q)
  BY <1>1, <1>2, <1>4 DEF Stage
<1>6. Stages' = [Stages EXCEPT ![s] = "open"]
  BY <1>5 DEF Stages
<1>7. Stages[s] = "unused"
  BY <1>1 DEF Stages, Stage
<1>8. QED
  BY <1>1, <1>3, <1>6, <1>7 DEF Book!Open

\* A token that resumes a session was issued for it, and it is not yet struck.
LEMMA ResumeInBook ==
    ASSUME IInv, NEW c \in Conns, Authorized(c)
    PROVE  [Book!Next]_Book!vars
<1>1. /\ pc[c] = "authorize" /\ ssh' = ssh /\ registry' = registry /\ closed' = closed
      /\ told' = told /\ asked' = asked
  BY DEF Authorized, sessions, history
<1>2. Stages' = Stages
  BY <1>1, SameStages
<1>3. CASE resume(want[c])
  <2>1. sess' = [sess EXCEPT ![c] = want[c]] /\ want[c] \in registry
    BY <1>3 DEF Authorized, resume
  <2>2. sess[c] = None
    BY <1>1 DEF IInv, TypeOK, Attached
  <2>3. want[c] \in Sids /\ want[c] \in told /\ ssh[want[c]] # "none"
    BY <2>1, GatewayAssumption DEF IInv, TypeOK, Issued, Started
  <2>4. Stages[want[c]] \in {"open", "ending"}
    BY <2>1, <2>3 DEF Stages, Stage
  <2>5. Book!Resume(c, want[c])
    BY <1>1, <1>2, <2>1, <2>2, <2>3, <2>4 DEF Book!Resume
  <2>6. QED
    BY <2>3, <2>5 DEF Book!Next
<1>4. CASE ~resume(want[c])
  BY <1>1, <1>2, <1>4 DEF Authorized, Book!vars
<1>5. QED
  BY <1>3, <1>4

\* A session is told to a client only when it has one of the account's slots, or
\* has been ended.
LEMMA TellInBook ==
    ASSUME IInv, NEW c \in Conns, HelloDelivered(c)
    PROVE  Book!Tell(c)
<1>1. /\ pc[c] = "reply" /\ told' = told \cup {sess[c]} /\ sess' = sess
      /\ ssh' = ssh /\ registry' = registry /\ closed' = closed /\ asked' = asked
  BY DEF HelloDelivered, sessions
<1>2. Stages' = Stages
  BY <1>1, SameStages
<1>3. sess[c] \in Sids /\ sess[c] # None
  BY <1>1, GatewayAssumption DEF IInv, TypeOK, Attached
<1> DEFINE active == {s \in told' : Stages[s] = "open"}
<1>4. active \subseteq slots
  <2>1. SUFFICES ASSUME NEW s \in told', Stages[s] = "open" PROVE s \in slots
    OBVIOUS
  <2>2. Secure(s) /\ s \in Sids
    BY <1>1, <1>3 DEF IInv, Held, TypeOK
  <2>3. Stage(s) = "open"
    BY <2>1, <2>2 DEF Stages
  <2>4. QED
    BY <2>2, <2>3 DEF Secure, Stage
<1>5. IsFiniteSet(slots) /\ Cardinality(slots) \in Nat /\ Cardinality(slots) <= Cap
  BY SlotsFinite DEF IInv, SlotBound
<1>6. Cardinality(active) <= Cap
  <2> HIDE DEF active
  <2>1. Cardinality(active) <= Cardinality(slots) /\ Cardinality(active) \in Nat
    BY <1>4, <1>5, FS_Subset, FS_CardinalityType
  <2>2. QED
    BY <1>5, <2>1, GatewayAssumption
<1>7. Book!Cardinality(active) = Cardinality(active)
  BY DEF Cardinality, Book!Cardinality, IsFiniteSet, Book!IsFiniteSet
<1>8. QED
  BY <1>1, <1>2, <1>3, <1>6, <1>7 DEF Book!Tell, Book!Active

\* Every step of the gateway is a step of the book, or leaves it as it is.
LEMMA StepInBook == IInv /\ Fresh /\ [Next]_vars => [Book!Next]_Book!vars
<1> SUFFICES ASSUME IInv, Fresh, [Next]_vars PROVE [Book!Next]_Book!vars
  OBVIOUS
<1>1. TypeOK /\ Started /\ Private /\ Held
  BY DEF IInv
<1>2. ASSUME NEW c \in Conns, Client(c) \/ Handler(c) PROVE [Book!Next]_Book!vars
  <2>1. CASE RefuseFrame(c) \/ RecvFails(c) \/ AuthorizeDenied(c)
             \/ ConnectFails(c) \/ SendFails(c)
    BY <2>1, DetachInBook
       DEF RefuseFrame, RecvFails, AuthorizeDenied, ConnectFails, SendFails
  <2>2. CASE \/ Accept(c) \/ Drop(c) \/ (\E t \in Sids \cup {None} : RecvHello(c, t))
             \/ RecvOpen(c) \/ SessionOpened(c) \/ HelloLost(c) \/ StatusSent(c)
             \/ RecvErr(c) \/ SessionClose(c)
    <3>1. /\ ssh' = ssh /\ registry' = registry /\ closed' = closed
          /\ told' = told /\ asked' = asked /\ sess' = sess
      BY <2>2 DEF Accept, Drop, RecvHello, RecvOpen, SessionOpened, HelloLost, StatusSent,
                  RecvErr, SessionClose, sessions, history
    <3>2. Stages' = Stages
      BY <3>1, SameStages
    <3>3. QED
      BY <3>1, <3>2 DEF Book!vars
  <2>3. CASE Authorized(c)
    BY <2>3, ResumeInBook
  <2>4. CASE \E s \in Sids : Connected(c, s)
    BY <2>4, OpenInBook DEF Book!Next
  <2>5. CASE SessionOpenDenied(c)
    <3>1. Book!Strike(c)
      BY <2>5, StrikeInBook DEF SessionOpenDenied, Attached
    <3>2. sess[c] \notin told /\ \A d \in Conns : d # c => sess[d] # sess[c]
      BY <1>1, <2>5 DEF SessionOpenDenied, Private
    <3>3. QED
      BY <3>1, <3>2 DEF Book!Refuse, Book!Next
  <2>6. CASE HelloDelivered(c)
    BY <2>6, TellInBook DEF Book!Next
  <2>7. CASE RecvClose(c)
    <3>1. /\ pc[c] = "run" /\ ssh' = ssh /\ registry' = registry /\ closed' = closed
          /\ asked' = asked \cup {sess[c]} /\ told' = told /\ sess' = sess
      BY <2>7 DEF RecvClose, sessions
    <3>2. sess[c] \in Sids /\ ssh[sess[c]] # "none"
      BY <1>1, <3>1 DEF TypeOK, Attached, Started
    <3>3. PICK s \in Sids : s = sess[c]
      BY <3>2
    <3>4. QED
      BY <3>1, <3>2, <3>3, EndInBook
  <2>8. CASE ReportUsage(c)
    <3>1. CASE outcome[c] = "Closed" \/ sess[c] \in closed
      <4>1. sess' = sess /\ Stages' = Stages /\ told' = told
        BY <2>8, <3>1, SameStages DEF ReportUsage, sessions, history
      <4>2. QED
        BY <4>1 DEF Book!vars
    <3>2. CASE ~(outcome[c] = "Closed" \/ sess[c] \in closed)
      BY <2>8, <3>2, DetachInBook DEF ReportUsage
    <3>3. QED
      BY <3>1, <3>2
  <2>9. CASE Remove(c)
    <3>1. Book!Strike(c)
      BY <2>9, StrikeInBook DEF Remove, Attached
    <3>2. /\ sess[c] \in Sids /\ sess[c] # None /\ ssh[sess[c]] # "none"
          /\ sess[c] \in asked \cup closed
      BY <1>1, <2>9, GatewayAssumption DEF Remove, TypeOK, Attached, Started, Held
    <3>3. Stages[sess[c]] \in {"ending", "struck"}
      BY <3>2 DEF Stages, Stage
    <3>4. QED
      BY <3>1, <3>2, <3>3 DEF Book!Remove, Book!Next
  <2>10. QED
    BY <1>2, <2>1, <2>2, <2>3, <2>4, <2>5, <2>6, <2>7, <2>8, <2>9 DEF Client, Handler
<1>3. ASSUME NEW s \in Sids, TargetEnds(s) \/ ActorStops(s) PROVE [Book!Next]_Book!vars
  <2>1. /\ registry' = registry /\ closed' = closed /\ told' = told /\ asked' = asked
        /\ sess' = sess /\ \A q \in Sids : ssh'[q] = "none" <=> ssh[q] = "none"
    BY <1>1, <1>3 DEF TypeOK, TargetEnds, ActorStops, handlers, history
  <2>2. Stages' = Stages
    BY <2>1, SameStages
  <2>3. QED
    BY <2>1, <2>2 DEF Book!vars
<1>4. ASSUME NEW s \in Sids, IngestClose(s) PROVE [Book!Next]_Book!vars
  <2>1. /\ ssh[s] = "stopped" /\ ssh' = ssh /\ registry' = registry
        /\ closed' = closed \cup {s} /\ told' = told /\ asked' = asked /\ sess' = sess
    BY <1>4 DEF IngestClose, handlers, history
  <2>2. QED
    BY <2>1, EndInBook
<1>5. CASE UNCHANGED vars
  <2>1. Stages' = Stages /\ told' = told /\ sess' = sess
    BY <1>5, SameStages DEF vars
  <2>2. QED
    BY <2>1 DEF Book!vars
<1>6. QED
  BY <1>2, <1>3, <1>4, <1>5 DEF Next

\* The gateway implements SessionBook: for any number of connections, sessions and
\* failures of the control plane, a session a client was told of can be resumed until
\* it was ended and struck, never afterwards, and at most Cap are active.
THEOREM GatewayKeepsBook == Spec => KeepsBook
<1>1. Init => Book!Init
  BY DEF Init, Book!Init, Stages, Stage
<1>2. Init => Fresh
  BY DEF Init, Fresh
<1>3. QED
  BY <1>1, <1>2, FreshPreserved, StepInBook, Invariance, PTL DEF Spec, KeepsBook, Book!Spec
=============================================================================
