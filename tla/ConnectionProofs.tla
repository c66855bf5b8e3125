-------------------------- MODULE ConnectionProofs --------------------------
(***************************************************************************)
(* Invariants of Connection, and of the token bucket that slows down its   *)
(* sender_task, proved for every capacity, every rate and every bound.     *)
(***************************************************************************)
EXTENDS Connection, Throttle, FiniteSetTheorems, TLAPS

-----------------------------------------------------------------------------
(***************************************************************************)
(* The inductive invariant.                                                *)
(***************************************************************************)

\* The actor holds a frame to write exactly while it writes and a pending
\* resize only at the top of its loop; a dead actor holds nothing.
ActorPhase ==
    /\ current # 0 <=> actor = "write"
    /\ pending # 0 => actor = "top"
    /\ actor = "gone" => input = <<>>

\* The frame the actor holds, and the frame receiver_loop holds.
InHand == {current, pending} \ {0}
Held == IF rcv = "input" THEN {nread} ELSE {}

Precede(S, T) == \A f \in S, g \in T : f < g

\* The frames on their way to the target have been read from the client's
\* stream, and each stage holds frames older than the next stage's.
PipeOrder ==
    /\ Elements(input) \cup InHand \cup Held \subseteq 1..nread
    /\ Ascending(input)
    /\ Precede(Elements(applied), InHand \cup Elements(input) \cup Held)
    /\ Precede(InHand, Elements(input) \cup Held)
    /\ Precede(Elements(input), Held)

\* While the actor lives, every input frame that was read is in some stage.
PipeComplete ==
    actor # "gone" =>
        {f \in 1..nread : sent[f] \in Inputs}
            \subseteq Elements(applied) \cup InHand \cup Elements(input) \cup Held

Pipe == ActorPhase /\ PipeOrder /\ PipeComplete /\ InputInOrder

\* Where the sender is tells how far the meter is ahead of delivery.
MeterPhase ==
    /\ snd \in {"select", "throttle", "pong", "closing"} => bytes_out = delivered
    /\ snd = "send" => bytes_out = delivered + 1
    /\ MeterBracketsDelivery

\* The meter counts the keystrokes read, and is read after receiver_loop ended.
Billing ==
    /\ bytes_in = Cardinality(DataRead)
    /\ hc # "run" => ReceiverDone
    /\ report # <<>> => hc = "reported"
    /\ InputBilled

IInv == TypeOK /\ Pipe /\ MeterPhase /\ Billing /\ PongsConserved

-----------------------------------------------------------------------------
\* At the start of a connection every variable has its type.
LEMMA TypeInit == Init => TypeOK
  BY ConnectionAssumption DEF Init, TypeOK, Kinds, ReceiverStates, SenderStates

\* Every step of receiver, sender, actor and handler keeps the types.
LEMMA TypeStep == TypeOK /\ [Next]_vars => TypeOK'
<1> SUFFICES ASSUME TypeOK, [Next]_vars PROVE TypeOK'
  OBVIOUS
<1> USE ConnectionAssumption DEF TypeOK, Kinds, ReceiverStates, SenderStates, stream,
        actorVars, senderVars
<1>1. CASE Client
  <2>1. CASE Drop
    BY <2>1, ZenonT(30) DEF Drop
  <2>2. ASSUME NEW k \in Kinds, ClientSends(k) PROVE TypeOK'
    <3>1. sent' \in Seq(Kinds) /\ Len(sent') = Len(sent) + 1
      BY <2>2 DEF ClientSends
    <3>2. nread' \in 0..Len(sent')
      BY <2>2, <3>1 DEF ClientSends
    <3> QED
      BY <2>2, <3>1, <3>2 DEF ClientSends
  <2> QED
    BY <1>1, <2>1, <2>2 DEF Client
<1>2. CASE Receiver
  <2>1. CASE RecvData
    BY <2>1 DEF RecvData, Recv
  <2>2. CASE RecvResize
    BY <2>2 DEF RecvResize, Recv
  <2>3. CASE RecvPing
    BY <2>3 DEF RecvPing, Recv
  <2>4. CASE RecvClose
    BY <2>4 DEF RecvClose, Recv
  <2>5. CASE RecvOther
    BY <2>5 DEF RecvOther, Recv
  <2>6. CASE RecvErr
    BY <2>6 DEF RecvErr
  <2>7. CASE SendInput
    <3>1. CASE actor = "gone"
      BY <2>7, <3>1 DEF SendInput
    <3>2. CASE actor # "gone"
      <4>1. /\ nread \in Nat /\ Len(input) \in Nat /\ Len(input) < InputCap
            /\ input' = Append(input, nread)
        BY <2>7, <3>2 DEF SendInput
      <4>2. input' \in Seq(Nat) /\ Len(input') <= InputCap
        BY <4>1
      <4> QED
        BY <2>7, <4>1, <4>2 DEF SendInput
    <3> QED
      BY <3>1, <3>2
  <2>8. CASE SendOob
    BY <2>8 DEF SendOob
  <2> QED
    BY <1>2, <2>1, <2>2, <2>3, <2>4, <2>5, <2>6, <2>7, <2>8 DEF Receiver
<1>3. CASE Actor
  <2>1. CASE ActorTop
    BY <2>1 DEF ActorTop
  <2>2. CASE ActorTake
    BY <2>2 DEF ActorTake
  <2>3. CASE ActorWritten
    BY <2>3 DEF ActorWritten
  <2>4. CASE ActorEnds
    BY <2>4 DEF ActorEnds
  <2> QED
    BY <1>3, <2>1, <2>2, <2>3, <2>4 DEF Actor
<1>4. CASE Sender
  <2>1. CASE NextChunk
    BY <2>1 DEF NextChunk
  <2>2. CASE Metered
    BY <2>2 DEF Metered
  <2>3. CASE DataSent
    BY <2>3 DEF DataSent
  <2>4. CASE NextEnd
    BY <2>4 DEF NextEnd
  <2>5. CASE ClosedSent
    BY <2>5 DEF ClosedSent
  <2>6. CASE TakeOob
    BY <2>6 DEF TakeOob
  <2>7. CASE OobClosed
    BY <2>7 DEF OobClosed
  <2>8. CASE PongSent
    BY <2>8 DEF PongSent
  <2>9. CASE SendFails
    BY <2>9 DEF SendFails
  <2>10. CASE Aborted
    BY <2>10 DEF Aborted
  <2> QED
    BY <1>4, <2>1, <2>2, <2>3, <2>4, <2>5, <2>6, <2>7, <2>8, <2>9, <2>10 DEF Sender
<1>5. CASE Abort
  BY <1>5 DEF Abort
<1>6. CASE ReadTotals
  BY <1>6 DEF ReadTotals, report_usage
<1>7. CASE UNCHANGED vars
  BY <1>7 DEF vars
<1> QED
  BY <1>1, <1>2, <1>3, <1>4, <1>5, <1>6, <1>7 DEF Next

-----------------------------------------------------------------------------
(***************************************************************************)
(* The way of the input.                                                   *)
(***************************************************************************)

\* An empty channel holds nothing and is in order.
LEMMA EmptyElements == Elements(<<>>) = {} /\ Ascending(<<>>)
  BY DEF Elements, Ascending

\* What appending does to the elements of a sequence.
LEMMA AppendElements ==
    ASSUME NEW s \in Seq(Nat), NEW e \in Nat
    PROVE  /\ Elements(Append(s, e)) = Elements(s) \cup {e}
           /\ Ascending(s) /\ Precede(Elements(s), {e}) => Ascending(Append(s, e))
<1>1. /\ Len(s) \in Nat /\ DOMAIN s = 1..Len(s)
      /\ DOMAIN Append(s, e) = 1..(Len(s) + 1)
      /\ \A i \in 1..Len(s) : Append(s, e)[i] = s[i]
      /\ Append(s, e)[Len(s) + 1] = e
  OBVIOUS
<1>2. Elements(Append(s, e)) = Elements(s) \cup {e}
  <2>1. ASSUME NEW x \in Elements(Append(s, e)) PROVE x \in Elements(s) \cup {e}
    BY <1>1 DEF Elements
  <2>2. ASSUME NEW x \in Elements(s) PROVE x \in Elements(Append(s, e))
    <3>1. PICK i \in 1..Len(s) : x = s[i]
      BY <1>1 DEF Elements
    <3>2. i \in DOMAIN Append(s, e) /\ Append(s, e)[i] = x
      BY <1>1, <3>1
    <3> QED
      BY <3>2 DEF Elements
  <2>3. e \in Elements(Append(s, e))
    <3>1. Len(s) + 1 \in DOMAIN Append(s, e)
      BY <1>1
    <3> QED
      BY <1>1, <3>1 DEF Elements
  <2> QED
    BY <2>1, <2>2, <2>3
<1>3. ASSUME Ascending(s), Precede(Elements(s), {e}) PROVE Ascending(Append(s, e))
  BY <1>1, <1>3 DEF Ascending, Precede, Elements
<1> QED
  BY <1>2, <1>3

\* What taking the head does to the elements of a sequence.
LEMMA TailElements ==
    ASSUME NEW s \in Seq(Nat), s # <<>>
    PROVE  /\ Head(s) \in Nat
           /\ Elements(s) = {Head(s)} \cup Elements(Tail(s))
           /\ Ascending(s) => Ascending(Tail(s)) /\ Precede({Head(s)}, Elements(Tail(s)))
<1>1. /\ Len(s) \in Nat \ {0} /\ DOMAIN s = 1..Len(s)
      /\ DOMAIN Tail(s) = 1..(Len(s) - 1)
      /\ \A i \in 1..(Len(s) - 1) : Tail(s)[i] = s[i + 1]
      /\ Head(s) = s[1] /\ s[1] \in Nat
  OBVIOUS
<1>2. Elements(s) = {Head(s)} \cup Elements(Tail(s))
  <2>1. ASSUME NEW x \in Elements(s), x # Head(s) PROVE x \in Elements(Tail(s))
    <3>1. PICK i \in 1..Len(s) : x = s[i]
      BY <1>1 DEF Elements
    <3>2. i # 1
      BY <1>1, <2>1, <3>1
    <3>3. i - 1 \in 1..(Len(s) - 1) /\ (i - 1) + 1 = i
      BY <1>1, <3>2
    <3>4. Tail(s)[i - 1] = x
      BY <1>1, <3>1, <3>3
    <3> QED
      BY <1>1, <3>3, <3>4 DEF Elements
  <2>2. ASSUME NEW x \in Elements(Tail(s)) PROVE x \in Elements(s)
    BY <1>1 DEF Elements
  <2>3. Head(s) \in Elements(s)
    BY <1>1 DEF Elements
  <2> QED
    BY <2>1, <2>2, <2>3
<1>3. ASSUME Ascending(s) PROVE Ascending(Tail(s)) /\ Precede({Head(s)}, Elements(Tail(s)))
  <2>1. Ascending(Tail(s))
    <3> SUFFICES ASSUME NEW i \in DOMAIN Tail(s), NEW j \in DOMAIN Tail(s), i < j
                 PROVE  Tail(s)[i] < Tail(s)[j]
      BY DEF Ascending
    <3>1. i + 1 \in DOMAIN s /\ j + 1 \in DOMAIN s /\ i + 1 < j + 1
      BY <1>1, SMTT(30)
    <3>2. s[i + 1] < s[j + 1]
      BY <1>3, <3>1 DEF Ascending
    <3> QED
      BY <1>1, <3>2
  <2>2. Precede({Head(s)}, Elements(Tail(s)))
    <3> SUFFICES ASSUME NEW i \in DOMAIN Tail(s) PROVE s[1] < Tail(s)[i]
      BY <1>1 DEF Precede, Elements
    <3>1. 1 \in DOMAIN s /\ i + 1 \in DOMAIN s /\ 1 < i + 1
      BY <1>1
    <3>2. s[1] < s[i + 1]
      BY <1>3, <3>1 DEF Ascending
    <3> QED
      BY <1>1, <3>2
  <2> QED
    BY <2>1, <2>2
<1> QED
  BY <1>1, <1>2, <1>3

\* What has no part in the way of the input to the target.
LEMMA PipeQuiet ==
    ASSUME Pipe,
           UNCHANGED <<sent, nread, rcv, input, actor, current, pending, applied>>
    PROVE  Pipe'
  BY DEF Pipe, ActorPhase, PipeOrder, PipeComplete, InputInOrder, InHand, Held

\* receiver_loop reads a frame, which it holds if it is input.
LEMMA PipeRecv ==
    ASSUME TypeOK, Pipe, NEW k \in Kinds, Recv(k),
           rcv' = "input" <=> k \in Inputs
    PROVE  Pipe'
<1>1. /\ Held = {} /\ Held' = IF k \in Inputs THEN {nread + 1} ELSE {}
      /\ nread \in Nat /\ nread' = nread + 1 /\ sent' = sent /\ sent[nread + 1] = k
      /\ UNCHANGED <<input, actor, current, pending, applied>>
      /\ InHand' = InHand
  BY DEF TypeOK, Recv, Held, InHand, actorVars
<1>2. ActorPhase'
  BY <1>1 DEF Pipe, ActorPhase
<1>3. PipeOrder'
  BY <1>1 DEF Pipe, PipeOrder, InputInOrder, Precede
<1>4. PipeComplete'
  <2> SUFFICES ASSUME actor # "gone", NEW f \in 1..(nread + 1), sent[f] \in Inputs
               PROVE  f \in Elements(applied) \cup InHand \cup Elements(input) \cup Held'
    BY <1>1 DEF PipeComplete
  <2>1. CASE f = nread + 1
    BY <1>1, <2>1
  <2>2. CASE f \in 1..nread
    BY <1>1, <2>2 DEF Pipe, PipeComplete
  <2> QED
    BY <1>1, <2>1, <2>2
<1>5. InputInOrder'
  BY <1>1 DEF Pipe, InputInOrder
<1> QED
  BY <1>2, <1>3, <1>4, <1>5 DEF Pipe

\* The actor applies the frame in its hand: it is newer than what was applied,
\* and every older input frame was applied, for the later stages hold newer ones.
LEMMA PipeApply ==
    ASSUME TypeOK, Pipe, ActorPhase', NEW x \in Nat,
           InHand = {x}, InHand' = {}, Held' = Held, actor # "gone",
           applied' = Append(applied, x),
           UNCHANGED <<sent, nread, input>>
    PROVE  Pipe'
<1>1. Elements(applied') = Elements(applied) \cup {x}
  BY AppendElements DEF TypeOK
<1>2. x \in 1..nread /\ Precede(Elements(applied), {x}) /\ Precede({x}, Elements(input) \cup Held)
  BY DEF Pipe, PipeOrder, Precede
<1>3. Ascending(applied')
  BY <1>2, AppendElements DEF TypeOK, Pipe, InputInOrder
<1>4. PipeOrder'
  BY <1>1, <1>2 DEF Pipe, PipeOrder, Precede
<1>5. {f \in 1..nread : sent[f] \in Inputs}
          \subseteq Elements(applied') \cup Elements(input) \cup Held
  BY <1>1 DEF Pipe, PipeComplete
<1>6. PipeComplete'
  BY <1>5 DEF PipeComplete
<1>7. ASSUME NEW g \in 1..x, sent[g] \in Inputs PROVE g \in Elements(applied')
  <2>1. g \in 1..nread /\ g \notin Elements(input) \cup Held
    BY <1>2 DEF TypeOK, Precede
  <2> QED
    BY <1>5, <1>7, <2>1
<1>8. InputInOrder'
  <2>1. ASSUME NEW f \in Elements(applied')
        PROVE  f \in 1..nread /\ {g \in 1..f : sent[g] \in Inputs} \subseteq Elements(applied')
    <3>1. CASE f = x
      BY <1>2, <1>7, <3>1
    <3>2. CASE f \in Elements(applied)
      BY <1>1, <3>2 DEF Pipe, InputInOrder
    <3> QED
      BY <1>1, <3>1, <3>2
  <2> QED
    BY <1>3, <2>1 DEF InputInOrder
<1> QED
  BY <1>4, <1>6, <1>8 DEF Pipe

\* Every step keeps the input in order and complete over the stages of its way.
LEMMA PipeStep == TypeOK /\ Pipe /\ [Next]_vars => Pipe'
<1> SUFFICES ASSUME TypeOK, Pipe, [Next]_vars PROVE Pipe'
  OBVIOUS
<1>1. CASE Client
  <2>1. CASE Drop
    BY <2>1, PipeQuiet DEF Drop, actorVars
  <2>2. ASSUME NEW k \in Kinds, ClientSends(k) PROVE Pipe'
    <3> USE <2>2 DEF TypeOK, ClientSends, actorVars
    <3>1. ActorPhase' /\ PipeOrder'
      BY DEF Pipe, ActorPhase, PipeOrder, InHand, Held
    <3>2. \A f \in 1..nread : sent'[f] = sent[f]
      OBVIOUS
    <3>3. PipeComplete'
      BY <3>2 DEF Pipe, PipeComplete, InHand, Held
    <3>4. InputInOrder'
      BY <3>2 DEF Pipe, InputInOrder
    <3> QED
      BY <3>1, <3>3, <3>4 DEF Pipe
  <2> QED
    BY <1>1, <2>1, <2>2 DEF Client
<1>2. CASE Receiver
  <2>1. CASE RecvData
    BY <2>1, PipeRecv DEF RecvData, Kinds, Inputs
  <2>2. CASE RecvResize
    BY <2>2, PipeRecv DEF RecvResize, Kinds, Inputs
  <2>3. CASE RecvPing
    BY <2>3, PipeRecv DEF RecvPing, Kinds, Inputs
  <2>4. CASE RecvClose
    BY <2>4, PipeRecv DEF RecvClose, Kinds, Inputs
  <2>5. CASE RecvOther
    <3>1. Recv("Other") /\ rcv' # "input"
      BY <2>5 DEF RecvOther, Recv
    <3> QED
      BY <3>1, PipeRecv DEF Kinds, Inputs
  <2>6. CASE RecvErr
    <3> USE <2>6 DEF RecvErr, stream, actorVars
    <3>1. Held' = Held
      BY DEF Held
    <3> QED
      BY <3>1 DEF Pipe, ActorPhase, PipeOrder, PipeComplete, InputInOrder, InHand
  <2>7. CASE SendInput
    <3> USE <2>7 DEF TypeOK, SendInput, stream, actorVars
    <3>1. Held = {nread} /\ Held' = {} /\ InHand' = InHand
      BY DEF Held, InHand
    <3>2. CASE actor = "gone"
      BY <3>1, <3>2 DEF Pipe, ActorPhase, PipeOrder, PipeComplete, InputInOrder, Precede
    <3>3. CASE actor # "gone"
      <4>1. /\ nread \in Nat /\ input' = Append(input, nread)
            /\ Precede(Elements(input), {nread}) /\ Ascending(input)
        BY <3>1, <3>3 DEF Pipe, PipeOrder
      <4>2. Elements(input') = Elements(input) \cup {nread} /\ Ascending(input')
        BY <4>1, AppendElements
      <4>3. ActorPhase'
        BY <3>3 DEF Pipe, ActorPhase
      <4>4. PipeOrder'
        BY <3>1, <4>1, <4>2 DEF Pipe, PipeOrder, Precede
      <4>5. PipeComplete'
        BY <3>1, <4>2 DEF Pipe, PipeComplete
      <4>6. InputInOrder'
        BY DEF Pipe, InputInOrder
      <4> QED
        BY <4>3, <4>4, <4>5, <4>6 DEF Pipe
    <3> QED
      BY <3>2, <3>3
  <2>8. CASE SendOob
    <3> USE <2>8 DEF SendOob, stream, actorVars
    <3>1. Held' = Held
      BY DEF Held
    <3> QED
      BY <3>1 DEF Pipe, ActorPhase, PipeOrder, PipeComplete, InputInOrder, InHand
  <2> QED
    BY <1>2, <2>1, <2>2, <2>3, <2>4, <2>5, <2>6, <2>7, <2>8 DEF Receiver
<1>3. CASE Actor
  <2>1. CASE ActorTop
    <3>1. CASE pending = 0
      <4> USE <2>1, <3>1 DEF TypeOK, ActorTop, stream
      <4>1. InHand' = InHand /\ Held' = Held
        BY DEF InHand, Held
      <4> QED
        BY <4>1 DEF Pipe, ActorPhase, PipeOrder, PipeComplete, InputInOrder
    <3>2. CASE pending # 0
      <4>1. /\ InHand = {pending} /\ InHand' = {} /\ Held' = Held
            /\ applied' = Append(applied, pending)
        BY <2>1, <3>2 DEF TypeOK, ActorTop, stream, InHand, Held, Pipe, ActorPhase
      <4>2. ActorPhase'
        BY <2>1, <3>2 DEF TypeOK, ActorTop, Pipe, ActorPhase
      <4> QED
        BY <2>1, <4>1, <4>2, PipeApply DEF ActorTop, stream, TypeOK
    <3> QED
      BY <3>1, <3>2
  <2>2. CASE ActorTake
    <3> USE <2>2 DEF ActorTake, stream
    <3>1. /\ Head(input) \in Nat
          /\ Elements(input) = {Head(input)} \cup Elements(input')
          /\ Ascending(input') /\ Precede({Head(input)}, Elements(input'))
      BY TailElements DEF TypeOK, Pipe, PipeOrder
    <3>2. current = 0 /\ pending = 0 /\ actor # "gone"
      BY DEF Pipe, ActorPhase
    <3>3. Head(input) # 0
      BY <3>1 DEF TypeOK, Pipe, PipeOrder
    <3>4. InHand = {} /\ InHand' = {Head(input)} /\ Held' = Held
      BY <3>2, <3>3 DEF InHand, Held
    <3>5. ActorPhase'
      BY <3>2, <3>3 DEF ActorPhase
    <3>6. PipeOrder'
      BY <3>1, <3>4 DEF Pipe, PipeOrder, Precede
    <3>7. PipeComplete'
      BY <3>1, <3>2, <3>4 DEF Pipe, PipeComplete
    <3>8. InputInOrder'
      BY DEF Pipe, InputInOrder
    <3> QED
      BY <3>5, <3>6, <3>7, <3>8 DEF Pipe
  <2>3. CASE ActorWritten
    <3>1. /\ current # 0 /\ pending = 0
          /\ InHand = {current} /\ InHand' = {} /\ Held' = Held
      BY <2>3 DEF TypeOK, ActorWritten, stream, InHand, Held, Pipe, ActorPhase
    <3>2. ActorPhase'
      BY <2>3, <3>1 DEF ActorWritten, Pipe, ActorPhase
    <3> QED
      BY <2>3, <3>1, <3>2, PipeApply DEF ActorWritten, stream, TypeOK
  <2>4. CASE ActorEnds
    <3> USE <2>4 DEF ActorEnds, stream
    <3>1. pending = 0 /\ InHand' = {} /\ Held' = Held
      BY DEF Pipe, ActorPhase, InHand, Held
    <3>2. ActorPhase' /\ PipeComplete'
      BY <3>1 DEF ActorPhase, PipeComplete
    <3>3. PipeOrder'
      BY <3>1, EmptyElements DEF Pipe, PipeOrder, Precede
    <3>4. InputInOrder'
      BY DEF Pipe, InputInOrder
    <3> QED
      BY <3>2, <3>3, <3>4 DEF Pipe
  <2> QED
    BY <1>3, <2>1, <2>2, <2>3, <2>4 DEF Actor
<1>4. CASE Sender
  BY <1>4, PipeQuiet DEF Sender, NextChunk, Metered, DataSent, NextEnd, ClosedSent, TakeOob,
     OobClosed, PongSent, SendFails, Aborted, stream, actorVars
<1>5. CASE Abort \/ ReadTotals
  BY <1>5, PipeQuiet DEF Abort, ReadTotals, stream, actorVars
<1>6. CASE UNCHANGED vars
  BY <1>6, PipeQuiet DEF vars
<1> QED
  BY <1>1, <1>2, <1>3, <1>4, <1>5, <1>6 DEF Next

-----------------------------------------------------------------------------
(***************************************************************************)
(* The meter, the report and the Pongs.                                    *)
(***************************************************************************)

\* Every step keeps meter and delivery as far apart as the sender's await says.
LEMMA MeterStep == TypeOK /\ MeterPhase /\ [Next]_vars => MeterPhase'
<1> SUFFICES ASSUME TypeOK, MeterPhase, [Next]_vars PROVE MeterPhase'
  OBVIOUS
<1> USE DEF TypeOK, MeterPhase, MeterBracketsDelivery, stream, actorVars, senderVars, SenderGone
<1>1. CASE Client
  BY <1>1 DEF Client, Drop, ClientSends
<1>2. CASE Receiver
  BY <1>2 DEF Receiver, RecvData, RecvResize, RecvPing, RecvClose, RecvOther, RecvErr, Recv,
     SendInput, SendOob
<1>3. CASE Actor
  BY <1>3 DEF Actor, ActorTop, ActorTake, ActorWritten, ActorEnds
<1>4. CASE Sender
  <2>1. CASE NextChunk \/ Metered \/ DataSent
    BY <2>1, SMTT(30) DEF NextChunk, Metered, DataSent
  <2>2. CASE NextEnd \/ ClosedSent \/ TakeOob \/ OobClosed
    BY <2>2 DEF NextEnd, ClosedSent, TakeOob, OobClosed
  <2>3. CASE PongSent \/ SendFails \/ Aborted
    BY <2>3 DEF PongSent, SendFails, Aborted
  <2> QED
    BY <1>4, <2>1, <2>2, <2>3 DEF Sender
<1>5. CASE Abort \/ ReadTotals
  BY <1>5 DEF Abort, ReadTotals
<1>6. CASE UNCHANGED vars
  BY <1>6 DEF vars
<1> QED
  BY <1>1, <1>2, <1>3, <1>4, <1>5, <1>6 DEF Next

\* Reading a frame adds to the keystrokes read exactly when it is Data.
LEMMA DataReadRecv ==
    ASSUME TypeOK, NEW k \in Kinds, Recv(k)
    PROVE  /\ k # "Data" => DataRead' = DataRead
           /\ k = "Data" => Cardinality(DataRead') = Cardinality(DataRead) + 1
<1>1. nread \in Nat /\ nread' = nread + 1 /\ sent' = sent /\ sent[nread + 1] = k
  BY DEF TypeOK, Recv
<1>2. DataRead' = DataRead \cup (IF k = "Data" THEN {nread + 1} ELSE {})
  <2>1. ASSUME NEW f \in 1..(nread + 1) PROVE f \in 1..nread \/ f = nread + 1
    BY <1>1
  <2> QED
    BY <1>1, <2>1 DEF DataRead
<1>3. IsFiniteSet(DataRead)
  <2>1. IsFiniteSet(1..nread)
    BY <1>1, FS_Interval
  <2> QED
    BY <2>1, FS_Subset DEF DataRead
<1>4. nread + 1 \notin DataRead
  BY <1>1 DEF DataRead
<1>5. CASE k # "Data"
  BY <1>2, <1>5
<1>6. CASE k = "Data"
  <2>1. DataRead' = DataRead \cup {nread + 1}
    BY <1>2, <1>6
  <2>2. Cardinality(DataRead \cup {nread + 1}) = Cardinality(DataRead) + 1
    BY <1>3, <1>4, FS_AddElement
  <2> QED
    BY <1>6, <2>1, <2>2
<1> QED
  BY <1>5, <1>6

\* Every step keeps the input meter equal to the keystrokes read.
LEMMA BillingStep == TypeOK /\ Billing /\ [Next]_vars => Billing'
<1> SUFFICES ASSUME TypeOK, Billing, [Next]_vars PROVE Billing'
  OBVIOUS
<1>q. ASSUME DataRead' = DataRead, UNCHANGED <<bytes_in, hc, report>>,
             ReceiverDone => ReceiverDone'
      PROVE  Billing'
  BY <1>q DEF Billing, InputBilled
<1>1. CASE Client
  <2>1. CASE Drop
    BY <1>q, <2>1 DEF Drop, DataRead, ReceiverDone
  <2>2. ASSUME NEW k \in Kinds, ClientSends(k) PROVE Billing'
    <3>1. nread' = nread /\ \A f \in 1..nread : sent'[f] = sent[f]
      BY <2>2 DEF TypeOK, ClientSends
    <3>2. DataRead' = DataRead
      BY <3>1 DEF DataRead
    <3> QED
      BY <1>q, <2>2, <3>2 DEF ClientSends, ReceiverDone
  <2> QED
    BY <1>1, <2>1, <2>2 DEF Client
<1>2. CASE Receiver
  <2>1. CASE RecvData
    <3>1. Cardinality(DataRead') = Cardinality(DataRead) + 1
      BY <2>1, DataReadRecv DEF RecvData, Kinds
    <3>2. rcv = "recv" /\ bytes_in' = bytes_in + 1 /\ UNCHANGED <<hc, report>>
      BY <2>1 DEF RecvData, Recv
    <3>3. hc = "run" /\ report = <<>>
      BY <3>2 DEF TypeOK, Billing, ReceiverDone
    <3> QED
      BY <3>1, <3>2, <3>3 DEF Billing, InputBilled
  <2>2. CASE RecvResize
    BY <1>q, <2>2, DataReadRecv DEF RecvResize, Recv, Kinds, ReceiverDone
  <2>3. CASE RecvPing
    BY <1>q, <2>3, DataReadRecv DEF RecvPing, Recv, Kinds, ReceiverDone
  <2>4. CASE RecvClose
    BY <1>q, <2>4, DataReadRecv DEF RecvClose, Recv, Kinds, ReceiverDone
  <2>5. CASE RecvOther
    BY <1>q, <2>5, DataReadRecv DEF RecvOther, Recv, Kinds, ReceiverDone
  <2>6. CASE RecvErr \/ SendInput \/ SendOob
    BY <1>q, <2>6 DEF RecvErr, SendInput, SendOob, stream, DataRead, ReceiverDone
  <2> QED
    BY <1>2, <2>1, <2>2, <2>3, <2>4, <2>5, <2>6 DEF Receiver
<1>3. CASE Actor
  BY <1>q, <1>3 DEF Actor, ActorTop, ActorTake, ActorWritten, ActorEnds, stream, DataRead,
     ReceiverDone
<1>4. CASE Sender
  BY <1>q, <1>4 DEF Sender, NextChunk, Metered, DataSent, NextEnd, ClosedSent, TakeOob,
     OobClosed, PongSent, SendFails, Aborted, stream, DataRead, ReceiverDone
<1>5. CASE Abort
  <2>1. DataRead' = DataRead
    BY <1>5 DEF Abort, stream, DataRead
  <2> QED
    BY <1>5, <2>1 DEF Abort, Billing, InputBilled, ReceiverDone
<1>6. CASE ReadTotals
  <2>1. DataRead' = DataRead
    BY <1>6 DEF ReadTotals, stream, DataRead
  <2>2. /\ hc = "totals" /\ hc' = "reported" /\ bytes_in' = bytes_in /\ rcv' = rcv
        /\ report' = report_usage(bytes_in, bytes_out) /\ bytes_in \in Nat
    BY <1>6 DEF ReadTotals, TypeOK
  <2>3. (IF report' = <<>> THEN 0 ELSE report'[1]) = bytes_in
    BY <2>2 DEF report_usage
  <2> QED
    BY <2>1, <2>2, <2>3 DEF Billing, InputBilled, ReceiverDone
<1>7. CASE UNCHANGED vars
  BY <1>q, <1>7 DEF vars, DataRead, ReceiverDone
<1> QED
  BY <1>1, <1>2, <1>3, <1>4, <1>5, <1>6, <1>7 DEF Next

\* Every step keeps the Pongs owed, queued and sent in balance.
LEMMA PongStep == TypeOK /\ PongsConserved /\ [Next]_vars => PongsConserved'
<1> SUFFICES ASSUME TypeOK, PongsConserved, [Next]_vars PROVE PongsConserved'
  OBVIOUS
<1> USE DEF TypeOK, PongsConserved, stream, actorVars, senderVars, SenderGone
<1>1. CASE Client
  BY <1>1 DEF Client, Drop, ClientSends
<1>2. CASE Receiver
  <2>1. CASE RecvData \/ RecvResize \/ RecvClose \/ RecvOther
    BY <2>1 DEF RecvData, RecvResize, RecvClose, RecvOther, Recv
  <2>2. CASE RecvPing
    BY <2>2 DEF RecvPing, Recv
  <2>3. CASE RecvErr \/ SendInput
    BY <2>3 DEF RecvErr, SendInput
  <2>4. CASE SendOob
    <3>1. /\ rcv = "oob" /\ rcv' = "recv" /\ snd' = snd
          /\ UNCHANGED <<pings, pongs>> /\ (~SenderGone => oob' = oob + 1)
      BY <2>4 DEF SendOob
    <3>2. CASE SenderGone
      BY <3>1, <3>2
    <3>3. CASE ~SenderGone
      BY <3>1, <3>3
    <3> QED
      BY <3>2, <3>3
  <2> QED
    BY <1>2, <2>1, <2>2, <2>3, <2>4 DEF Receiver
<1>3. CASE Actor
  BY <1>3 DEF Actor, ActorTop, ActorTake, ActorWritten, ActorEnds
<1>4. CASE Sender
  <2>1. CASE NextChunk \/ Metered \/ DataSent \/ NextEnd \/ OobClosed
    BY <2>1 DEF NextChunk, Metered, DataSent, NextEnd, OobClosed
  <2>2. CASE TakeOob
    BY <2>2 DEF TakeOob
  <2>3. CASE PongSent
    BY <2>3 DEF PongSent
  <2>4. CASE ClosedSent \/ SendFails \/ Aborted
    BY <2>4 DEF ClosedSent, SendFails, Aborted
  <2> QED
    BY <1>4, <2>1, <2>2, <2>3, <2>4 DEF Sender
<1>5. CASE Abort \/ ReadTotals
  BY <1>5 DEF Abort, ReadTotals
<1>6. CASE UNCHANGED vars
  BY <1>6 DEF vars
<1> QED
  BY <1>1, <1>2, <1>3, <1>4, <1>5, <1>6 DEF Next

-----------------------------------------------------------------------------
(***************************************************************************)
(* The theorems.                                                           *)
(***************************************************************************)

\* A connection starts with empty channels and meters.
LEMMA InvariantInit == Init => IInv
<1> SUFFICES ASSUME Init PROVE IInv
  OBVIOUS
<1> USE DEF Init
<1>1. TypeOK
  BY TypeInit
<1>2. InHand = {} /\ Held = {} /\ Elements(input) = {} /\ Elements(applied) = {}
  BY EmptyElements DEF InHand, Held
<1>3. Pipe
  BY <1>2, EmptyElements DEF Pipe, ActorPhase, PipeOrder, PipeComplete, InputInOrder, Precede
<1>4. MeterPhase
  BY DEF MeterPhase, MeterBracketsDelivery
<1>5. Billing
  <2>1. \A f \in 1..nread : FALSE
    OBVIOUS
  <2>2. DataRead = {}
    BY <2>1 DEF DataRead
  <2>3. Cardinality({}) = 0
    BY FS_EmptySet
  <2> QED
    BY <2>2, <2>3 DEF Billing, InputBilled, ReceiverDone
<1>6. PongsConserved
  BY DEF PongsConserved
<1> QED
  BY <1>1, <1>3, <1>4, <1>5, <1>6 DEF IInv

\* The invariant that all of the following rest on.
THEOREM Invariance == Spec => []IInv
<1>1. IInv /\ [Next]_vars => IInv'
  BY TypeStep, PipeStep, MeterStep, BillingStep, PongStep DEF IInv
<1> QED
  BY InvariantInit, <1>1, PTL DEF Spec

\* The data plane keeps its types; in particular no channel exceeds its
\* capacity (handler.rs:71, gw-ssh lib.rs:222).
THEOREM TypeCorrect == Spec => []TypeOK
<1>1. IInv => TypeOK
  BY DEF IInv
<1> QED
  BY Invariance, <1>1, PTL

\* Keystrokes and resizes reach the target in the client's order, none skipped,
\* for every capacity of the input channel (handler.rs:361-374, gw-ssh
\* lib.rs:236-270).
THEOREM InputStaysInOrder == Spec => []InputInOrder
<1>1. IInv => InputInOrder
  BY DEF IInv, Pipe
<1> QED
  BY Invariance, <1>1, PTL

\* The meter is never behind what was delivered and at most one chunk ahead
\* (handler.rs:314-320).
THEOREM MeterIsClose == Spec => []MeterBracketsDelivery
<1>1. IInv => MeterBracketsDelivery
  BY DEF IInv, MeterPhase
<1> QED
  BY Invariance, <1>1, PTL

\* The usage report covers exactly the keystrokes read (handler.rs:79-87).
THEOREM KeystrokesAreBilled == Spec => []InputBilled
<1>1. IInv => InputBilled
  BY DEF IInv, Billing
<1> QED
  BY Invariance, <1>1, PTL

\* Pongs are neither lost nor invented while the sender lives (handler.rs:313-333,
\* 375-377).
THEOREM NoPongIsLost == Spec => []PongsConserved
<1>1. IInv => PongsConserved
  BY DEF IInv
<1> QED
  BY Invariance, <1>1, PTL
-----------------------------------------------------------------------------
(***************************************************************************)
(* The token bucket that holds sender_task in its state "throttle": a      *)
(* specification of its own (Throttle), with its own inductive invariant.  *)
(***************************************************************************)

\* What the bucket would hold if it were refilled now.
Available == Lesser(tokens + since * rate, capacity)

\* While a window is open, what was let through in it and what is available now
\* are within the cap together: each tick adds at most rate to both sides, and
\* letting a chunk through moves bytes from one to the other.
Budget ==
    /\ win < MaxWindow => passed + Available <= capacity + rate * win
    /\ BandwidthCap

BucketInv == BucketTypeOK /\ Budget

\* TokenBucket::new makes both parameters positive.
LEMMA Parameters == capacity \in Nat /\ capacity >= 1 /\ rate \in Nat /\ rate >= 1
  BY ThrottleAssumption DEF capacity, rate, AtLeastOne

\* What is available is between zero and the capacity.
LEMMA AvailableType == BucketTypeOK => Available \in 0..capacity
<1> SUFFICES ASSUME BucketTypeOK PROVE Available \in 0..capacity
  OBVIOUS
<1>1. tokens \in 0..capacity /\ since \in Nat /\ capacity \in Nat /\ rate \in Nat
  BY Parameters DEF BucketTypeOK
<1>2. since * rate \in Nat
  BY <1>1
<1>3. QED
  BY <1>1, <1>2 DEF Available, Lesser

\* A fresh bucket has let nothing through.
LEMMA BucketInvInit == BucketInit => BucketInv
<1> SUFFICES ASSUME BucketInit PROVE BucketInv
  OBVIOUS
<1>1. BucketTypeOK
  BY Parameters, ThrottleAssumption DEF BucketInit, BucketTypeOK
<1>2. rate * win \in Nat
  BY Parameters, ThrottleAssumption DEF BucketInit
<1>3. Budget
  BY <1>2, Parameters, ThrottleAssumption DEF BucketInit, Budget, BandwidthCap
<1>4. QED
  BY <1>1, <1>3 DEF BucketInv

\* The computed sleep is a natural number of ticks.
LEMMA SleepType ==
    ASSUME NEW n \in 0..MaxChunk, NEW t \in 0..capacity, ~(t >= n)
    PROVE  time_until(n, t) \subseteq Nat
<1> DEFINE need == Lesser(n, capacity) - t
<1>1. capacity \in Nat /\ rate \in Nat /\ rate >= 1 /\ n \in Nat /\ t \in Nat
  BY Parameters, ThrottleAssumption
<1>2. need \in Nat
  BY <1>1 DEF Lesser
<1> HIDE DEF need
<1>3. need \div rate \in Nat /\ (need + rate - 1) \div rate \in Nat
  BY <1>1, <1>2
<1>4. QED
  BY <1>3 DEF time_until, need

\* One turn of throttle's loop neither creates tokens nor budget.
LEMMA AttemptPreserves == ASSUME BucketInv, Attempt PROVE BucketInv'
<1> USE DEF BucketInv
<1> DEFINE t == refill(since)
<1>1. /\ t = Available /\ t \in 0..capacity /\ t \in Nat
      /\ capacity \in Nat /\ rate \in Nat /\ win \in Nat /\ amount \in 0..MaxChunk
      /\ amount \in Nat /\ passed \in Nat /\ MaxChunk \in Nat
  BY AvailableType, Parameters, ThrottleAssumption DEF refill, Available, BucketTypeOK
<1>2. rate * win \in Nat
  BY <1>1
<1>3. win' = win /\ amount' = amount /\ since' = 0
  BY DEF Attempt
<1>4. CASE t >= amount
  <2>1. /\ phase' = "idle" /\ tokens' = t - amount /\ wait' = wait
        /\ passed' = IF win < MaxWindow THEN passed + amount ELSE passed
    BY <1>4 DEF Attempt
  <2> HIDE DEF t
  <2>2. BucketTypeOK'
    BY <1>1, <1>3, <1>4, <2>1 DEF BucketTypeOK
  <2>3. Available' = t - amount
    BY <1>1, <1>3, <1>4, <2>1 DEF Available, Lesser
  <2>4. Budget'
    BY <1>1, <1>2, <1>3, <1>4, <2>1, <2>3 DEF Budget, BandwidthCap
  <2>5. QED
    BY <2>2, <2>4
<1>5. CASE ~(t >= amount)
  <2>1. /\ phase' = "sleep" /\ tokens' = t /\ passed' = passed
        /\ wait' \in time_until(amount, t)
    BY <1>5 DEF Attempt
  <2> HIDE DEF t
  <2>2. wait' \in Nat
    BY <1>1, <1>5, <2>1, SleepType
  <2>3. BucketTypeOK'
    BY <1>1, <1>3, <2>1, <2>2 DEF BucketTypeOK
  <2>4. Available' = t
    BY <1>1, <1>3, <2>1 DEF Available, Lesser
  <2>5. Budget'
    BY <1>1, <1>2, <1>3, <2>1, <2>4 DEF Budget, BandwidthCap
  <2>6. QED
    BY <2>3, <2>5
<1>6. QED
  BY <1>4, <1>5

\* A tick adds at most rate to what is available and rate to the allowance.
LEMMA TickPreserves == ASSUME BucketInv, Tick PROVE BucketInv'
<1> USE DEF BucketInv
<1>1. /\ capacity \in Nat /\ rate \in Nat /\ win \in 0..MaxWindow /\ passed \in Nat
      /\ tokens \in Nat /\ since \in Nat /\ MaxWindow \in Nat /\ win \in Nat
  BY Parameters, ThrottleAssumption DEF BucketTypeOK
<1>2. /\ since' = since + 1 /\ tokens' = tokens /\ passed' = passed
      /\ win' = IF win < MaxWindow THEN win + 1 ELSE win
      /\ wait' = IF wait > 0 THEN wait - 1 ELSE 0
      /\ phase' = phase /\ amount' = amount
  BY DEF Tick
<1>3. BucketTypeOK'
  BY <1>1, <1>2 DEF BucketTypeOK
<1>4. CASE win < MaxWindow
  <2>1. since * rate \in Nat /\ (since + 1) * rate = since * rate + rate
    BY <1>1
  <2>2. rate * win \in Nat /\ rate * (win + 1) = rate * win + rate
    BY <1>1
  <2>3. Available' <= Available + rate /\ Available' \in Nat /\ Available \in Nat
    BY <1>1, <1>2, <2>1 DEF Available, Lesser
  <2>4. passed + Available <= capacity + rate * win
    BY <1>4 DEF Budget
  <2>5. win' = win + 1
    BY <1>2, <1>4
  <2>6. rate * win' = rate * win + rate
    BY <2>2, <2>5
  <2>7. passed + Available' <= capacity + rate * win'
    BY <1>1, <2>2, <2>3, <2>4, <2>6
  <2>8. rate * win' \in Nat
    BY <1>1, <2>2, <2>6
  <2>9. passed <= capacity + rate * win'
    BY <1>1, <2>3, <2>7, <2>8
  <2>10. (win < MaxWindow => passed + Available <= capacity + rate * win)' /\ BandwidthCap'
    BY <1>2, <2>7, <2>9 DEF BandwidthCap
  <2>11. QED
    BY <1>3, <2>10 DEF Budget
<1>5. CASE ~(win < MaxWindow)
  <2>1. win' = win
    BY <1>2, <1>5
  <2>2. Budget'
    BY <1>2, <1>5, <2>1 DEF Budget, BandwidthCap
  <2>3. QED
    BY <1>3, <2>2
<1>6. QED
  BY <1>4, <1>5

\* A window opens with nothing let through.
LEMMA OpenWindowPreserves == ASSUME BucketInv, OpenWindow PROVE BucketInv'
<1> USE DEF BucketInv
<1>1. /\ capacity \in Nat /\ rate \in Nat /\ MaxWindow \in Nat
      /\ Available \in 0..capacity
  BY Parameters, ThrottleAssumption, AvailableType
<1>2. /\ win' = 0 /\ passed' = 0 /\ tokens' = tokens /\ since' = since
      /\ phase' = phase /\ amount' = amount /\ wait' = wait
  BY DEF OpenWindow
<1>3. BucketTypeOK'
  BY <1>1, <1>2 DEF BucketTypeOK
<1>4. Available' = Available /\ rate * win' = 0
  BY <1>1, <1>2 DEF Available
<1>5. Budget'
  BY <1>1, <1>2, <1>4 DEF Budget, BandwidthCap
<1>6. QED
  BY <1>3, <1>5

\* Every step preserves the inductive invariant.
LEMMA BucketInvStep == BucketInv /\ [BucketNext]_bucketVars => BucketInv'
<1> SUFFICES ASSUME BucketInv, [BucketNext]_bucketVars PROVE BucketInv'
  OBVIOUS
<1>1. ASSUME NEW n \in 1..MaxChunk, Chunk(n) PROVE BucketInv'
  BY <1>1, ThrottleAssumption DEF Chunk, BucketInv, BucketTypeOK, Budget, BandwidthCap, Available
<1>2. CASE Attempt
  BY <1>2, AttemptPreserves
<1>3. CASE WakeUp
  BY <1>3 DEF WakeUp, BucketInv, BucketTypeOK, Budget, BandwidthCap, Available
<1>4. CASE Tick
  BY <1>4, TickPreserves
<1>5. CASE OpenWindow
  BY <1>5, OpenWindowPreserves
<1>6. CASE UNCHANGED bucketVars
  BY <1>6 DEF bucketVars, BucketInv, BucketTypeOK, Budget, BandwidthCap, Available
<1>7. QED
  BY <1>1, <1>2, <1>3, <1>4, <1>5, <1>6 DEF BucketNext

-----------------------------------------------------------------------------
\* The bucket never holds more than its capacity and never goes negative, and
\* the other variables keep their types (TokenBucket).
THEOREM BucketTypeCorrect == BucketSpec => []BucketTypeOK
<1>1. BucketInv => BucketTypeOK
  BY DEF BucketInv
<1>2. QED
  BY <1>1, BucketInvInit, BucketInvStep, PTL DEF BucketSpec

\* The bandwidth cap holds in every window, for every rate, burst and chunk
\* size (TokenBucket driven by throttle).
THEOREM BandwidthIsCapped == BucketSpec => []BandwidthCap
<1>1. BucketInv => BandwidthCap
  BY DEF BucketInv, Budget
<1>2. QED
  BY <1>1, BucketInvInit, BucketInvStep, PTL DEF BucketSpec
=============================================================================
