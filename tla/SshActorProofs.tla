--------------------------- MODULE SshActorProofs ---------------------------
(***************************************************************************)
(* Invariants of SshActor, and that its output side implements Pipe, for   *)
(* every capacity and every bound.                                         *)
(***************************************************************************)
EXTENDS SshActor, TLAPS

-----------------------------------------------------------------------------
(***************************************************************************)
(* The inductive invariant.                                                *)
(***************************************************************************)

\* The chunks before the actor's hand, and the one in it.
Ahead == Len(log) + Len(output)
Held == IF actor = "send" THEN 1 ELSE 0

\* s holds the chunks k + 1, k + 2, and so on.
Counts(s, k) == \A i \in 1..Len(s) : s[i] = k + i

\* Session, output channel, hand and SSH channel hold the target's output,
\* oldest first, each going on where the one before it stops.
Numbering ==
    /\ Counts(log, 0)
    /\ Counts(output, Len(log))
    /\ actor = "send" => cur = Ahead + 1
    /\ Counts(chan, Ahead + Held)
    /\ wrote = Ahead + Held + Len(chan)

\* How the loop was left, and what is left behind it.
EndPhase ==
    /\ actor = "eof" => ended /\ chan = <<>>
    /\ closed => Gone /\ output = <<>>

\* The bounds on keystrokes and output.
Budget ==
    /\ Given <= MaxIn
    /\ owe => lockstep /\ taken > 0
    /\ wrote <= MaxOut + Echoes

IInv == TypeOK /\ Numbering /\ EndPhase /\ Budget

-----------------------------------------------------------------------------
\* Type and length of a queue after a chunk is put in.
LEMMA AppendFacts ==
    ASSUME NEW s \in Seq(Nat), NEW x \in Nat
    PROVE  /\ Append(s, x) \in Seq(Nat)
           /\ Len(Append(s, x)) = Len(s) + 1
  OBVIOUS

\* Types and lengths when a chunk is taken out.
LEMMA TailFacts ==
    ASSUME NEW s \in Seq(Nat), s # <<>>
    PROVE  /\ Head(s) \in Nat
           /\ Tail(s) \in Seq(Nat)
           /\ Len(s) >= 1
           /\ Len(Tail(s)) = Len(s) - 1
  OBVIOUS

\* A queue of consecutive chunks stays one when the next chunk is put in,
LEMMA AppendCounts ==
    ASSUME NEW s \in Seq(Nat), NEW k \in Nat, Counts(s, k)
    PROVE  Counts(Append(s, k + Len(s) + 1), k)
<1> DEFINE t == Append(s, k + Len(s) + 1)
<1>1. ASSUME NEW i \in 1..Len(t) PROVE t[i] = k + i
  <2>1. i \in 1..Len(s) \/ i = Len(s) + 1
    OBVIOUS
  <2>2. CASE i \in 1..Len(s)
    BY <2>2 DEF Counts
  <2>3. CASE i = Len(s) + 1
    BY <2>3
  <2> QED
    BY <2>1, <2>2, <2>3
<1> QED
  BY <1>1 DEF Counts

\* and when its first chunk is taken out.
LEMMA TailCounts ==
    ASSUME NEW s \in Seq(Nat), s # <<>>, NEW k \in Nat, Counts(s, k)
    PROVE  Head(s) = k + 1 /\ Counts(Tail(s), k + 1)
<1>1. Head(s) = k + 1
  BY DEF Counts
<1>2. ASSUME NEW i \in 1..Len(Tail(s)) PROVE Tail(s)[i] = k + 1 + i
  <2>1. i + 1 \in 1..Len(s) /\ Tail(s)[i] = s[i + 1]
    OBVIOUS
  <2> QED
    BY <2>1 DEF Counts
<1> QED
  BY <1>1, <1>2 DEF Counts

\* Every step of target, actor and ingest task keeps the types.
LEMMA TypeStep == TypeOK /\ [Next]_vars => TypeOK'
<1> SUFFICES ASSUME TypeOK, [Next]_vars PROVE TypeOK'
  OBVIOUS
<1> USE SshActorAssumption DEF TypeOK, target, keys
<1>1. ASSUME Write, owe' \in BOOLEAN PROVE TypeOK'
  <2>1. chan' \in Seq(Nat) /\ Len(chan') <= ChanCap
    BY <1>1, AppendFacts DEF Write
  <2> QED
    BY <1>1, <2>1 DEF Write
<1>2. CASE TargetWrites
  BY <1>1, <1>2 DEF TargetWrites
<1>3. CASE TargetEchoes
  BY <1>1, <1>3 DEF TargetEchoes
<1>4. CASE TargetReads
  BY <1>4 DEF TargetReads
<1>5. CASE TargetEof \/ TargetEnds
  BY <1>5 DEF TargetEof, TargetEnds
<1>6. CASE Type
  BY <1>6 DEF Type
<1>7. CASE ActorRecv
  BY <1>7, TailFacts DEF ActorRecv
<1>8. CASE ActorSend
  <2>1. output' \in Seq(Nat) /\ Len(output') <= OutCap
    BY <1>8, AppendFacts DEF ActorSend
  <2> QED
    BY <1>8, <2>1 DEF ActorSend
<1>9. CASE ActorEof
  BY <1>9 DEF ActorEof
<1>10. CASE ActorTake
  BY <1>10 DEF ActorTake
<1>11. CASE ActorWritten
  BY <1>11 DEF ActorWritten
<1>12. CASE ActorWriteFails
  BY <1>12 DEF ActorWriteFails
<1>13. CASE Ingest
  <2>1. output' \in Seq(Nat) /\ Len(output') <= OutCap
    BY <1>13, TailFacts DEF Ingest
  <2>2. log' \in Seq(Nat)
    BY <1>13, TailFacts, AppendFacts DEF Ingest
  <2> QED
    BY <1>13, <2>1, <2>2 DEF Ingest
<1>14. CASE IngestClose
  BY <1>14 DEF IngestClose
<1>15. CASE UNCHANGED vars
  BY <1>15 DEF vars
<1> QED
  BY <1>2, <1>3, <1>4, <1>5, <1>6, <1>7, <1>8, <1>9, <1>10, <1>11, <1>12, <1>13, <1>14, <1>15
  DEF Next, Target, Actor

\* Every step keeps the chunks consecutive from the session back to the target.
LEMMA NumberingStep == TypeOK /\ Numbering /\ [Next]_vars => Numbering'
<1> SUFFICES ASSUME TypeOK, Numbering, [Next]_vars PROVE Numbering'
  OBVIOUS
<1> DEFINE a == Len(log)
           b == Len(output)
<1>1. /\ a \in Nat /\ b \in Nat /\ Len(chan) \in Nat /\ wrote \in Nat /\ Held \in Nat
      /\ log \in Seq(Nat) /\ output \in Seq(Nat) /\ chan \in Seq(Nat)
  BY DEF TypeOK, Held
<1>2. CASE Write
  <2>1. wrote + 1 = (a + b + Held) + Len(chan) + 1 /\ a + b + Held \in Nat
    BY <1>1 DEF Numbering, Ahead
  <2>2. Counts(chan', a + b + Held) /\ Len(chan') = Len(chan) + 1
    BY <1>1, <1>2, <2>1, AppendCounts, AppendFacts DEF Write, Numbering, Ahead
  <2>3. UNCHANGED <<actor, cur, output, log>> /\ wrote' = wrote + 1
    BY <1>2 DEF Write
  <2> QED
    BY <1>1, <2>2, <2>3 DEF Numbering, Ahead, Held
<1>3. CASE TargetReads \/ TargetEof \/ TargetEnds \/ Type
  BY <1>3 DEF TargetReads, TargetEof, TargetEnds, Type, Numbering, Ahead, Held, target
<1>4. CASE ActorRecv
  <2>1. /\ actor = "select" /\ actor' = "send" /\ cur' = Head(chan)
        /\ UNCHANGED <<output, log, wrote>>
    BY <1>4 DEF ActorRecv, target
  <2>2. /\ cur' = a + b + 1
        /\ Counts(chan', a + b + 1)
        /\ Len(chan') = Len(chan) - 1 /\ Len(chan) >= 1
    BY <1>1, <1>4, <2>1, TailCounts, TailFacts DEF ActorRecv, Numbering, Ahead, Held
  <2> QED
    BY <1>1, <2>1, <2>2 DEF Numbering, Ahead, Held
<1>5. CASE ActorSend
  <2>1. /\ actor = "send" /\ actor' = "select" /\ output' = Append(output, cur)
        /\ UNCHANGED <<chan, log, wrote>>
    BY <1>5 DEF ActorSend, target
  <2>2. Counts(output', a) /\ Len(output') = b + 1
    BY <1>1, <2>1, AppendCounts, AppendFacts DEF Numbering, Ahead
  <2>3. a + (b + 1) + 0 = a + b + 1
    BY <1>1
  <2> QED
    BY <1>1, <2>1, <2>2, <2>3 DEF Numbering, Ahead, Held
<1>6. CASE ActorEof \/ ActorTake \/ ActorWritten \/ ActorWriteFails
  BY <1>6 DEF ActorEof, ActorTake, ActorWritten, ActorWriteFails, Numbering, Ahead, Held, target
<1>7. CASE Ingest
  <2>1. /\ output # <<>> /\ log' = Append(log, Head(output)) /\ output' = Tail(output)
        /\ UNCHANGED <<chan, wrote, actor, cur>>
    BY <1>7 DEF Ingest, target
  <2>2. /\ Head(output) = a + 1 /\ Counts(output', a + 1)
        /\ Len(output') = b - 1 /\ b >= 1
    BY <1>1, <2>1, TailCounts, TailFacts DEF Numbering
  <2>3. Counts(log', 0) /\ Len(log') = a + 1
    <3>1. Head(output) = 0 + Len(log) + 1
      BY <1>1, <2>2
    <3> QED
      BY <1>1, <2>1, <3>1, AppendCounts, AppendFacts DEF Numbering
  <2>4. Ahead' = Ahead /\ Held' = Held
    BY <1>1, <2>1, <2>2, <2>3 DEF Ahead, Held
  <2> QED
    BY <2>1, <2>2, <2>3, <2>4 DEF Numbering
<1>8. CASE IngestClose
  BY <1>8 DEF IngestClose, Numbering, Ahead, Held, target
<1>9. CASE UNCHANGED vars
  BY <1>9 DEF vars, Numbering, Ahead, Held, target
<1> QED
  BY <1>2, <1>3, <1>4, <1>5, <1>6, <1>7, <1>8, <1>9
  DEF Next, Target, Actor, TargetWrites, TargetEchoes

\* The end of the loop stays behind the output it has sent.
LEMMA EndPhaseStep == TypeOK /\ EndPhase /\ [Next]_vars => EndPhase'
<1> SUFFICES ASSUME TypeOK, EndPhase, [Next]_vars PROVE EndPhase'
  OBVIOUS
<1> USE DEF TypeOK, EndPhase, Gone, target, keys
<1>1. CASE Target \/ Type
  BY <1>1 DEF Target, TargetWrites, TargetEchoes, Write, TargetReads, TargetEof, TargetEnds, Type
<1>2. CASE ActorRecv \/ ActorSend \/ ActorEof
  BY <1>2 DEF ActorRecv, ActorSend, ActorEof
<1>3. CASE ActorTake \/ ActorWritten \/ ActorWriteFails
  BY <1>3 DEF ActorTake, ActorWritten, ActorWriteFails
<1>4. CASE Ingest \/ IngestClose
  BY <1>4 DEF Ingest, IngestClose
<1>5. CASE UNCHANGED vars
  BY <1>5 DEF vars
<1> QED
  BY <1>1, <1>2, <1>3, <1>4, <1>5 DEF Next, Actor

\* The target writes no more than its bound and one echo for each keystroke.
LEMMA BudgetStep == TypeOK /\ Budget /\ [Next]_vars => Budget'
<1> SUFFICES ASSUME TypeOK, Budget, [Next]_vars PROVE Budget'
  OBVIOUS
<1> USE SshActorAssumption DEF TypeOK, Budget, Given, Written, Echoes, target, keys
<1>1. CASE TargetWrites
  BY <1>1 DEF TargetWrites, Write
<1>2. CASE TargetEchoes
  BY <1>2 DEF TargetEchoes, Write
<1>3. CASE TargetReads
  BY <1>3 DEF TargetReads
<1>4. CASE TargetEof \/ TargetEnds
  <2>1. UNCHANGED <<lockstep, wrote, actor, keys>> /\ (UNCHANGED owe \/ owe' = FALSE)
    BY <1>4 DEF TargetEof, TargetEnds
  <2>2. Given' = Given
    BY <2>1
  <2>3. Echoes \in Int /\ Echoes' \in Int /\ Echoes' >= Echoes
    BY <2>1
  <2> QED
    BY <2>1, <2>2, <2>3
<1>5. CASE Type
  BY <1>5 DEF Type, Gone
<1>6. CASE ActorRecv
  BY <1>6 DEF ActorRecv
<1>7. CASE ActorSend
  BY <1>7 DEF ActorSend
<1>8. CASE ActorEof
  BY <1>8 DEF ActorEof
<1>9. CASE ActorTake
  BY <1>9 DEF ActorTake
<1>10. CASE ActorWritten
  BY <1>10 DEF ActorWritten
<1>11. CASE ActorWriteFails
  BY <1>11 DEF ActorWriteFails
<1>12. CASE Ingest
  BY <1>12 DEF Ingest
<1>13. CASE IngestClose
  BY <1>13 DEF IngestClose
<1>14. CASE UNCHANGED vars
  BY <1>14 DEF vars
<1> QED
  BY <1>1, <1>2, <1>3, <1>4, <1>5, <1>6, <1>7, <1>8, <1>9, <1>10, <1>11, <1>12, <1>13, <1>14
  DEF Next, Target, Actor

\* The inductive invariant holds in every reachable state.
LEMMA Inductive == Spec => []IInv
<1>1. ASSUME Init PROVE IInv
  <2> USE <1>1, SshActorAssumption DEF Init
  <2>1. TypeOK
    <3>1. <<>> \in Seq(Nat) /\ Len(<<>>) = 0
      OBVIOUS
    <3>2. ChanCap \in Nat /\ OutCap \in Nat /\ InCap \in Nat /\ WinCap \in Nat
      OBVIOUS
    <3>3. /\ lockstep \in BOOLEAN /\ owe \in BOOLEAN /\ ended \in BOOLEAN
          /\ lost \in BOOLEAN /\ closed \in BOOLEAN
      BY Zenon
    <3>4. /\ wrote \in Nat /\ cur \in Nat /\ input \in 0..InCap /\ unread \in 0..WinCap
          /\ taken \in Nat
      BY <3>2
    <3>5. Len(chan) <= ChanCap /\ Len(output) <= OutCap
      BY <3>1, <3>2
    <3> QED
      BY <3>1, <3>3, <3>4, <3>5 DEF TypeOK
  <2>2. Numbering
    BY DEF Numbering, Ahead, Held, Counts
  <2>3. EndPhase
    BY DEF EndPhase
  <2>4. Budget
    <3>1. Given = 0 /\ Echoes = 0
      BY DEF Given, Written, Echoes
    <3> QED
      BY <3>1 DEF Budget
  <2> QED
    BY <2>1, <2>2, <2>3, <2>4 DEF IInv
<1>2. IInv /\ [Next]_vars => IInv'
  BY TypeStep, NumberingStep, EndPhaseStep, BudgetStep DEF IInv
<1> QED
  BY <1>1, <1>2, PTL DEF Spec

-----------------------------------------------------------------------------
(***************************************************************************)
(* The theorems.                                                           *)
(***************************************************************************)

\* The state is of the right type and no channel exceeds its capacity
\* (gw-ssh lib.rs:222-223).
THEOREM TypeCorrect == Spec => []TypeOK
  BY Inductive, PTL DEF IInv

\* A session closes with all the output, or lacks what the SSH channel held when
\* a write failed (gw-ssh lib.rs:243-263).
THEOREM LittleIsCutOff == Spec => []CutOff
<1>1. IInv => CutOff
  <2> SUFFICES ASSUME IInv, closed PROVE (actor = "eof" => Len(log) = wrote)
                                         /\ wrote - Len(log) <= ChanCap
    BY DEF CutOff
  <2>1. output = <<>> /\ Len(output) = 0 /\ Gone
    BY DEF IInv, EndPhase
  <2>2. wrote = Len(log) + Len(chan) /\ Len(log) \in Nat /\ Len(chan) \in Nat
    BY <2>1 DEF IInv, TypeOK, Numbering, Ahead, Held, Gone
  <2>3. actor = "eof" => Len(chan) = 0
    BY DEF IInv, EndPhase
  <2> QED
    BY <2>2, <2>3, SshActorAssumption DEF IInv, TypeOK
<1> QED
  BY Inductive, <1>1, PTL
-----------------------------------------------------------------------------
(***************************************************************************)
(* The output side implements Pipe.                                        *)
(***************************************************************************)
All == [i \in 1..wrote |-> i]

\* The output so far is the numbers from 1 to wrote,
LEMMA AllFacts ==
    ASSUME wrote \in Nat
    PROVE  /\ All \in Seq(Nat) /\ Len(All) = wrote
           /\ \A i \in 1..wrote : All[i] = i
  BY DEF All

\* and grows at its end.
LEMMA AllGrows ==
    ASSUME wrote \in Nat, wrote' = wrote + 1
    PROVE  All' = Append(All, wrote + 1)
<1>1. All' = [i \in 1..(wrote + 1) |-> i]
  BY DEF All
<1> QED
  BY <1>1 DEF All

\* An actor that has just started is an empty pipe.
LEMMA PipeInit == Init => P!Init
  BY DEF Init, P!Init

\* Every step is a step of the pipe, or leaves it as it is.
LEMMA PipeStep == IInv /\ IInv' /\ [Next]_vars => [P!Next]_(P!vars)
<1> SUFFICES ASSUME IInv, IInv', [Next]_vars PROVE [P!Next]_(P!vars)
  OBVIOUS
<1>1. wrote \in Nat /\ wrote' \in Nat /\ log \in Seq(Nat) /\ output \in Seq(Nat)
  BY DEF IInv, TypeOK
<1>2. CASE TargetWrites \/ TargetEchoes
  <2>1. UNCHANGED <<log, closed>> /\ wrote' = wrote + 1
    BY <1>2 DEF TargetWrites, TargetEchoes, Write
  <2>2. taken \in Nat /\ taken <= MaxIn
    <3>1. /\ taken \in Nat /\ unread \in Nat /\ input \in Nat /\ Written \in Nat
      BY SshActorAssumption DEF IInv, TypeOK, Written
    <3> QED
      BY <3>1, SshActorAssumption DEF IInv, Budget, Given
  <2>3. wrote + 1 \in 1..(MaxOut + MaxIn)
    <3>1. CASE TargetWrites
      <4>1. wrote < MaxOut + Echoes
        BY <3>1 DEF TargetWrites
      <4>2. Echoes \in Int /\ Echoes <= taken
        BY <2>2 DEF Echoes
      <4> QED
        BY <1>1, <2>2, <4>1, <4>2, SshActorAssumption
    <3>2. CASE TargetEchoes
      <4>1. owe /\ lockstep /\ wrote <= MaxOut + Echoes
        BY <3>2 DEF TargetEchoes, IInv, Budget
      <4>2. Echoes = taken - 1
        BY <4>1 DEF Echoes
      <4> QED
        BY <1>1, <2>2, <4>1, <4>2, SshActorAssumption
    <3> QED
      BY <1>2, <3>1, <3>2
  <2>4. P!Send
    BY <1>1, <2>1, <2>3, AllGrows DEF P!Send, All
  <2> QED
    BY <2>4 DEF P!Next
<1>3. CASE Ingest
  <2>1. /\ output # <<>> /\ log' = Append(log, Head(output))
        /\ UNCHANGED <<wrote, closed>>
    BY <1>3 DEF Ingest, target
  <2>2. ~closed
    BY <2>1 DEF IInv, EndPhase
  <2>3. Head(output) = Len(log) + 1
    BY <1>1, <2>1, TailCounts DEF IInv, Numbering
  <2>4. Len(log) < wrote
    <3>1. output \in Seq(Nat) /\ log \in Seq(Nat) /\ chan \in Seq(Nat) /\ output # <<>>
      BY <2>1 DEF IInv, TypeOK
    <3>2. Len(log) \in Nat /\ Len(output) \in Nat /\ Len(chan) \in Nat
      BY <3>1
    <3>3. Len(output) >= 1
      BY <3>1, TailFacts
    <3>4. Held \in Nat
      BY DEF Held
    <3>5. QED
      BY <3>2, <3>3, <3>4 DEF IInv, Numbering, Ahead
  <2>5. All[Len(log) + 1] = Len(log) + 1 /\ Len(All) = wrote
    BY <1>1, <2>4, AllFacts
  <2>6. P!Deliver
    BY <2>1, <2>2, <2>3, <2>4, <2>5 DEF P!Deliver, All
  <2> QED
    BY <2>6 DEF P!Next
<1>4. CASE IngestClose
  BY <1>4 DEF IngestClose, target, P!Next, P!End
<1>5. CASE TargetReads \/ TargetEof \/ TargetEnds \/ Type \/ UNCHANGED vars
  BY <1>5 DEF TargetReads, TargetEof, TargetEnds, Type, target, vars, P!vars
<1>6. CASE Actor
  BY <1>6 DEF Actor, ActorRecv, ActorSend, ActorEof, ActorTake, ActorWritten, ActorWriteFails,
     target, P!vars
<1> QED
  BY <1>2, <1>3, <1>4, <1>5, <1>6 DEF Next, Target

\* What the ingest task appends to the session is what the target wrote, in
\* order, once, and nothing after the close (gw-ssh lib.rs:242-271, gw-core
\* lib.rs:157-166).
THEOREM OutputIsPiped == Spec => OutputPiped
<1>1. IInv /\ [Next]_vars => IInv'
  BY TypeStep, NumberingStep, EndPhaseStep, BudgetStep DEF IInv
<1> QED
  BY <1>1, Inductive, PipeInit, PipeStep, PTL DEF Spec, OutputPiped, P!Spec
=============================================================================
