---------------------------- MODULE SshOpenProofs ----------------------------
(***************************************************************************)
(* Invariants of SshOpen, proved for every number of challenges and frames.*)
(***************************************************************************)
EXTENDS SshOpen, TLAPS

-----------------------------------------------------------------------------
(***************************************************************************)
(* The inductive invariant.  Ids are handed out in step with the target's  *)
(* challenges, so a request's id names its challenge, on the way to the    *)
(* client and back.                                                        *)
(***************************************************************************)
IdsCountChallenges == next_id = challenge + 1
RequestsNameChallenges == \A r \in asked : r[1] = r[2]
AnswersNameChallenges ==
    \A i \in 1..Len(sent) : sent[i].kind = "SignResponse" => sent[i].id = sent[i].signs

Matching ==
    /\ IdsCountChallenges
    /\ RequestsNameChallenges
    /\ AnswersNameChallenges
    /\ SignaturesMatch

IInv == TypeOK /\ Matching /\ NothingSwallowed

-----------------------------------------------------------------------------
\* A frame appended to the stream leaves the earlier ones where they are.
LEMMA AppendedFrame ==
    ASSUME NEW s \in Seq(Frames), NEW f \in Frames
    PROVE  /\ Append(s, f) \in Seq(Frames)
           /\ Len(Append(s, f)) = Len(s) + 1
           /\ \A i \in 1..Len(s) : Append(s, f)[i] = s[i]
           /\ Append(s, f)[Len(s) + 1] = f
  OBVIOUS

\* What the client sends is a frame.
LEMMA ClientFrames ==
    /\ Ping \in Frames /\ Other \in Frames
    /\ \A i, c \in Nat : Response(i, c) \in Frames
  BY DEF Ping, Other, Response, Frames

-----------------------------------------------------------------------------
\* When open_for_auth is called every variable has its type.
LEMMA TypeInit == Init => TypeOK
  BY DEF Init, TypeOK, PCs, Intents

\* Every await of the opening keeps the types, and drops the SSH connection on an error.
LEMMA TypeStep == TypeOK /\ Matching /\ [Next]_vars => TypeOK'
<1> SUFFICES ASSUME TypeOK, Matching, [Next]_vars PROVE TypeOK'
  OBVIOUS
<1>1. CASE Gateway
  <2> USE DEF TypeOK, PCs, client
  <2>1. CASE Dispatch
    BY <2>1 DEF Dispatch, Fail
  <2>2. CASE RequestSent
    <3>1. id \in Nat
      BY DEF id, Matching, IdsCountChallenges
    <3> QED
      BY <2>2, <3>1 DEF RequestSent
  <2>3. CASE StreamFails
    BY <2>3 DEF StreamFails, Fail
  <2>4. CASE RecvFrame
    <3> DEFINE frame == sent[nread + 1]
    <3>1. nread + 1 \in 0..Len(sent) /\ frame \in Frames
      <4>1. nread \in Nat /\ nread + 1 \in 1..Len(sent)
        BY <2>4 DEF RecvFrame
      <4> QED
        BY <4>1
    <3>2. CASE frame.kind = "SignResponse" /\ frame.id = id
      <4>1. <<challenge, frame.signs>> \in Nat \X Nat
        BY <3>1 DEF Frames
      <4> QED
        BY <2>4, <3>1, <3>2, <4>1, SMTT(30) DEF RecvFrame
    <3>3. CASE frame.kind = "SignResponse" /\ frame.id # id
      BY <2>4, <3>1, <3>3 DEF RecvFrame
    <3>4. CASE frame.kind = "Ping"
      BY <2>4, <3>1, <3>4 DEF RecvFrame
    <3>5. CASE frame.kind \notin {"SignResponse", "Ping"}
      BY <2>4, <3>1, <3>5 DEF RecvFrame, Fail
    <3> QED
      BY <3>2, <3>3, <3>4, <3>5
  <2> QED
    BY <1>1, <2>1, <2>2, <2>3, <2>4 DEF Gateway
<1>2. CASE Target
  <2> USE DEF TypeOK, PCs, client
  <2>1. CASE Connected
    BY <2>1 DEF Connected
  <2>2. CASE StepFails
    BY <2>2 DEF StepFails, Fail
  <2>3. CASE Challenged
    BY <2>3 DEF Challenged
  <2>4. CASE Accepted
    BY <2>4 DEF Accepted
  <2>5. CASE ChannelOpened
    BY <2>5 DEF ChannelOpened
  <2>6. CASE PtyRequested
    BY <2>6 DEF PtyRequested
  <2>7. CASE ShellRequested
    BY <2>7 DEF ShellRequested
  <2> QED
    BY <1>2, <2>1, <2>2, <2>3, <2>4, <2>5, <2>6, <2>7 DEF Target
<1>3. CASE Client
  <2>1. ASSUME NEW f \in Frames, sent' = Append(sent, f),
               UNCHANGED <<pc, auth, ssh, challenge, next_id, asked, nread, up, given>>
        PROVE  TypeOK'
    <3>1. sent' \in Seq(Frames) /\ Len(sent') = Len(sent) + 1
      BY <2>1, AppendedFrame DEF TypeOK
    <3> QED
      BY <2>1, <3>1 DEF TypeOK
  <2>2. ASSUME NEW r \in asked, Answer(r) PROVE TypeOK'
    <3>1. Response(r[1], r[2]) \in Frames
      BY ClientFrames DEF TypeOK
    <3> QED
      BY <2>1, <2>2, <3>1 DEF Answer
  <2>3. CASE Send(Ping) \/ Send(Other)
    BY <2>1, <2>3, ClientFrames DEF Send
  <2>4. CASE Drop
    BY <2>4 DEF Drop, TypeOK
  <2> QED
    BY <1>3, <2>2, <2>3, <2>4 DEF Client
<1>4. CASE UNCHANGED vars
  BY <1>4 DEF vars, TypeOK
<1> QED
  BY <1>1, <1>2, <1>3, <1>4 DEF Next

-----------------------------------------------------------------------------
\* Every step keeps requests, answers and challenges numbered alike.
LEMMA MatchingStep == TypeOK /\ Matching /\ [Next]_vars => Matching'
<1> SUFFICES ASSUME TypeOK, Matching, [Next]_vars PROVE Matching'
  OBVIOUS
<1> USE DEF Matching, IdsCountChallenges, RequestsNameChallenges, AnswersNameChallenges,
        SignaturesMatch
<1>1. CASE UNCHANGED <<challenge, next_id, asked, sent, given>>
  BY <1>1
<1>2. CASE RequestSent
  BY <1>2 DEF RequestSent, id, TypeOK
<1>3. CASE RecvFrame
  <2> DEFINE frame == sent[nread + 1]
  <2>1. nread + 1 \in 1..Len(sent)
    BY <1>3 DEF RecvFrame, TypeOK
  <2>2. CASE frame.kind = "SignResponse" /\ frame.id = id
    <3>1. challenge = frame.signs
      BY <2>1, <2>2 DEF id, TypeOK
    <3>2. given' = given \cup {<<challenge, frame.signs>>}
      BY <1>3, <2>2 DEF RecvFrame
    <3> QED
      BY <1>3, <3>1, <3>2 DEF RecvFrame, client
  <2>3. CASE ~(frame.kind = "SignResponse" /\ frame.id = id)
    BY <1>3, <2>3, <1>1 DEF RecvFrame, Fail, client
  <2> QED
    BY <2>2, <2>3
<1>4. CASE Challenged
  BY <1>4 DEF Challenged, client, TypeOK
<1>5. ASSUME NEW f \in Frames, sent' = Append(sent, f),
             f.kind = "SignResponse" => f.id = f.signs,
             UNCHANGED <<challenge, next_id, asked, given>>
      PROVE  Matching'
  <2>1. /\ Len(sent') = Len(sent) + 1
        /\ \A i \in 1..Len(sent) : sent'[i] = sent[i]
        /\ sent'[Len(sent) + 1] = f
    BY <1>5, AppendedFrame DEF TypeOK
  <2>2. AnswersNameChallenges'
    <3> SUFFICES ASSUME NEW i \in 1..Len(sent'), sent'[i].kind = "SignResponse"
                 PROVE  sent'[i].id = sent'[i].signs
      OBVIOUS
    <3>1. CASE i = Len(sent) + 1
      BY <1>5, <2>1, <3>1
    <3>2. CASE i # Len(sent) + 1
      <4>1. i \in 1..Len(sent)
        BY <2>1, <3>2 DEF TypeOK
      <4> QED
        BY <2>1, <4>1
    <3> QED
      BY <3>1, <3>2
  <2> QED
    BY <1>5, <2>2
<1>6. ASSUME NEW r \in asked, Answer(r) PROVE Matching'
  <2>1. /\ Response(r[1], r[2]) \in Frames
        /\ Response(r[1], r[2]).id = Response(r[1], r[2]).signs
    BY ClientFrames DEF TypeOK, Response
  <2> QED
    BY <1>5, <1>6, <2>1 DEF Answer
<1>7. CASE Send(Ping) \/ Send(Other)
  BY <1>5, <1>7, ClientFrames DEF Send, Ping, Other
<1>8. CASE Dispatch \/ StreamFails \/ Drop \/ UNCHANGED vars
  BY <1>1, <1>8 DEF Dispatch, StreamFails, Drop, vars, client
<1>9. CASE \/ Connected \/ StepFails \/ Accepted \/ ChannelOpened \/ PtyRequested
           \/ ShellRequested
  BY <1>1, <1>9 DEF Connected, StepFails, Accepted, ChannelOpened, PtyRequested,
     ShellRequested, client
<1> QED
  BY <1>2, <1>3, <1>4, <1>6, <1>7, <1>8, <1>9 DEF Next, Gateway, Target, Client

-----------------------------------------------------------------------------
\* Every frame the signer reads past is an answer or a Ping.
LEMMA SwallowStep == TypeOK /\ NothingSwallowed /\ [Next]_vars => NothingSwallowed'
<1> SUFFICES ASSUME TypeOK, NothingSwallowed, [Next]_vars, pc' # "failed",
                    NEW i \in 1..nread'
             PROVE  sent'[i].kind \in {"SignResponse", "Ping"}
  BY DEF NothingSwallowed
<1>1. CASE UNCHANGED <<nread, sent>> /\ pc # "failed"
  BY <1>1 DEF NothingSwallowed
<1>2. CASE RecvFrame
  <2> DEFINE frame == sent[nread + 1]
  <2>1. sent' = sent /\ nread' = nread + 1 /\ pc # "failed"
    BY <1>2 DEF RecvFrame, client
  <2>2. CASE i = nread + 1
    <3>1. CASE frame.kind \notin {"SignResponse", "Ping"}
      BY <1>2, <3>1 DEF RecvFrame, Fail
    <3> QED
      BY <2>1, <2>2, <3>1
  <2>3. CASE i # nread + 1
    <3>1. i \in 1..nread
      BY <2>1, <2>3 DEF TypeOK
    <3> QED
      BY <2>1, <3>1 DEF NothingSwallowed
  <2> QED
    BY <2>2, <2>3
<1>3. ASSUME NEW f \in Frames, sent' = Append(sent, f), UNCHANGED <<pc, nread>>
      PROVE  sent'[i].kind \in {"SignResponse", "Ping"}
  <2>1. i \in 1..nread /\ i \in 1..Len(sent)
    BY <1>3 DEF TypeOK
  <2>2. sent'[i] = sent[i]
    BY <1>3, <2>1, AppendedFrame DEF TypeOK
  <2> QED
    BY <1>3, <2>1, <2>2 DEF NothingSwallowed
<1>4. ASSUME NEW r \in asked, Answer(r)
      PROVE  sent'[i].kind \in {"SignResponse", "Ping"}
  <2>1. Response(r[1], r[2]) \in Frames
    BY ClientFrames DEF TypeOK
  <2> QED
    BY <1>3, <1>4, <2>1 DEF Answer
<1>5. CASE Send(Ping) \/ Send(Other)
  BY <1>3, <1>5, ClientFrames DEF Send
<1>6. CASE Dispatch \/ RequestSent \/ StreamFails \/ Drop \/ UNCHANGED vars
  BY <1>1, <1>6 DEF Dispatch, RequestSent, StreamFails, Fail, Drop, vars, client
<1>7. CASE \/ Connected \/ StepFails \/ Challenged \/ Accepted \/ ChannelOpened
           \/ PtyRequested \/ ShellRequested
  BY <1>1, <1>7 DEF Connected, StepFails, Fail, Challenged, Accepted, ChannelOpened,
     PtyRequested, ShellRequested, client
<1> QED
  BY <1>2, <1>4, <1>5, <1>6, <1>7 DEF Next, Gateway, Target, Client

-----------------------------------------------------------------------------
\* The inductive invariant holds in every state of open_for_auth.
THEOREM Invariance == Spec => []IInv
<1>1. Init => IInv
  <2>1. Init => Matching /\ NothingSwallowed
    BY DEF Init, Matching, IdsCountChallenges, RequestsNameChallenges,
       AnswersNameChallenges, SignaturesMatch, NothingSwallowed
  <2> QED
    BY <2>1, TypeInit DEF IInv
<1>2. IInv /\ [Next]_vars => IInv'
  BY TypeStep, MatchingStep, SwallowStep DEF IInv
<1> QED
  BY <1>1, <1>2, PTL DEF Spec

\* The variables keep their types, and an SSH connection is held exactly from
\* connecting to the end of open_for_auth: every error path drops it.
THEOREM TypeCorrect == Spec => []TypeOK
<1>1. IInv => TypeOK
  BY DEF IInv
<1> QED
  BY <1>1, Invariance, PTL

\* ControlSigner::sign never hands the target a signature over another challenge.
THEOREM StaleAnswersAreSkipped == Spec => []SignaturesMatch
<1>1. IInv => SignaturesMatch
  BY DEF IInv, Matching
<1> QED
  BY <1>1, Invariance, PTL

\* ControlSigner::sign never consumes a frame that receiver_loop should get.
THEOREM SessionFramesAreKept == Spec => []NothingSwallowed
<1>1. IInv => NothingSwallowed
  BY DEF IInv
<1> QED
  BY <1>1, Invariance, PTL
=============================================================================
