------------------------------- MODULE SshOpen -------------------------------
(***************************************************************************)
(* Opening the SSH session of one client: open_for_auth and ControlSigner  *)
(* of crates/gw-server/src/handler.rs with SshSession::open and            *)
(* open_delegated of crates/gw-ssh/src/lib.rs.                             *)
(*                                                                         *)
(* With a delegated key the private key stays with the client: each        *)
(* challenge of the target is sent to the client as a SignRequest over the *)
(* control stream, and the gateway reads that stream until the answer with *)
(* the request's id comes.  The client answers in any order, late, twice,  *)
(* and sends other frames in between; an answer always signs the challenge *)
(* of the request whose id it carries.                                     *)
(***************************************************************************)
EXTENDS Integers, Sequences

CONSTANTS MaxChallenges,  \* bound: challenges the target sends
          MaxFrames       \* bound: frames the client sends

ASSUME SshOpenAssumption == MaxChallenges \in Nat /\ MaxFrames \in Nat

VARIABLES pc,         \* the await at which open_for_auth is
          auth,       \* the AuthIntent
          ssh,        \* the SSH connection: "none", "up", "authed", or "shell" once one is requested
          challenge,  \* the target's latest challenge
          next_id,    \* ControlSigner.next_id
          asked,      \* SignRequests that reached the client: pairs of id and challenge
          sent,       \* the frames on the client's stream
          nread,      \* how many of them were read
          up,         \* the client's connection carries frames
          given       \* history: signatures given to the target: pairs of challenge asked and signed

client == <<asked, sent, up>>
vars == <<pc, auth, ssh, challenge, next_id, asked, sent, nread, up, given>>

Intents == {"Password", "PrivateKey", "DelegatedKey", "GatewayKey"}

Response(i, c) == [kind |-> "SignResponse", id |-> i, signs |-> c]
Ping == [kind |-> "Ping", id |-> 0, signs |-> 0]
Other == [kind |-> "Other", id |-> 0, signs |-> 0]
Frames == [kind : {"SignResponse", "Ping", "Other"}, id : Nat, signs : Nat]

(***************************************************************************)
(* "start"    open_for_auth dispatches on the intent                       *)
(* "connect"  connect: TCP, SSH handshake, host key                        *)
(* "auth"     the authentication exchange with the target                  *)
(* "request"  ControlSigner::sign sends a SignRequest                      *)
(* "answer"   ControlSigner::sign awaits the SignResponse                  *)
(* "channel", "pty", "shell"  the requests of finish_open                  *)
(* "opened", "failed"  what open_for_auth returned                         *)
(***************************************************************************)
PCs == {"start", "connect", "auth", "request", "answer", "channel", "pty", "shell",
        "opened", "failed"}

TypeOK ==
    /\ pc \in PCs
    /\ auth \in Intents
    /\ ssh \in {"none", "up", "authed", "shell"}
    /\ challenge \in Nat
    /\ next_id \in Nat
    /\ asked \subseteq Nat \X Nat
    /\ sent \in Seq(Frames)
    /\ nread \in 0..Len(sent)
    /\ up \in BOOLEAN
    /\ given \subseteq Nat \X Nat
    /\ ssh = "none" <=> pc \in {"start", "connect", "failed"}

Init ==
    /\ pc = "start"
    /\ auth \in Intents
    /\ ssh = "none"
    /\ challenge = 0
    /\ next_id = 1
    /\ asked = {}
    /\ sent = <<>>
    /\ nread = 0
    /\ up = TRUE
    /\ given = {}

-----------------------------------------------------------------------------
\* Mutant of Fail: the SSH connection outlives the error.
Fail_leak ==
    /\ pc' = "failed"
    /\ UNCHANGED ssh

\* An error is returned: what was set up of the SSH connection is dropped.
Fail ==
    /\ pc' = "failed"
    /\ ssh' = "none"

\* A stored gateway key is not implemented; a delegated public key that is not
\* text is refused before the target is contacted.
Dispatch ==
    /\ pc = "start"
    /\ \/ auth # "GatewayKey" /\ pc' = "connect" /\ UNCHANGED ssh
       \/ auth \in {"GatewayKey", "DelegatedKey"} /\ Fail
    /\ UNCHANGED <<auth, challenge, next_id, nread, given, client>>

\* connect succeeds.
Connected ==
    /\ pc = "connect"
    /\ ssh' = "up"
    /\ pc' = "auth"
    /\ UNCHANGED <<auth, challenge, next_id, nread, given, client>>

\* The target, or the key material, makes the current step fail; in
\* "auth" this includes a rejected credential.
StepFails ==
    /\ pc \in {"connect", "auth", "channel", "pty", "shell"}
    /\ Fail
    /\ UNCHANGED <<auth, challenge, next_id, nread, given, client>>

\* The target sends a challenge to be signed with the delegated key; the
\* adapter calls ControlSigner::sign, which takes the next id.
Challenged ==
    /\ pc = "auth"
    /\ auth = "DelegatedKey"
    /\ challenge < MaxChallenges
    /\ challenge' = challenge + 1
    /\ next_id' = next_id + 1
    /\ pc' = "request"
    /\ UNCHANGED <<auth, ssh, nread, given, client>>

\* The id of the request under way.
id == next_id - 1

\* The SignRequest is written to the client.
RequestSent ==
    /\ pc = "request"
    /\ up
    /\ asked' = asked \cup {<<id, challenge>>}
    /\ pc' = "answer"
    /\ UNCHANGED <<auth, ssh, challenge, next_id, sent, nread, up, given>>

\* Writing the request, or reading the answer, fails.
StreamFails ==
    /\ pc \in {"request", "answer"}
    /\ ~up
    /\ Fail
    /\ UNCHANGED <<auth, challenge, next_id, nread, given, client>>

\* Mutant of RecvFrame: any SignResponse is taken for the answer.
RecvFrame_any_id ==
    /\ pc = "answer"
    /\ up
    /\ nread < Len(sent)
    /\ nread' = nread + 1
    /\ LET frame == sent[nread + 1]
       IN  CASE frame.kind = "SignResponse" ->
                    /\ pc' = "auth"
                    /\ given' = given \cup {<<challenge, frame.signs>>}
                    /\ UNCHANGED ssh
             [] frame.kind = "Ping" -> UNCHANGED <<pc, ssh, given>>
             [] OTHER -> Fail /\ UNCHANGED given
    /\ UNCHANGED <<auth, challenge, next_id, client>>

\* Mutant of RecvFrame: other frames are skipped like stale answers.
RecvFrame_skip ==
    /\ pc = "answer"
    /\ up
    /\ nread < Len(sent)
    /\ nread' = nread + 1
    /\ LET frame == sent[nread + 1]
       IN  IF frame.kind = "SignResponse" /\ frame.id = id
           THEN /\ pc' = "auth"
                /\ given' = given \cup {<<challenge, frame.signs>>}
                /\ UNCHANGED ssh
           ELSE UNCHANGED <<pc, ssh, given>>
    /\ UNCHANGED <<auth, challenge, next_id, client>>

\* Mutant of RecvFrame: a stale answer is left on the stream.
RecvFrame_peek ==
    /\ pc = "answer"
    /\ up
    /\ nread < Len(sent)
    /\ LET frame == sent[nread + 1]
       IN  CASE frame.kind = "SignResponse" /\ frame.id = id ->
                    /\ pc' = "auth"
                    /\ nread' = nread + 1
                    /\ given' = given \cup {<<challenge, frame.signs>>}
                    /\ UNCHANGED ssh
             [] frame.kind = "SignResponse" /\ frame.id # id ->
                    UNCHANGED <<pc, ssh, nread, given>>
             [] frame.kind = "Ping" -> nread' = nread + 1 /\ UNCHANGED <<pc, ssh, given>>
             [] OTHER -> Fail /\ nread' = nread + 1 /\ UNCHANGED given
    /\ UNCHANGED <<auth, challenge, next_id, client>>

\* One turn of the loop in sign: the answer to this request is returned, stale
\* answers and Pings are skipped, anything else fails the authentication.
RecvFrame ==
    /\ pc = "answer"
    /\ up
    /\ nread < Len(sent)
    /\ nread' = nread + 1
    /\ LET frame == sent[nread + 1]
       IN  CASE frame.kind = "SignResponse" /\ frame.id = id ->
                    /\ pc' = "auth"
                    /\ given' = given \cup {<<challenge, frame.signs>>}
                    /\ UNCHANGED ssh
             [] frame.kind = "SignResponse" /\ frame.id # id -> UNCHANGED <<pc, ssh, given>>
             [] frame.kind = "Ping" -> UNCHANGED <<pc, ssh, given>>
             [] OTHER -> Fail /\ UNCHANGED given
    /\ UNCHANGED <<auth, challenge, next_id, client>>

\* The target accepts the credential; a delegated key has to sign first.
Accepted ==
    /\ pc = "auth"
    /\ auth = "DelegatedKey" => challenge > 0
    /\ ssh' = "authed"
    /\ pc' = "channel"
    /\ UNCHANGED <<auth, challenge, next_id, nread, given, client>>

\* finish_open: the session channel is awaited; the PTY and the shell are
\* requested without asking for a reply, so their refusal is not noticed here.
ChannelOpened ==
    /\ pc = "channel"
    /\ pc' = "pty"
    /\ UNCHANGED <<auth, ssh, challenge, next_id, nread, given, client>>

PtyRequested ==
    /\ pc = "pty"
    /\ pc' = "shell"
    /\ UNCHANGED <<auth, ssh, challenge, next_id, nread, given, client>>

ShellRequested ==
    /\ pc = "shell"
    /\ pc' = "opened"
    /\ ssh' = "shell"
    /\ UNCHANGED <<auth, challenge, next_id, nread, given, client>>

-----------------------------------------------------------------------------
\* The client answers a request it has received, possibly again; the bound does
\* not keep it from answering a first time.
Answer(r) ==
    /\ up
    /\ r \in asked
    /\ Len(sent) < MaxFrames \/ \A i \in DOMAIN sent : sent[i] # Response(r[1], r[2])
    /\ sent' = Append(sent, Response(r[1], r[2]))
    /\ UNCHANGED <<pc, auth, ssh, challenge, next_id, asked, nread, up, given>>

\* The client sends a Ping or another frame.
Send(f) ==
    /\ up
    /\ Len(sent) < MaxFrames
    /\ sent' = Append(sent, f)
    /\ UNCHANGED <<pc, auth, ssh, challenge, next_id, asked, nread, up, given>>

\* The client's connection is lost.
Drop ==
    /\ up
    /\ up' = FALSE
    /\ UNCHANGED <<pc, auth, ssh, challenge, next_id, asked, sent, nread, given>>

-----------------------------------------------------------------------------
\* What the gateway does by itself.
Gateway == Dispatch \/ RequestSent \/ StreamFails \/ RecvFrame

\* What the target answers.
Target ==
    \/ Connected
    \/ StepFails
    \/ Challenged
    \/ Accepted
    \/ ChannelOpened
    \/ PtyRequested
    \/ ShellRequested

Client ==
    \/ \E r \in asked : Answer(r)
    \/ Send(Ping)
    \/ Send(Other)
    \/ Drop

Next == Gateway \/ Target \/ Client

Spec == Init /\ [][Next]_vars

(***************************************************************************)
(* The gateway's task is run, the target answers, and the client answers   *)
(* the request it is asked unless its connection is lost: neither side is  *)
(* given a timeout by the code.                                            *)
(***************************************************************************)
FairSpec ==
    /\ Spec
    /\ WF_vars(Gateway)
    /\ WF_vars(Target)
    /\ WF_vars(Answer(<<id, challenge>>) /\ pc = "answer")

-----------------------------------------------------------------------------
(***************************************************************************)
(* Properties.                                                             *)
(***************************************************************************)

\* Every signature handed to the target is over the challenge it was asked for,
\* though answers to earlier requests arrive late or twice (handler.rs:279-286).
SignaturesMatch == \A p \in given : p[1] = p[2]

\* The signer reads the control stream ahead of receiver_loop but never swallows
\* a frame meant for the session: a client whose session opens has lost nothing
\* but answers and Pings (handler.rs:279-292).
NothingSwallowed ==
    pc # "failed" => \A i \in 1..nread : sent[i].kind \in {"SignResponse", "Ping"}

\* Opening comes to an end, whatever stale answers and Pings are in the way
\* (handler.rs:273-293, gw-ssh lib.rs:168-217).
OpenEnds == <>(pc \in {"opened", "failed"})
=============================================================================
