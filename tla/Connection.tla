----------------------------- MODULE Connection -----------------------------
(***************************************************************************)
(* The data plane of one attached client: receiver_loop, sender_task and   *)
(* the end of handle_connection in crates/gw-server/src/handler.rs, with   *)
(* the out-of-band channel between the two, the UsageMeter they share      *)
(* (crates/gw-core/src/quota.rs) and the input side of the SSH actor       *)
(* (crates/gw-ssh/src/lib.rs).                                             *)
(*                                                                         *)
(* A client frame is the index of its place in the client's stream, so     *)
(* that a lost, repeated or overtaking frame is visible downstream.  Every *)
(* Data frame counts for one unit in the meter.                            *)
(*                                                                         *)
(* The tasks run on several threads: an action is one await, or one access *)
(* to shared state between two awaits.                                     *)
(***************************************************************************)
EXTENDS Integers, Sequences, FiniteSets

CONSTANTS OobCap,     \* capacity of the out-of-band channel (16)
          InputCap,   \* capacity of the SSH input channel (64)
          MaxFrames,  \* bound: frames the client sends
          MaxOut      \* bound: chunks of output that next() returns

ASSUME ConnectionAssumption ==
    /\ OobCap \in Nat \ {0}
    /\ InputCap \in Nat \ {0}
    /\ MaxFrames \in Nat
    /\ MaxOut \in Nat

VARIABLES sent,       \* the kinds of the frames the client has put on its stream
          nread,      \* how many of them recv has returned
          up,         \* the connection carries frames
          rcv,        \* control point of receiver_loop
          input,      \* the SSH input channel
          actor,      \* control point of the SSH actor
          current,    \* the frame write_all is writing, or 0
          pending,    \* pending_resize, or 0
          applied,    \* history: the frames applied to the target, in order
          oob,        \* the out-of-band channel: how many Pongs it holds
          oob_open,   \* sender_task's flag
          snd,        \* control point of sender_task
          hc,         \* control point of handle_connection after receiver_loop
          bytes_in,   \* UsageMeter.bytes_in
          bytes_out,  \* UsageMeter.bytes_out
          delivered,  \* history: units of output written to the client
          pings,      \* history: Pings read
          pongs,      \* history: Pongs written to the client
          report      \* the totals that report_usage posts: none, or one pair

stream == <<sent, nread, up>>
actorVars == <<actor, current, pending, applied>>
senderVars == <<oob_open, snd, bytes_out, delivered, pongs>>
vars == <<sent, nread, up, rcv, input, actor, current, pending, applied, oob,
          oob_open, snd, hc, bytes_in, bytes_out, delivered, pings, pongs, report>>

Kinds == {"Data", "Resize", "Ping", "Close", "Other"}
Inputs == {"Data", "Resize"}

(***************************************************************************)
(* receiver_loop: "recv" awaits a frame, "input" awaits room in the input  *)
(* channel for frame nread, "oob" awaits room for a Pong.                  *)
(*                                                                         *)
(* sender_task: "select"; "throttle" holds a chunk; "send" writes it;      *)
(* "pong" writes a Pong; "closing" writes Closed; "ended"; "aborted".      *)
(*                                                                         *)
(* actor: "top" of its loop, "select", "write" (write_all), "gone".        *)
(*                                                                         *)
(* handle_connection: "run" until receiver_loop has returned, "totals"     *)
(* after abort(), "reported".                                              *)
(***************************************************************************)
ReceiverStates == {"recv", "input", "oob", "Closed", "Detached"}
SenderStates == {"select", "throttle", "send", "pong", "closing", "ended", "aborted"}

ReceiverDone == rcv \in {"Closed", "Detached"}
SenderGone == snd \in {"ended", "aborted"}

TypeOK ==
    /\ sent \in Seq(Kinds)
    /\ nread \in 0..Len(sent)
    /\ up \in BOOLEAN
    /\ rcv \in ReceiverStates
    /\ input \in Seq(Nat) /\ Len(input) <= InputCap
    /\ actor \in {"top", "select", "write", "gone"}
    /\ current \in Nat
    /\ pending \in Nat
    /\ applied \in Seq(Nat)
    /\ oob \in 0..OobCap
    /\ oob_open \in BOOLEAN
    /\ snd \in SenderStates
    /\ hc \in {"run", "totals", "reported"}
    /\ bytes_in \in Nat
    /\ bytes_out \in Nat
    /\ delivered \in Nat
    /\ pings \in Nat
    /\ pongs \in Nat
    /\ report \in {<<>>} \cup (Nat \X Nat)

Init ==
    /\ sent = <<>>
    /\ nread = 0
    /\ up = TRUE
    /\ rcv = "recv"
    /\ input = <<>>
    /\ actor = "top"
    /\ current = 0
    /\ pending = 0
    /\ applied = <<>>
    /\ oob = 0
    /\ oob_open = TRUE
    /\ snd = "select"
    /\ hc = "run"
    /\ bytes_in = 0
    /\ bytes_out = 0
    /\ delivered = 0
    /\ pings = 0
    /\ pongs = 0
    /\ report = <<>>

-----------------------------------------------------------------------------
(***************************************************************************)
(* The client.                                                             *)
(***************************************************************************)

\* The client writes a frame.
ClientSends(k) ==
    /\ up
    /\ Len(sent) < MaxFrames
    /\ sent' = Append(sent, k)
    /\ UNCHANGED <<nread, up, rcv, input, actorVars, oob, senderVars, hc, bytes_in, pings, report>>

\* The connection is lost, or a frame does not decode.
Drop ==
    /\ up
    /\ up' = FALSE
    /\ UNCHANGED <<sent, nread, rcv, input, actorVars, oob, senderVars, hc, bytes_in, pings, report>>

-----------------------------------------------------------------------------
(***************************************************************************)
(* receiver_loop.                                                          *)
(***************************************************************************)

\* recv returns the next frame, of kind k.
Recv(k) ==
    /\ rcv = "recv"
    /\ up
    /\ nread < Len(sent)
    /\ sent[nread + 1] = k
    /\ nread' = nread + 1
    /\ UNCHANGED <<sent, up, input, actorVars, oob, senderVars, hc, report>>

\* Keystrokes are metered before they are forwarded.
RecvData ==
    /\ Recv("Data")
    /\ bytes_in' = bytes_in + 1
    /\ rcv' = "input"
    /\ UNCHANGED pings

RecvResize ==
    /\ Recv("Resize")
    /\ rcv' = "input"
    /\ UNCHANGED <<bytes_in, pings>>

RecvPing ==
    /\ Recv("Ping")
    /\ rcv' = "oob"
    /\ pings' = pings + 1
    /\ UNCHANGED bytes_in

RecvClose ==
    /\ Recv("Close")
    /\ rcv' = "Closed"
    /\ UNCHANGED <<bytes_in, pings>>

\* Any other frame is ignored.
RecvOther ==
    /\ Recv("Other")
    /\ UNCHANGED <<rcv, bytes_in, pings>>

RecvErr ==
    /\ rcv = "recv"
    /\ ~up
    /\ rcv' = "Detached"
    /\ UNCHANGED <<stream, input, actorVars, oob, senderVars, hc, bytes_in, pings, report>>

\* Session::send_input: wait for room in the channel; when the actor is gone
\* the frame is dropped.
SendInput ==
    /\ rcv = "input"
    /\ \/ /\ actor # "gone"
          /\ Len(input) < InputCap
          /\ input' = Append(input, nread)
       \/ actor = "gone" /\ UNCHANGED input
    /\ rcv' = "recv"
    /\ UNCHANGED <<stream, actorVars, oob, senderVars, hc, bytes_in, pings, report>>

\* Mutant of SendOob: the end of the sender does not fail the send.
SendOob_unclosed ==
    /\ rcv = "oob"
    /\ oob < OobCap
    /\ oob' = oob + 1
    /\ rcv' = "recv"
    /\ UNCHANGED <<stream, input, actorVars, senderVars, hc, bytes_in, pings, report>>

\* oob.send(Pong): wait for room; when the sender is gone the Pong is dropped.
SendOob ==
    /\ rcv = "oob"
    /\ \/ ~SenderGone /\ oob < OobCap /\ oob' = oob + 1
       \/ SenderGone /\ UNCHANGED oob
    /\ rcv' = "recv"
    /\ UNCHANGED <<stream, input, actorVars, senderVars, hc, bytes_in, pings, report>>

-----------------------------------------------------------------------------
(***************************************************************************)
(* The SSH actor.                                                          *)
(***************************************************************************)

\* The top of the loop: a pending resize is applied first.
ActorTop ==
    /\ actor = "top"
    /\ actor' = "select"
    /\ applied' = IF pending # 0 THEN Append(applied, pending) ELSE applied
    /\ pending' = 0
    /\ UNCHANGED <<stream, rcv, input, current, oob, senderVars, hc, bytes_in, pings, report>>

\* Mutant of ActorTake: after a Resize the actor goes straight to its next
\* command.
ActorTake_overtaking ==
    /\ actor = "select"
    /\ input # <<>>
    /\ input' = Tail(input)
    /\ IF sent[Head(input)] = "Data"
       THEN actor' = "write" /\ current' = Head(input) /\ UNCHANGED pending
       ELSE pending' = Head(input) /\ UNCHANGED <<actor, current>>
    /\ UNCHANGED <<stream, rcv, applied, oob, senderVars, hc, bytes_in, pings, report>>

\* input_rx.recv yields a command: Data is written at once, a Resize is kept
\* for the top of the loop.
ActorTake ==
    /\ actor = "select"
    /\ input # <<>>
    /\ input' = Tail(input)
    /\ IF sent[Head(input)] = "Data"
       THEN actor' = "write" /\ current' = Head(input) /\ UNCHANGED pending
       ELSE actor' = "top" /\ pending' = Head(input) /\ UNCHANGED current
    /\ UNCHANGED <<stream, rcv, applied, oob, senderVars, hc, bytes_in, pings, report>>

\* write_all has written the bytes, for which the target granted window.
ActorWritten ==
    /\ actor = "write"
    /\ actor' = "top"
    /\ applied' = Append(applied, current)
    /\ current' = 0
    /\ UNCHANGED <<stream, rcv, input, pending, oob, senderVars, hc, bytes_in, pings, report>>

\* The loop is left: end of the channel, or write_all failed.  What the input
\* channel holds is dropped with it.
ActorEnds ==
    /\ actor \in {"select", "write"}
    /\ actor' = "gone"
    /\ input' = <<>>
    /\ current' = 0
    /\ UNCHANGED <<stream, rcv, pending, applied, oob, senderVars, hc, bytes_in, pings, report>>

-----------------------------------------------------------------------------
(***************************************************************************)
(* sender_task.  An abort takes effect when the task next yields: if it is *)
(* being polled on another thread it first runs on through every await     *)
(* that is ready.                                                          *)
(***************************************************************************)

\* reader.next() returns a chunk, which throttle may hold back.
NextChunk ==
    /\ snd = "select"
    /\ bytes_out < MaxOut
    /\ snd' = "throttle"
    /\ UNCHANGED <<stream, rcv, input, actorVars, oob, oob_open, hc, bytes_in, bytes_out,
                   delivered, pings, pongs, report>>

\* throttle lets the chunk through; it is metered.
Metered ==
    /\ snd = "throttle"
    /\ bytes_out' = bytes_out + 1
    /\ snd' = "send"
    /\ UNCHANGED <<stream, rcv, input, actorVars, oob, oob_open, hc, bytes_in, delivered,
                   pings, pongs, report>>

\* The chunk has been written to the client's stream.
DataSent ==
    /\ snd = "send"
    /\ up
    /\ delivered' = delivered + 1
    /\ snd' = "select"
    /\ UNCHANGED <<stream, rcv, input, actorVars, oob, oob_open, hc, bytes_in, bytes_out,
                   pings, pongs, report>>

\* reader.next() returns None: the session has ended and was drained.
NextEnd ==
    /\ snd = "select"
    /\ actor = "gone"
    /\ snd' = "closing"
    /\ UNCHANGED <<stream, rcv, input, actorVars, oob, oob_open, hc, bytes_in, bytes_out,
                   delivered, pings, pongs, report>>

\* The Closed frame is written, or not: the task ends and drops its end of the
\* out-of-band channel.
ClosedSent ==
    /\ snd = "closing"
    /\ snd' = "ended"
    /\ oob' = 0
    /\ UNCHANGED <<stream, rcv, input, actorVars, oob_open, hc, bytes_in, bytes_out,
                   delivered, pings, pongs, report>>

\* oob.recv yields a Pong to write.
TakeOob ==
    /\ snd = "select"
    /\ oob_open
    /\ oob > 0
    /\ oob' = oob - 1
    /\ snd' = "pong"
    /\ UNCHANGED <<stream, rcv, input, actorVars, oob_open, hc, bytes_in, bytes_out,
                   delivered, pings, pongs, report>>

\* Mutant of OobClosed: an empty channel is taken for a closed one.
OobClosed_empty ==
    /\ snd = "select"
    /\ oob_open
    /\ oob = 0
    /\ oob_open' = FALSE
    /\ UNCHANGED <<stream, rcv, input, actorVars, oob, snd, hc, bytes_in, bytes_out,
                   delivered, pings, pongs, report>>

\* oob.recv yields None: receiver_loop has dropped the other end.
OobClosed ==
    /\ snd = "select"
    /\ oob_open
    /\ oob = 0
    /\ ReceiverDone
    /\ oob_open' = FALSE
    /\ UNCHANGED <<stream, rcv, input, actorVars, oob, snd, hc, bytes_in, bytes_out,
                   delivered, pings, pongs, report>>

PongSent ==
    /\ snd = "pong"
    /\ up
    /\ pongs' = pongs + 1
    /\ snd' = "select"
    /\ UNCHANGED <<stream, rcv, input, actorVars, oob, oob_open, hc, bytes_in, bytes_out,
                   delivered, pings, report>>

\* Mutant of SendFails: the error is ignored and the loop goes on.
SendFails_ignored ==
    /\ snd \in {"send", "pong"}
    /\ ~up
    /\ snd' = "select"
    /\ UNCHANGED <<stream, rcv, input, actorVars, oob, oob_open, hc, bytes_in, bytes_out,
                   delivered, pings, pongs, report>>

\* Writing a frame fails; the loop is left.
SendFails ==
    /\ snd \in {"send", "pong"}
    /\ ~up
    /\ snd' = "ended"
    /\ oob' = 0
    /\ UNCHANGED <<stream, rcv, input, actorVars, oob_open, hc, bytes_in, bytes_out,
                   delivered, pings, pongs, report>>

-----------------------------------------------------------------------------
(***************************************************************************)
(* The end of handle_connection.                                           *)
(***************************************************************************)

\* Mutant of Abort: the end of receiver_loop is not awaited.
Abort_early ==
    /\ hc = "run"
    /\ hc' = "totals"
    /\ UNCHANGED <<stream, rcv, input, actorVars, oob, senderVars, bytes_in, pings, report>>

\* receiver_loop has returned; sender.abort() is not awaited.
Abort ==
    /\ hc = "run"
    /\ ReceiverDone
    /\ hc' = "totals"
    /\ UNCHANGED <<stream, rcv, input, actorVars, oob, senderVars, bytes_in, pings, report>>

\* The aborted task has yielded and is dropped.
Aborted ==
    /\ hc # "run"
    /\ ~SenderGone
    /\ snd' = "aborted"
    /\ oob' = 0
    /\ UNCHANGED <<stream, rcv, input, actorVars, oob_open, hc, bytes_in, bytes_out,
                   delivered, pings, pongs, report>>

\* HttpAuthHook::report_usage posts nothing for a connection without traffic.
report_usage(in, out) == IF in = 0 /\ out = 0 THEN <<>> ELSE <<in, out>>

\* meter.totals(), then report_usage.
ReadTotals ==
    /\ hc = "totals"
    /\ hc' = "reported"
    /\ report' = report_usage(bytes_in, bytes_out)
    /\ UNCHANGED <<stream, rcv, input, actorVars, oob, senderVars, bytes_in, pings>>

-----------------------------------------------------------------------------
Client == Drop \/ \E k \in Kinds : ClientSends(k)

Receiver ==
    \/ RecvData
    \/ RecvResize
    \/ RecvPing
    \/ RecvClose
    \/ RecvOther
    \/ RecvErr
    \/ SendInput
    \/ SendOob

Actor == ActorTop \/ ActorTake \/ ActorWritten \/ ActorEnds

Sender ==
    \/ NextChunk
    \/ Metered
    \/ DataSent
    \/ NextEnd
    \/ ClosedSent
    \/ TakeOob
    \/ OobClosed
    \/ PongSent
    \/ SendFails
    \/ Aborted

Next == Client \/ Receiver \/ Actor \/ Sender \/ Abort \/ ReadTotals

Spec == Init /\ [][Next]_vars

(***************************************************************************)
(* Tokio runs every ready task, so the gateway's own tasks go on; a write  *)
(* to the client completes or fails (the client reads, or the connection   *)
(* times out); select! polls its branches in random order, so a Pong that  *)
(* waits is not passed over for ever.  What the client sends, the output   *)
(* and the end of the target are not fair.                                 *)
(***************************************************************************)
GatewayFairness ==
    /\ WF_vars(Receiver)
    /\ WF_vars(ActorTop)
    /\ WF_vars(ActorTake)
    /\ WF_vars(Metered)
    /\ WF_vars(DataSent \/ PongSent \/ SendFails)
    /\ WF_vars(ClosedSent)
    /\ SF_vars(TakeOob)
    /\ WF_vars(Aborted)
    /\ WF_vars(Abort)
    /\ WF_vars(ReadTotals)

\* The target keeps reading its input.  write_all has no timeout: a target that
\* stops reading blocks the actor, then receiver_loop, and Close is not read.
TargetFairness == WF_vars(ActorWritten)

FairSpec == Spec /\ GatewayFairness /\ TargetFairness

-----------------------------------------------------------------------------
(***************************************************************************)
(* Properties.                                                             *)
(***************************************************************************)

Elements(s) == {s[i] : i \in DOMAIN s}
Ascending(s) == \A i, j \in DOMAIN s : i < j => s[i] < s[j]

\* What has reached the target is, in order and without repetition, a prefix of
\* the keystrokes and resizes the client sent: through the bounded channel, the
\* resize kept for the top of the loop and the end of the actor, nothing
\* overtakes or is skipped (handler.rs:361-374, gw-ssh lib.rs:236-270).
InputInOrder ==
    /\ Ascending(applied)
    /\ \A f \in Elements(applied) :
          /\ f \in 1..nread
          /\ {g \in 1..f : sent[g] \in Inputs} \subseteq Elements(applied)

\* Output is metered before it is sent, and a connection is charged for at most
\* one chunk that a failed or aborted send did not deliver (handler.rs:314-320).
MeterBracketsDelivery ==
    /\ delivered <= bytes_out
    /\ bytes_out <= delivered + 1

\* The frames of keystrokes that receiver_loop has read.
DataRead == {f \in 1..nread : sent[f] = "Data"}

\* The usage report covers exactly the keystrokes that were read, for receiver_loop
\* has ended before the totals are taken (handler.rs:79-87).
InputBilled ==
    hc = "reported" => (IF report = <<>> THEN 0 ELSE report[1]) = Cardinality(DataRead)

\* While the sender lives no Pong is lost or invented on its way through the
\* out-of-band channel, whatever select! chooses (handler.rs:313-333, 375-377).
PongsConserved ==
    ~SenderGone =>
        pings = pongs + oob + (IF rcv = "oob" THEN 1 ELSE 0) + (IF snd = "pong" THEN 1 ELSE 0)

\* A connection that was lost, or whose client sent Close, is wound up: the
\* receiver is not kept from noticing by a full channel, usage is reported and
\* the sender goes (handler.rs:69-87, 355-385).
WindsUp ==
    (~up \/ \E f \in DOMAIN sent : sent[f] = "Close") ~> (hc = "reported" /\ SenderGone)

\* Every Ping that is read is answered unless the sender goes first
\* (handler.rs:326-331, 375-377).
PingsAreAnswered ==
    \A n \in 1..MaxFrames : pings >= n ~> (pongs >= n \/ SenderGone)
=============================================================================
