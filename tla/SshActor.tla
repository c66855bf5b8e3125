------------------------------ MODULE SshActor ------------------------------
(***************************************************************************)
(* The SSH session actor of crates/gw-ssh/src/lib.rs between the target    *)
(* and the session: the select loop, which both reads the SSH channel and  *)
(* writes keystrokes to it, the bounded output channel behind it, and the  *)
(* ingest task of crates/gw-core/src/lib.rs that empties that channel.     *)
(* Order and content of the input are the subject of module Connection;    *)
(* here keystrokes are counted, and output is numbered.                    *)
(*                                                                         *)
(* The SSH channel and the target are external.  SSH flow control bounds   *)
(* what either side may have in flight: ChanCap messages towards the       *)
(* actor, WinCap keystrokes towards the target.  A lockstep target (cat,   *)
(* an echoing shell) reads a keystroke only after it has written what the  *)
(* one before gave rise to; any other target reads and writes              *)
(* independently.  Eof only ends its output: it may still read, until the  *)
(* channel is closed or the connection is lost.                            *)
(*                                                                         *)
(* Two exits of the loop are not modelled because nothing takes them:      *)
(* output_tx.send fails, and input_rx.recv yields None, only after the     *)
(* ingest task has gone, since that task owns the output receiver and an   *)
(* Arc of the Session with the input sender; and it goes only when the     *)
(* actor has dropped output_tx (action IngestClose).                       *)
(***************************************************************************)
EXTENDS Integers, Sequences

CONSTANTS ChanCap,  \* messages the SSH channel holds for the actor
          WinCap,   \* keystrokes the target's window admits
          OutCap,   \* capacity of the output channel (256 in the code)
          InCap,    \* capacity of the input channel (64 in the code)
          MaxOut,   \* bound: output the target writes of its own accord
          MaxIn     \* bound: keystrokes

ASSUME SshActorAssumption ==
    /\ {ChanCap, WinCap, OutCap, InCap} \subseteq Nat \ {0}
    /\ MaxOut \in Nat
    /\ MaxIn \in Nat

VARIABLES lockstep,  \* how the target behaves
          wrote,     \* the target's output so far: chunks 1..wrote
          owe,       \* a lockstep target has still to answer its last keystroke
          ended,     \* the target writes no more: Eof, Close or the connection lost
          lost,      \* the target takes no more either: Close or the connection lost
          chan,      \* output that channel.wait() has not returned yet
          actor,     \* await of the loop, or how it was left: "eof", "failed"
          cur,       \* the chunk in the actor's hand
          output,    \* the output channel
          log,       \* what the ingest task has appended to the session
          closed,    \* the ingest task has closed the session
          input,     \* keystrokes in the input channel
          unread,    \* keystrokes written that the target has not read
          taken      \* keystrokes that the target has read

target == <<lockstep, wrote, owe, ended, lost>>
keys == <<input, unread, taken>>
vars == <<target, chan, actor, cur, output, log, closed, keys>>

Gone == actor \in {"eof", "failed"}
Written == IF actor = "write" THEN 1 ELSE 0
Given == taken + unread + Written + input
Echoes == IF ~lockstep THEN 0 ELSE IF owe THEN taken - 1 ELSE taken

TypeOK ==
    /\ lockstep \in BOOLEAN /\ owe \in BOOLEAN /\ ended \in BOOLEAN
    /\ lost \in BOOLEAN /\ closed \in BOOLEAN
    /\ wrote \in Nat
    /\ chan \in Seq(Nat) /\ Len(chan) <= ChanCap
    /\ actor \in {"select", "send", "write", "eof", "failed"}
    /\ cur \in Nat
    /\ output \in Seq(Nat) /\ Len(output) <= OutCap
    /\ log \in Seq(Nat)
    /\ input \in 0..InCap /\ unread \in 0..WinCap /\ taken \in Nat

Init ==
    /\ lockstep \in BOOLEAN
    /\ wrote = 0 /\ owe = FALSE /\ ended = FALSE /\ lost = FALSE
    /\ chan = <<>>
    /\ actor = "select" /\ cur = 0
    /\ output = <<>>
    /\ log = <<>> /\ closed = FALSE
    /\ input = 0 /\ unread = 0 /\ taken = 0

-----------------------------------------------------------------------------
(***************************************************************************)
(* The target and the client.                                              *)
(***************************************************************************)

Write ==
    /\ ~ended
    /\ Len(chan) < ChanCap
    /\ wrote' = wrote + 1
    /\ chan' = Append(chan, wrote + 1)
    /\ UNCHANGED <<lockstep, ended, lost, actor, cur, output, log, closed, keys>>

\* Output that is not the answer to a keystroke.
TargetWrites ==
    /\ Write
    /\ wrote < MaxOut + Echoes
    /\ UNCHANGED owe

TargetEchoes ==
    /\ Write
    /\ owe
    /\ owe' = FALSE

TargetReads ==
    /\ ~lost
    /\ unread > 0
    /\ ~owe
    /\ unread' = unread - 1
    /\ taken' = taken + 1
    /\ owe' = (lockstep /\ ~ended)
    /\ UNCHANGED <<lockstep, wrote, ended, lost, chan, actor, cur, output, log, closed, input>>

\* Eof without Close, which channel.wait() reports behind the output that was
\* received before: the target answers no more, and writes to it go through.
TargetEof ==
    /\ ~ended
    /\ ended' = TRUE
    /\ owe' = FALSE
    /\ UNCHANGED <<lockstep, wrote, lost, chan, actor, cur, output, log, closed, keys>>

\* Close, or the loss of the SSH connection: reported in the same way, and a
\* write fails from here on.
TargetEnds ==
    /\ ~lost
    /\ ended' = TRUE
    /\ lost' = TRUE
    /\ UNCHANGED <<lockstep, wrote, owe, chan, actor, cur, output, log, closed, keys>>

\* Session::send_input finds room in the input channel.
Type ==
    /\ ~Gone
    /\ Given < MaxIn
    /\ input < InCap
    /\ input' = input + 1
    /\ UNCHANGED <<target, chan, actor, cur, output, log, closed, unread, taken>>

-----------------------------------------------------------------------------
(***************************************************************************)
(* The actor.                                                              *)
(***************************************************************************)

\* channel.wait() returns Data or ExtendedData.
ActorRecv ==
    /\ actor = "select"
    /\ chan # <<>>
    /\ cur' = Head(chan)
    /\ chan' = Tail(chan)
    /\ actor' = "send"
    /\ UNCHANGED <<target, output, log, closed, keys>>

\* Mutant of ActorSend: try_send, which drops the chunk when the channel is full.
ActorSend_try ==
    /\ actor = "send"
    /\ output' = IF Len(output) < OutCap THEN Append(output, cur) ELSE output
    /\ actor' = "select"
    /\ cur' = 0
    /\ UNCHANGED <<target, chan, log, closed, keys>>

\* output_tx.send finds room; until then the actor does nothing else.
ActorSend ==
    /\ actor = "send"
    /\ Len(output) < OutCap
    /\ output' = Append(output, cur)
    /\ actor' = "select"
    /\ cur' = 0
    /\ UNCHANGED <<target, chan, log, closed, keys>>

\* Mutant of ActorEof: the end overtakes the output received before it.
ActorEof_early ==
    /\ actor = "select"
    /\ ended
    /\ actor' = "eof"
    /\ input' = 0
    /\ UNCHANGED <<target, chan, cur, output, log, closed, unread, taken>>

\* channel.wait() returns Eof, Close or None: the loop is left, and the input
\* channel dropped with what it holds.
ActorEof ==
    /\ actor = "select"
    /\ ended
    /\ chan = <<>>
    /\ actor' = "eof"
    /\ input' = 0
    /\ UNCHANGED <<target, chan, cur, output, log, closed, unread, taken>>

\* input_rx.recv yields a keystroke; write_all begins.
ActorTake ==
    /\ actor = "select"
    /\ input > 0
    /\ input' = input - 1
    /\ actor' = "write"
    /\ UNCHANGED <<target, chan, cur, output, log, closed, unread, taken>>

\* Mutant of ActorWritten: write, which may write nothing, instead of write_all.
ActorWritten_write ==
    /\ actor = "write"
    /\ unread' = IF unread < WinCap THEN unread + 1 ELSE unread
    /\ actor' = "select"
    /\ UNCHANGED <<target, chan, cur, output, log, closed, input, taken>>

\* write_all is granted window and returns.
ActorWritten ==
    /\ actor = "write"
    /\ unread < WinCap
    /\ unread' = unread + 1
    /\ actor' = "select"
    /\ UNCHANGED <<target, chan, cur, output, log, closed, input, taken>>

\* Mutant of ActorWriteFails: the error is ignored and the write tried again.
ActorWriteFails_retry ==
    /\ actor = "write"
    /\ lost
    /\ UNCHANGED vars

\* write_all fails, as the channel is closed: the loop is left.
ActorWriteFails ==
    /\ actor = "write"
    /\ lost
    /\ actor' = "failed"
    /\ input' = 0
    /\ UNCHANGED <<target, chan, cur, output, log, closed, unread, taken>>

-----------------------------------------------------------------------------
(***************************************************************************)
(* The ingest task.                                                        *)
(***************************************************************************)

\* output.recv() yields a chunk, which is appended.
Ingest ==
    /\ output # <<>>
    /\ log' = Append(log, Head(output))
    /\ output' = Tail(output)
    /\ UNCHANGED <<target, chan, actor, cur, closed, keys>>

\* Mutant of IngestClose: what the channel still holds is not drained.
IngestClose_undrained ==
    /\ Gone
    /\ ~closed
    /\ closed' = TRUE
    /\ output' = <<>>
    /\ UNCHANGED <<target, chan, actor, cur, log, keys>>

\* output.recv() yields None: the actor has dropped output_tx and the channel
\* is drained.
IngestClose ==
    /\ Gone
    /\ output = <<>>
    /\ ~closed
    /\ closed' = TRUE
    /\ UNCHANGED <<target, chan, actor, cur, output, log, keys>>

-----------------------------------------------------------------------------
Target == TargetWrites \/ TargetEchoes \/ TargetReads \/ TargetEof \/ TargetEnds
Actor == ActorRecv \/ ActorSend \/ ActorEof \/ ActorTake \/ ActorWritten \/ ActorWriteFails

Next == Target \/ Type \/ Actor \/ Ingest \/ IngestClose

Spec == Init /\ [][Next]_vars

(***************************************************************************)
(* Tokio runs ready tasks, and select! polls its two branches in random    *)
(* order, so that neither is passed over for ever.  The target reads when  *)
(* it can, after its Eof too, and answers what it owes; it need not write  *)
(* otherwise, or end.                                                      *)
(***************************************************************************)
Fairness ==
    /\ SF_vars(ActorRecv)
    /\ SF_vars(ActorTake)
    /\ WF_vars(ActorEof)
    /\ WF_vars(ActorSend)
    /\ WF_vars(ActorWritten \/ ActorWriteFails)
    /\ WF_vars(Ingest)
    /\ WF_vars(IngestClose)
    /\ WF_vars(TargetReads)
    /\ WF_vars(TargetEchoes)

FairSpec == Spec /\ Fairness

-----------------------------------------------------------------------------
(***************************************************************************)
(* Properties.                                                             *)
(***************************************************************************)

\* The session's output is the target's, in order, without loss or repetition,
\* up to a point; and nothing is appended after the close (gw-ssh
\* lib.rs:242-271, gw-core lib.rs:157-166).
P == INSTANCE Pipe WITH Items <- 1..(MaxOut + MaxIn), sent <- [i \in 1..wrote |-> i],
                        delivered <- log, ended <- closed
OutputPiped == P!Spec

\* A session closes with all of the target's output unless a keystroke was
\* being written when the target went; then it lacks at most what the SSH
\* channel was holding (gw-ssh lib.rs:243-263).
CutOff ==
    closed => /\ actor = "eof" => Len(log) = wrote
              /\ wrote - Len(log) <= ChanCap

\* The actor waits in write_all for the target to read, and the target waits
\* for the actor to read its output.
WaitCycle ==
    /\ ~ended
    /\ actor = "write"
    /\ unread = WinCap
    /\ owe
    /\ Len(chan) = ChanCap

\* Whatever the target does, its output reaches the session, unless a write
\* fails or the one wait cycle of the loop closes (gw-ssh lib.rs:242-269).
OutputIngested ==
    \A n \in 1..(MaxOut + MaxIn) :
        wrote >= n ~> (Len(log) >= n \/ actor = "failed" \/ WaitCycle)

\* Every keystroke the actor accepted reaches the target, or the target ends, or
\* the wait cycle closes: full channels alone do not stop the loop (gw-ssh
\* lib.rs:257-263).
KeystrokesTaken ==
    \A n \in 1..MaxIn : Given >= n ~> (taken >= n \/ ended \/ WaitCycle)

\* The end of the target, by Eof alone too, ends the session, even from the
\* middle of a write
\* (gw-ssh lib.rs:254-271, gw-core lib.rs:157-166).
EndClosesSession == ended ~> closed
=============================================================================
