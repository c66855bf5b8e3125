----------------------------- MODULE Scrollback -----------------------------
(***************************************************************************)
(* One session's output path in crates/gw-core/src/lib.rs: the bounded     *)
(* scrollback (SessionInner), the ingest task that drains the SSH output   *)
(* channel into it (spawn_ingest) and the SessionReaders that replay it to *)
(* attached clients (SessionReader::next), synchronised by a Mutex around  *)
(* the buffer and a tokio Notify that keeps no permit.                     *)
(*                                                                         *)
(* A byte is represented by its absolute offset in the session's lifetime  *)
(* output, so that a lost, repeated or reordered byte is visible wherever  *)
(* bytes are copied.                                                       *)
(*                                                                         *)
(* Every step below is what the code does between two points at which      *)
(* another task can run: a critical section of the Mutex, one call of      *)
(* notify_waiters, or the creation of a Notified future.                   *)
(***************************************************************************)
EXTENDS Integers, Sequences

CONSTANTS Readers,    \* the clients that may attach to this session
          MaxBytes,   \* max_bytes: the bound on retained scrollback
          MaxChunk,   \* bound: bytes in one chunk of the SSH output channel
          MaxOutput   \* bound: bytes the target outputs in the session's life

ASSUME ScrollbackAssumption ==
    /\ MaxBytes \in Nat
    /\ MaxChunk \in Nat
    /\ MaxOutput \in Nat

VARIABLES buf,           \* SessionInner.buf
          start_offset,  \* SessionInner.start_offset
          end_offset,    \* SessionInner.end_offset
          closed,        \* SessionInner.closed
          ingest,        \* control point of the ingest task
          rpc,           \* rpc[r]: control point of reader r and of the sender task that owns it
          cursor,        \* cursor[r]: SessionReader.cursor
          woken,         \* woken[r]: r's Notified future has been completed
          got            \* got[r]: the bytes next() returned to r since it attached (history)

inner == <<buf, start_offset, end_offset, closed>>
readers == <<rpc, cursor, woken, got>>
vars == <<buf, start_offset, end_offset, closed, ingest, rpc, cursor, woken, got>>

IngestStates == {"recv", "notify", "notifyClosed", "done"}

(***************************************************************************)
(* "off"     no sender task for this client                                *)
(* "idle"    the sender task is between two polls of next(), or next() is  *)
(*           at its loop head without a Notified future                    *)
(* "armed"   a Notified future exists and the buffer is not yet checked    *)
(* "parked"  next() awaits its Notified future                             *)
(* "busy"    next() returned a chunk: the sender throttles, meters, sends  *)
(* "ended"   next() returned None                                          *)
(***************************************************************************)
ReaderStates == {"off", "idle", "armed", "parked", "busy", "ended"}

\* The n bytes of lifetime output from absolute offset from on.
Chunk(from, n) == [i \in 1..n |-> from + i - 1]

TypeOK ==
    /\ buf \in Seq(Nat)
    /\ start_offset \in Nat
    /\ end_offset \in Nat
    /\ closed \in BOOLEAN
    /\ ingest \in IngestStates
    /\ rpc \in [Readers -> ReaderStates]
    /\ cursor \in [Readers -> Nat]
    /\ woken \in [Readers -> BOOLEAN]
    /\ got \in [Readers -> Seq(Nat)]

Init ==
    /\ buf = <<>>
    /\ start_offset = 0
    /\ end_offset = 0
    /\ closed = FALSE
    /\ ingest = "recv"
    /\ rpc = [r \in Readers |-> "off"]
    /\ cursor = [r \in Readers |-> 0]
    /\ woken = [r \in Readers |-> FALSE]
    /\ got = [r \in Readers |-> <<>>]

-----------------------------------------------------------------------------
(***************************************************************************)
(* The ingest task.                                                        *)
(***************************************************************************)

\* Mutant of append: the excess is computed from the chunk alone.
append_chunk_excess(data) ==
    LET all == buf \o data
        excess == IF Len(data) > MaxBytes THEN Len(data) - MaxBytes ELSE 0
    IN  /\ buf' = SubSeq(all, excess + 1, Len(all))
        /\ start_offset' = start_offset + excess
        /\ end_offset' = end_offset + Len(data)

\* SessionInner::append: extend the buffer, then drain what exceeds the cap.
append(data) ==
    LET all == buf \o data
        excess == IF Len(all) > MaxBytes THEN Len(all) - MaxBytes ELSE 0
    IN  /\ buf' = SubSeq(all, excess + 1, Len(all))
        /\ start_offset' = start_offset + excess
        /\ end_offset' = end_offset + Len(data)

\* Mutant of notify_waiters: notify_one, which completes a single future.
notify_one ==
    LET waiting == {r \in Readers : rpc[r] \in {"armed", "parked"} /\ ~woken[r]}
    IN  IF waiting = {} THEN UNCHANGED woken
        ELSE \E r \in waiting : woken' = [woken EXCEPT ![r] = TRUE]

\* Notify::notify_waiters completes the futures that exist now; a future made
\* later is not affected.
notify_waiters ==
    woken' = [r \in Readers |-> woken[r] \/ rpc[r] \in {"armed", "parked"}]

\* output.recv() yields a chunk of n bytes (an empty one included), appended
\* under the lock.
IngestRecv(n) ==
    /\ ingest = "recv"
    /\ end_offset + n <= MaxOutput
    /\ append(Chunk(end_offset, n))
    /\ ingest' = "notify"
    /\ UNCHANGED <<closed, readers>>

\* Mutant of IngestNotify: appending without notifying.
IngestNotify_silent ==
    /\ ingest = "notify"
    /\ ingest' = "recv"
    /\ UNCHANGED <<inner, readers>>

\* The task wakes the readers it appended for.
IngestNotify ==
    /\ ingest = "notify"
    /\ notify_waiters
    /\ ingest' = "recv"
    /\ UNCHANGED <<inner, rpc, cursor, got>>

\* output.recv() yields None: the SSH actor is gone and its queue is drained.
IngestClose ==
    /\ ingest = "recv"
    /\ closed' = TRUE
    /\ ingest' = "notifyClosed"
    /\ UNCHANGED <<buf, start_offset, end_offset, readers>>

\* Mutant of IngestNotifyClosed: closing without the second notify_waiters.
IngestNotifyClosed_silent ==
    /\ ingest = "notifyClosed"
    /\ ingest' = "done"
    /\ UNCHANGED <<inner, readers>>

\* The task wakes the readers that must learn of the end.
IngestNotifyClosed ==
    /\ ingest = "notifyClosed"
    /\ notify_waiters
    /\ ingest' = "done"
    /\ UNCHANGED <<inner, rpc, cursor, got>>

-----------------------------------------------------------------------------
(***************************************************************************)
(* A SessionReader, driven by the select loop of sender_task.              *)
(***************************************************************************)

\* Mutant of Attach: a reattaching client continues where it left off.
Attach_keep_cursor(r) ==
    /\ rpc[r] = "off"
    /\ rpc' = [rpc EXCEPT ![r] = "idle"]
    /\ got' = [got EXCEPT ![r] = <<>>]
    /\ UNCHANGED <<inner, ingest, cursor, woken>>

\* Session::reader: a new client replays from the start.
Attach(r) ==
    /\ rpc[r] = "off"
    /\ rpc' = [rpc EXCEPT ![r] = "idle"]
    /\ cursor' = [cursor EXCEPT ![r] = 0]
    /\ got' = [got EXCEPT ![r] = <<>>]
    /\ UNCHANGED <<inner, ingest, woken>>

\* notify.notified() and enable(): register before looking at the buffer.
Arm(r) ==
    /\ rpc[r] = "idle"
    /\ rpc' = [rpc EXCEPT ![r] = "armed"]
    /\ woken' = [woken EXCEPT ![r] = FALSE]
    /\ UNCHANGED <<inner, ingest, cursor, got>>

\* Mutant of Check: the whole buffer is copied, not the part from the cursor on.
Check_copy_all(r) ==
    /\ rpc[r] = "armed"
    /\ IF cursor[r] < end_offset
       THEN /\ got' = [got EXCEPT ![r] = @ \o buf]
            /\ cursor' = [cursor EXCEPT ![r] = end_offset]
            /\ rpc' = [rpc EXCEPT ![r] = "busy"]
       ELSE /\ rpc' = [rpc EXCEPT ![r] = IF closed THEN "ended" ELSE "parked"]
            /\ UNCHANGED <<cursor, got>>
    /\ UNCHANGED <<inner, ingest, woken>>

\* The critical section of next(): skip what was trimmed, then return a chunk,
\* or None, or go on to await the Notified future.
Check(r) ==
    LET from == IF cursor[r] < start_offset THEN start_offset ELSE cursor[r]
        lo == from - start_offset
    IN  /\ rpc[r] = "armed"
        /\ IF from < end_offset
           THEN /\ got' = [got EXCEPT ![r] = @ \o SubSeq(buf, lo + 1, Len(buf))]
                /\ cursor' = [cursor EXCEPT ![r] = end_offset]
                /\ rpc' = [rpc EXCEPT ![r] = "busy"]
           ELSE /\ cursor' = [cursor EXCEPT ![r] = from]
                /\ rpc' = [rpc EXCEPT ![r] = IF closed THEN "ended" ELSE "parked"]
                /\ UNCHANGED got
        /\ UNCHANGED <<inner, ingest, woken>>

\* The await completes; next() goes back to its loop head for a new future.
Wake(r) ==
    /\ rpc[r] = "parked"
    /\ woken[r]
    /\ rpc' = [rpc EXCEPT ![r] = "idle"]
    /\ UNCHANGED <<inner, ingest, cursor, woken, got>>

\* The select! of sender_task takes an out-of-band frame: the pending next()
\* is dropped, its Notified future with it, and called afresh afterwards.
Cancel(r) ==
    /\ rpc[r] = "parked"
    /\ rpc' = [rpc EXCEPT ![r] = "idle"]
    /\ UNCHANGED <<inner, ingest, cursor, woken, got>>

\* The sender has throttled, metered and sent the chunk.
Sent(r) ==
    /\ rpc[r] = "busy"
    /\ rpc' = [rpc EXCEPT ![r] = "idle"]
    /\ UNCHANGED <<inner, ingest, cursor, woken, got>>

\* The sender task is aborted at an await, breaks on a send error, or has
\* ended: the reader is dropped.
Detach(r) ==
    /\ rpc[r] \in {"idle", "parked", "busy", "ended"}
    /\ rpc' = [rpc EXCEPT ![r] = "off"]
    /\ UNCHANGED <<inner, ingest, cursor, woken, got>>

-----------------------------------------------------------------------------
Ingest ==
    \/ \E n \in 0..MaxChunk : IngestRecv(n)
    \/ IngestNotify
    \/ IngestClose
    \/ IngestNotifyClosed

Reader(r) ==
    \/ Attach(r)
    \/ Arm(r)
    \/ Check(r)
    \/ Wake(r)
    \/ Cancel(r)
    \/ Sent(r)
    \/ Detach(r)

Next == Ingest \/ \E r \in Readers : Reader(r)

Spec == Init /\ [][Next]_vars

(***************************************************************************)
(* Tokio runs every task that is ready, so the ingest task completes the   *)
(* notification it owes and a reader keeps going.  Sent is fair because a  *)
(* send that cannot progress fails when the connection times out.  Output  *)
(* arriving, the session ending and clients coming and going are choices   *)
(* of the environment and are not fair.                                    *)
(***************************************************************************)
Fairness ==
    /\ WF_vars(IngestNotify)
    /\ WF_vars(IngestNotifyClosed)
    /\ \A r \in Readers : /\ WF_vars(Arm(r))
                          /\ WF_vars(Check(r))
                          /\ WF_vars(Wake(r))
                          /\ WF_vars(Sent(r))

FairSpec == Spec /\ Fairness

-----------------------------------------------------------------------------
(***************************************************************************)
(* Properties.                                                             *)
(***************************************************************************)

\* The scrollback always holds exactly the newest bytes of the session's
\* output, never more than the cap, and its two offsets bracket it
\* (SessionInner::append, gw-core lib.rs:96-104).
BufferHoldsTail ==
    /\ start_offset <= end_offset
    /\ end_offset - start_offset <= MaxBytes
    /\ buf = Chunk(start_offset, end_offset - start_offset)
    /\ start_offset > 0 => end_offset - start_offset = MaxBytes

\* A client sees output in order and never twice within one attachment, and
\* every byte behind its cursor was either handed to it or has aged out of the
\* scrollback; in particular a next() cancelled by select! loses nothing
\* (SessionReader::next, gw-core lib.rs:177-202).
StreamIntegrity ==
    \A r \in Readers :
        /\ \A i, j \in DOMAIN got[r] : i < j => got[r][i] < got[r][j]
        /\ \A i \in DOMAIN got[r] : got[r][i] < cursor[r]
        /\ \A o \in 0..(cursor[r] - 1) :
              o >= start_offset => \E i \in DOMAIN got[r] : got[r][i] = o

\* No lost wakeup: a reader that sleeps without a wakeup, while the ingest task
\* owes none, has everything and the session is open (the register-then-check
\* order of gw-core lib.rs:181-199 against append-then-notify of 159-164).
NoLostWakeup ==
    \A r \in Readers :
        rpc[r] = "parked" /\ ~woken[r] =>
            /\ cursor[r] = end_offset \/ ingest = "notify"
            /\ ~closed \/ ingest = "notifyClosed"

\* A client is told that the session ended (None, hence ServerFrame::Closed)
\* only after the session closed and all retained output was handed to it
\* (gw-core lib.rs:189-197).
EndAfterDrain ==
    \A r \in Readers :
        rpc[r] = "ended" =>
            /\ closed
            /\ cursor[r] = end_offset
            /\ \A o \in start_offset..(end_offset - 1) :
                  \E i \in DOMAIN got[r] : got[r][i] = o

\* Once the session has closed, every attached reader comes to its end or is
\* dropped; none sleeps through the close (gw-core lib.rs:163-164, 195-197).
CloseReachesReaders ==
    \A r \in Readers : (closed /\ rpc[r] # "off") ~> rpc[r] \in {"ended", "off"}

\* Every byte output while a client is attached reaches it, unless the byte
\* ages out or the client leaves first (gw-core lib.rs:5-12).
OutputReachesReaders ==
    \A r \in Readers, o \in 0..(MaxOutput - 1) :
        (rpc[r] # "off" /\ o < end_offset) ~>
            \/ rpc[r] = "off"
            \/ o < start_offset
            \/ \E i \in DOMAIN got[r] : got[r][i] = o

-----------------------------------------------------------------------------
(***************************************************************************)
(* The abstract specification, with the buffer, the locks and the wakeups  *)
(* hidden.                                                                 *)
(***************************************************************************)
attachment ==
    [r \in Readers |-> IF rpc[r] = "off" THEN "off"
                       ELSE IF rpc[r] = "ended" THEN "end" ELSE "on"]

Log == INSTANCE OutputLog WITH Window <- MaxBytes,
                               produced <- end_offset,
                               trimmed <- start_offset,
                               finished <- closed,
                               att <- attachment,
                               pos <- cursor,
                               received <- got

\* The ring buffer, the ingest task and the readers implement OutputLog.
ImplementsOutputLog == Log!LogSpec
=============================================================================
