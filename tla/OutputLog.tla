----------------------------- MODULE OutputLog -----------------------------
(***************************************************************************)
(* What a keep-alive session promises about its terminal output, with no   *)
(* buffer, no lock and no wakeups.  The session's lifetime output is a log *)
(* of bytes numbered from 0; the last Window bytes are retained; an        *)
(* attached client is handed, in one delivery, every retained byte it has  *)
(* not been handed yet, in order; it is told the output ended only when    *)
(* the log is finished and it has everything.                              *)
(*                                                                         *)
(* Scrollback (the ring buffer, the ingest task and the SessionReader of   *)
(* crates/gw-core/src/lib.rs) is shown to implement this specification.    *)
(***************************************************************************)
EXTENDS Integers, Sequences

CONSTANTS Readers,  \* the clients that may attach
          Window    \* how many bytes are retained for replay

VARIABLES produced,  \* number of bytes ever output
          trimmed,   \* bytes numbered below this one have aged out
          finished,  \* no more output will follow
          att,       \* att[r]: "off", "on" or "end" (told that the output ended)
          pos,       \* pos[r]: bytes numbered below this one are behind reader r
          received   \* received[r]: the bytes handed to reader r since it attached

logVars == <<produced, trimmed, finished, att, pos, received>>

Larger(a, b) == IF a >= b THEN a ELSE b

\* The n bytes of the log that start at byte number from.
Bytes(from, n) == [i \in 1..n |-> from + i - 1]

LogInit ==
    /\ produced = 0
    /\ trimmed = 0
    /\ finished = FALSE
    /\ att = [r \in Readers |-> "off"]
    /\ pos = [r \in Readers |-> 0]
    /\ received = [r \in Readers |-> <<>>]

\* More bytes are output; all but the last Window of them age out.
Produce ==
    /\ ~finished
    /\ produced' \in Nat
    /\ produced' >= produced
    /\ trimmed' = Larger(trimmed, produced' - Window)
    /\ UNCHANGED <<finished, att, pos, received>>

Finish ==
    /\ finished' = TRUE
    /\ UNCHANGED <<produced, trimmed, att, pos, received>>

\* A client attaches and starts from the oldest retained byte.
Join(r) ==
    /\ att[r] = "off"
    /\ att' = [att EXCEPT ![r] = "on"]
    /\ pos' = [pos EXCEPT ![r] = 0]
    /\ received' = [received EXCEPT ![r] = <<>>]
    /\ UNCHANGED <<produced, trimmed, finished>>

\* An attached client is handed everything retained that it does not have.
Deliver(r) ==
    LET from == Larger(pos[r], trimmed)
    IN  /\ att[r] = "on"
        /\ from < produced
        /\ received' = [received EXCEPT ![r] = @ \o Bytes(from, produced - from)]
        /\ pos' = [pos EXCEPT ![r] = produced]
        /\ UNCHANGED <<produced, trimmed, finished, att>>

\* Everything the client lacked has aged out: it moves past what it missed.
Skip(r) ==
    /\ att[r] = "on"
    /\ trimmed = produced
    /\ pos' = [pos EXCEPT ![r] = produced]
    /\ UNCHANGED <<produced, trimmed, finished, att, received>>

\* The client is told that the output ended: it has all there is to have.
TellEnd(r) ==
    /\ att[r] = "on"
    /\ finished
    /\ pos' = [pos EXCEPT ![r] = produced]
    /\ \/ pos[r] = produced
       \/ trimmed = produced
    /\ att' = [att EXCEPT ![r] = "end"]
    /\ UNCHANGED <<produced, trimmed, finished, received>>

Leave(r) ==
    /\ att' = [att EXCEPT ![r] = "off"]
    /\ UNCHANGED <<produced, trimmed, finished, pos, received>>

LogNext ==
    \/ Produce
    \/ Finish
    \/ \E r \in Readers : \/ Join(r)
                          \/ Deliver(r)
                          \/ Skip(r)
                          \/ TellEnd(r)
                          \/ Leave(r)

LogSpec == LogInit /\ [][LogNext]_logVars
=============================================================================
