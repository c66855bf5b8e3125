------------------------------ MODULE Framing ------------------------------
(***************************************************************************)
(* One direction of the control stream: the codec of                       *)
(* crates/gw-proto/src/codec.rs, FramedSend and FramedRecv of              *)
(* crates/gw-transport/src/framed.rs, and what becomes of frames when a    *)
(* sender is aborted in the middle of one or the connection goes away.     *)
(*                                                                         *)
(* Bytes are real but few: Radix stands for 256, and of the frame types    *)
(* one without and one with a payload are kept.  The QUIC stream is        *)
(* external: an ordered queue of bytes with a flow-control window.         *)
(***************************************************************************)
EXTENDS Integers, Sequences, FiniteSetsExt

CONSTANTS Radix,          \* values of a byte
          LEN_PREFIX,     \* width of the length prefix
          MAX_FRAME_LEN,  \* largest encoded frame
          VARINT_MAX,     \* bytes of the longest varint: varint_max::<usize> in postcard
          Window,         \* bytes of the stream in flight
          Payloads,       \* contents of Data frames
          MaxFrames       \* bound: frames sent

Byte == 0..(Radix - 1)

\* A byte of a varint holds 7 bits, and in its 8th whether more follow.
Half == Radix \div 2

Power(r, w) ==
    LET power[i \in 0..w] == IF i = 0 THEN 1 ELSE r * power[i - 1]
    IN  power[w]

ASSUME FramingAssumption ==
    /\ {Radix, LEN_PREFIX, MAX_FRAME_LEN, VARINT_MAX, Window} \subseteq Nat \ {0}
    /\ Half > 5 /\ MAX_FRAME_LEN < Power(Radix, LEN_PREFIX)
    /\ \A p \in Payloads : p \in Seq(Byte) /\ Len(p) < Power(Half, VARINT_MAX)
    /\ MaxFrames \in Nat

\* ClientFrame and ServerFrame: a frame is its variant and its fields.
Ping == <<"Ping">>
Data(p) == <<"Data", p>>
Frames == {Ping} \cup {Data(p) : p \in Payloads}

-----------------------------------------------------------------------------
(***************************************************************************)
(* The codec.  postcard writes the number of the variant, then its fields, *)
(* a byte string as length and content, and ignores trailing bytes.        *)
(***************************************************************************)

\* The w digits of n to base r, the least significant one last,
Digits(n, r, w) ==
    LET shifted[j \in 0..w] == IF j = 0 THEN n ELSE shifted[j - 1] \div r
    IN  [i \in 1..w |-> shifted[w - i] % r]

\* and the number that w digits stand for.
Number(d, r, w) ==
    LET upTo[i \in 0..w] == IF i = 0 THEN 0 ELSE (upTo[i - 1] * r) + d[i]
    IN  upTo[w]

\* Least significant digit first, all bytes but the last marked, no more than needed.
varint(n) ==
    LET w == Min({k \in 1..VARINT_MAX : n < Power(Half, k)})
        d == Digits(n, Half, w)
    IN  [i \in 1..w |-> d[w + 1 - i] + (IF i < w THEN Half ELSE 0)]

encode(f) == IF f = Ping THEN <<5>> ELSE (<<2>> \o varint(Len(f[2]))) \o f[2]

\* The number in the w bytes of b behind the first.
varint_value(b, w) == Number([i \in 1..w |-> b[w + 2 - i] % Half], Half, w)

\* The frame, or <<>> for a Deserialize error.
decode(b) ==
    LET ends == {k \in 1..VARINT_MAX : k < Len(b) /\ b[k + 1] < Half}
        w == Min(ends)
        n == varint_value(b, w)
    IN  CASE b # <<>> /\ b[1] = 5 -> Ping
          [] b # <<>> /\ b[1] = 2 /\ ends # {} /\ Len(b) >= 1 + w + n ->
                Data(SubSeq(b, 2 + w, 1 + w + n))
          [] OTHER -> <<>>

to_be_bytes(n) == Digits(n, Radix, LEN_PREFIX)
from_be_bytes(b) == Number(b, Radix, LEN_PREFIX)

TooLarge(f) == Len(encode(f)) > MAX_FRAME_LEN

\* Mutant of encode_framed: the declared length is one too large.
encode_framed_plus(f) == to_be_bytes(Len(encode(f)) + 1) \o encode(f)

encode_framed(f) == to_be_bytes(Len(encode(f))) \o encode(f)

-----------------------------------------------------------------------------
VARIABLES sent,    \* history: frames whose send has begun
          out,     \* the rest of the frame that write_all is writing
          snd,     \* "idle", "write", "gone" (FramedSend dropped or finished)
          torn,    \* history: it was dropped in the middle of a frame
          conn,    \* "up", "lost", or "closed" by the side that sends
          stream,  \* bytes written and not yet read
          rcv,     \* read_exact of "len" or "body", or how recv failed
          buf,     \* what that read_exact has read
          need,    \* and how many bytes it wants
          got      \* frames that recv returned

sender == <<sent, out, snd, torn>>
receiver == <<rcv, buf, need, got>>
vars == <<sender, conn, stream, receiver>>

Errors == {"ended", "toolarge", "undecodable"}

TypeOK ==
    /\ sent \in Seq({f \in Frames : ~TooLarge(f)})
    /\ out \in Seq(Byte)
    /\ snd \in {"idle", "write", "gone"}
    /\ torn \in BOOLEAN
    /\ conn \in {"up", "lost", "closed"}
    /\ stream \in Seq(Byte)
    /\ rcv \in {"len", "body"} \cup Errors
    /\ need \in Nat
    /\ buf \in Seq(Byte)
    /\ got \in Seq(Frames)

Init ==
    /\ sent = <<>> /\ out = <<>> /\ snd = "idle" /\ torn = FALSE
    /\ conn = "up"
    /\ stream = <<>>
    /\ rcv = "len" /\ buf = <<>> /\ need = LEN_PREFIX /\ got = <<>>

-----------------------------------------------------------------------------
(***************************************************************************)
(* The sending side.                                                       *)
(***************************************************************************)

\* FramedSend::send begins to write a frame.
Send(f) ==
    /\ snd = "idle"
    /\ conn = "up"
    /\ Len(sent) < MaxFrames
    /\ ~TooLarge(f)
    /\ sent' = Append(sent, f)
    /\ out' = encode_framed(f)
    /\ snd' = "write"
    /\ UNCHANGED <<torn, conn, stream, receiver>>

\* encode_framed refuses: nothing is written, and the task that sends gives up.
SendTooLarge(f) ==
    /\ snd = "idle"
    /\ TooLarge(f)
    /\ snd' = "gone"
    /\ UNCHANGED <<sent, out, torn, conn, stream, receiver>>

\* write_all writes what the window admits.
WriteSome ==
    /\ snd = "write"
    /\ conn = "up"
    /\ \E k \in 1..Len(out) :
          /\ Len(stream) + k <= Window
          /\ stream' = stream \o SubSeq(out, 1, k)
          /\ out' = SubSeq(out, k + 1, Len(out))
          /\ snd' = IF k = Len(out) THEN "idle" ELSE "write"
    /\ UNCHANGED <<sent, torn, conn, receiver>>

\* Mutant of DropSend: a send cancelled half-way, and the stream used again.
DropSend_reused ==
    /\ snd # "gone"
    /\ snd' = "idle"
    /\ torn' = (out # <<>>)
    /\ out' = <<>>
    /\ UNCHANGED <<sent, conn, stream, receiver>>

\* FramedSend::finish, or the task that owns it ends or is aborted: the stream
\* ends after what was written.
DropSend ==
    /\ snd # "gone"
    /\ snd' = "gone"
    /\ torn' = (out # <<>>)
    /\ out' = <<>>
    /\ UNCHANGED <<sent, conn, stream, receiver>>

\* Of what is in flight a part has already arrived.
Cut(c) ==
    /\ conn' = c
    /\ \E k \in 0..Len(stream) : stream' = SubSeq(stream, 1, k)

\* The network fails.
ConnLost ==
    /\ conn = "up"
    /\ Cut("lost")
    /\ UNCHANGED <<sender, receiver>>

\* handle_connection returns after its last send, and drops the QUIC connection
\* with both halves of the stream: what has not arrived is abandoned.
CloseConn ==
    /\ conn = "up"
    /\ snd # "write"
    /\ Cut("closed")
    /\ snd' = "gone"
    /\ UNCHANGED <<sent, out, torn, receiver>>

-----------------------------------------------------------------------------
(***************************************************************************)
(* FramedRecv::recv, called over and over.                                 *)
(***************************************************************************)

Reading == rcv \in {"len", "body"}
Complete == Len(buf) = need

ReadSome ==
    /\ Reading
    /\ \E k \in 1..Len(stream) :
          /\ Len(buf) + k <= need
          /\ buf' = buf \o SubSeq(stream, 1, k)
          /\ stream' = SubSeq(stream, k + 1, Len(stream))
    /\ UNCHANGED <<sender, conn, rcv, need, got>>

Await(what, n) ==
    /\ rcv' = what
    /\ need' = n
    /\ buf' = <<>>

Fail(error) ==
    /\ rcv' = error
    /\ UNCHANGED <<buf, need>>

\* Mutant of GotLen: a frame exactly at the limit is refused.
GotLen_strict ==
    /\ rcv = "len"
    /\ Complete
    /\ IF from_be_bytes(buf) >= MAX_FRAME_LEN
       THEN Fail("toolarge")
       ELSE Await("body", from_be_bytes(buf))
    /\ UNCHANGED <<sender, conn, stream, got>>

\* The length prefix is there.
GotLen ==
    /\ rcv = "len"
    /\ Complete
    /\ IF from_be_bytes(buf) > MAX_FRAME_LEN
       THEN Fail("toolarge")
       ELSE Await("body", from_be_bytes(buf))
    /\ UNCHANGED <<sender, conn, stream, got>>

\* The body is there: recv returns the frame, or fails.
GotBody ==
    /\ rcv = "body"
    /\ Complete
    /\ IF decode(buf) = <<>>
       THEN Fail("undecodable") /\ UNCHANGED got
       ELSE Await("len", LEN_PREFIX) /\ got' = Append(got, decode(buf))
    /\ UNCHANGED <<sender, conn, stream>>

\* read_exact meets the end of the stream, or the connection is gone.
RecvEnd ==
    /\ Reading
    /\ ~Complete
    /\ stream = <<>>
    /\ snd = "gone" \/ conn # "up"
    /\ Fail("ended")
    /\ UNCHANGED <<sender, conn, stream, got>>

-----------------------------------------------------------------------------
Next ==
    \/ \E f \in Frames : Send(f) \/ SendTooLarge(f)
    \/ WriteSome
    \/ DropSend
    \/ ConnLost
    \/ CloseConn
    \/ ReadSome
    \/ GotLen
    \/ GotBody
    \/ RecvEnd

Spec == Init /\ [][Next]_vars

(***************************************************************************)
(* The receiving task runs and reads; quinn sends what it may and grants   *)
(* window for what was read.                                               *)
(***************************************************************************)
FairSpec == Spec /\ WF_vars(WriteSome) /\ WF_vars(ReadSome \/ GotLen \/ GotBody \/ RecvEnd)

-----------------------------------------------------------------------------
(***************************************************************************)
(* Properties.                                                             *)
(***************************************************************************)

\* However the bytes are cut into reads and writes, and wherever the sender or
\* the connection stops, the frames received are the first of the frames sent,
\* with their contents; a part of a frame is never taken for one
\* (codec.rs:26-47, framed.rs:45-78).
P == INSTANCE Pipe WITH Items <- Frames, delivered <- got, ended <- rcv \in Errors
FramesPiped == P!Spec

\* A frame that encode_framed accepts is one that recv accepts: the two limits
\* agree, to the byte (codec.rs:40, framed.rs:72).
LimitsAgree == rcv \notin {"toolarge", "undecodable"}

\* A frame whose send began arrives, unless it was the one being written when
\* its sender was aborted, or the connection goes away first, a close by the
\* sender's own side included (framed.rs:45-54, 67-78, handler.rs:62-66).
FramesArrive ==
    \A n \in 1..MaxFrames :
        Len(sent) >= n ~> (Len(got) >= n \/ (torn /\ n = Len(sent)) \/ conn # "up")
=============================================================================
