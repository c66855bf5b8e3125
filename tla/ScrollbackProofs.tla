-------------------------- MODULE ScrollbackProofs --------------------------
(***************************************************************************)
(* Proofs about Scrollback, for every set of readers, every scrollback cap *)
(* and every amount of output.                                             *)
(***************************************************************************)
EXTENDS Scrollback, SequenceTheorems, TLAPS

-----------------------------------------------------------------------------
(***************************************************************************)
(* Facts about chunks of output.                                           *)
(***************************************************************************)

\* A chunk is a sequence of offsets of the given length.
LEMMA ChunkIsSeq ==
    ASSUME NEW a \in Nat, NEW n \in Nat
    PROVE  /\ Chunk(a, n) \in Seq(Nat)
           /\ Len(Chunk(a, n)) = n
           /\ \A i \in 1..n : Chunk(a, n)[i] = a + i - 1
<1>1. \A i \in 1..n : a + i - 1 \in Nat
  OBVIOUS
<1>2. Chunk(a, n) \in [1..n -> Nat]
  BY <1>1 DEF Chunk
<1>3. Chunk(a, n) \in Seq(Nat) /\ Len(Chunk(a, n)) = n
  BY <1>2
<1>4. QED
  BY <1>3 DEF Chunk

\* What append appends: consecutive chunks concatenate to one chunk.
LEMMA ChunkConcat ==
    ASSUME NEW a \in Nat, NEW n \in Nat, NEW m \in Nat
    PROVE  Chunk(a, n) \o Chunk(a + n, m) = Chunk(a, n + m)
<1> DEFINE u == Chunk(a, n)
           v == Chunk(a + n, m)
           t == Chunk(a, n + m)
           s == u \o v
<1>0. a + n \in Nat /\ n + m \in Nat
  OBVIOUS
<1>1. u \in Seq(Nat) /\ Len(u) = n /\ \A i \in 1..n : u[i] = a + i - 1
  BY ChunkIsSeq
<1>2. v \in Seq(Nat) /\ Len(v) = m /\ \A i \in 1..m : v[i] = a + n + i - 1
  BY <1>0, ChunkIsSeq
<1>3. t \in Seq(Nat) /\ Len(t) = n + m /\ \A i \in 1..(n + m) : t[i] = a + i - 1
  BY <1>0, ChunkIsSeq
<1> HIDE DEF u, v, t
<1>4. /\ s \in Seq(Nat) /\ Len(s) = n + m
      /\ \A i \in 1..(n + m) : s[i] = IF i <= n THEN u[i] ELSE v[i - n]
  BY <1>1, <1>2, ConcatProperties, ZenonT(30)
<1> HIDE DEF s
<1>5. ASSUME NEW i \in 1..(n + m) PROVE s[i] = t[i]
  <2>1. CASE i <= n
    BY <2>1, <1>1, <1>3, <1>4
  <2>2. CASE i > n
    <3>1. i - n \in 1..m
      BY <2>2
    <3>2. v[i - n] = a + n + (i - n) - 1
      BY <3>1, <1>2
    <3>3. s[i] = v[i - n]
      BY <2>2, <1>4
    <3>4. t[i] = a + i - 1
      BY <1>3
    <3>5. a + n + (i - n) - 1 = a + i - 1
      OBVIOUS
    <3>6. QED
      BY <3>2, <3>3, <3>4, <3>5
  <2>3. QED
    BY <2>1, <2>2
<1>6. s = t
  BY <1>3, <1>4, <1>5, SeqEqual
<1>7. QED
  BY <1>6 DEF s, u, v, t

\* What append drains and what next() copies: the tail of a chunk is a chunk.
LEMMA ChunkTail ==
    ASSUME NEW a \in Nat, NEW n \in Nat, NEW k \in 0..n
    PROVE  SubSeq(Chunk(a, n), k + 1, n) = Chunk(a + k, n - k)
<1> DEFINE u == Chunk(a, n)
           t == Chunk(a + k, n - k)
           s == SubSeq(u, k + 1, n)
<1>0. k \in Nat /\ a + k \in Nat /\ n - k \in Nat
  OBVIOUS
<1>1. u \in Seq(Nat) /\ Len(u) = n /\ \A i \in 1..n : u[i] = a + i - 1
  BY ChunkIsSeq
<1>2. t \in Seq(Nat) /\ Len(t) = n - k /\ \A i \in 1..(n - k) : t[i] = a + k + i - 1
  BY <1>0, ChunkIsSeq
<1> HIDE DEF u, t
<1>3. /\ s \in Seq(Nat) /\ Len(s) = n - k
      /\ \A i \in 1..(n - k) : s[i] = u[k + i]
  BY <1>0, <1>1
<1> HIDE DEF s
<1>4. ASSUME NEW i \in 1..(n - k) PROVE s[i] = t[i]
  <2>1. k + i \in 1..n
    BY <1>0
  <2>2. u[k + i] = a + (k + i) - 1
    BY <2>1, <1>1
  <2>3. QED
    BY <2>2, <1>0, <1>2, <1>3
<1>5. s = t
  BY <1>2, <1>3, <1>4, SeqEqual
<1>6. QED
  BY <1>5 DEF s, u, t

-----------------------------------------------------------------------------
(***************************************************************************)
(* The ring buffer and one reader's stream.                                *)
(***************************************************************************)

\* append keeps the newest bytes: the buffer stays the tail of the output, and
\* its start only moves forward, to the cap's distance from the new end.
LEMMA AppendKeepsTail ==
    ASSUME TypeOK, BufferHoldsTail, NEW n \in Nat,
           append(Chunk(end_offset, n))
    PROVE  /\ buf' \in Seq(Nat) /\ start_offset' \in Nat /\ end_offset' \in Nat
           /\ end_offset' = end_offset + n
           /\ start_offset' >= start_offset
           /\ start_offset' >= end_offset' - MaxBytes
           /\ start_offset' = start_offset \/ start_offset' = end_offset' - MaxBytes
           /\ BufferHoldsTail'
<1> DEFINE len == end_offset - start_offset
           all == buf \o Chunk(end_offset, n)
           excess == IF Len(all) > MaxBytes THEN Len(all) - MaxBytes ELSE 0
<1>1. /\ MaxBytes \in Nat /\ start_offset \in Nat /\ end_offset \in Nat
      /\ len \in Nat /\ len + n \in Nat /\ start_offset + len = end_offset
  BY ScrollbackAssumption DEF TypeOK, BufferHoldsTail
<1>2. Len(Chunk(end_offset, n)) = n
  BY <1>1, ChunkIsSeq
<1>3. /\ buf' = SubSeq(all, excess + 1, Len(all))
      /\ start_offset' = start_offset + excess
      /\ end_offset' = end_offset + n
  BY <1>2 DEF append
<1>4. buf = Chunk(start_offset, len)
  BY DEF BufferHoldsTail
<1> HIDE DEF len, excess
<1>5. all = Chunk(start_offset, len + n)
  <2>1. Chunk(start_offset, len) \o Chunk(start_offset + len, n)
          = Chunk(start_offset, len + n)
    BY <1>1, ChunkConcat, ZenonT(30)
  <2>2. QED
    BY <2>1, <1>1, <1>4
<1> HIDE DEF all
<1>6. Len(all) = len + n
  BY <1>1, <1>5, ChunkIsSeq
<1>7. excess = IF len + n > MaxBytes THEN len + n - MaxBytes ELSE 0
  BY <1>1, <1>6 DEF excess
<1>8. /\ excess \in 0..(len + n)
      /\ buf' = Chunk(start_offset + excess, (len + n) - excess)
  <2>1. excess \in 0..(len + n)
    BY <1>1, <1>7
  <2>2. SubSeq(Chunk(start_offset, len + n), excess + 1, len + n)
          = Chunk(start_offset + excess, (len + n) - excess)
    <3> DEFINE total == len + n
    <3>1. total \in Nat /\ excess \in 0..total
      BY <1>1, <2>1
    <3> HIDE DEF total
    <3>2. SubSeq(Chunk(start_offset, total), excess + 1, total)
            = Chunk(start_offset + excess, total - excess)
      BY <1>1, <3>1, ChunkTail
    <3>3. QED
      BY <3>2 DEF total
  <2>3. QED
    BY <2>1, <2>2, <1>3, <1>5, <1>6
<1>9. len <= MaxBytes /\ (start_offset > 0 => len = MaxBytes)
  BY DEF BufferHoldsTail, len
<1>10. start_offset' \in Nat /\ end_offset' \in Nat
  BY <1>1, <1>3, <1>8
<1>11. end_offset' - start_offset' = (len + n) - excess
  BY <1>1, <1>3, <1>8
<1>12. buf' \in Seq(Nat)
  <2>1. start_offset + excess \in Nat /\ (len + n) - excess \in Nat
    BY <1>1, <1>8
  <2>2. QED
    BY <1>8, <2>1, ChunkIsSeq
<1>13. BufferHoldsTail'
  <2>1. start_offset' <= end_offset' /\ end_offset' - start_offset' <= MaxBytes
    BY <1>1, <1>3, <1>7, <1>8, <1>11
  <2>2. buf' = Chunk(start_offset', end_offset' - start_offset')
    BY <1>3, <1>8, <1>11
  <2>3. start_offset' > 0 => end_offset' - start_offset' = MaxBytes
    BY <1>1, <1>3, <1>7, <1>8, <1>9, <1>11
  <2>4. QED
    BY <2>1, <2>2, <2>3 DEF BufferHoldsTail
<1>14. /\ start_offset' >= start_offset
       /\ start_offset' >= end_offset' - MaxBytes
       /\ start_offset' = start_offset \/ start_offset' = end_offset' - MaxBytes
  BY <1>1, <1>3, <1>7, <1>8, <1>11
<1>15. QED
  BY <1>3, <1>10, <1>12, <1>13, <1>14

\* What next() copies out of the buffer from offset from on is the output from
\* there to the end.
LEMMA CopiedChunk ==
    ASSUME TypeOK, BufferHoldsTail, NEW from \in start_offset..end_offset
    PROVE  SubSeq(buf, from - start_offset + 1, Len(buf)) = Chunk(from, end_offset - from)
<1> DEFINE len == end_offset - start_offset
           k == from - start_offset
<1>1. start_offset \in Nat /\ end_offset \in Nat /\ len \in Nat /\ k \in 0..len
  BY DEF TypeOK, BufferHoldsTail
<1>2. buf = Chunk(start_offset, len) /\ Len(buf) = len
  BY <1>1, ChunkIsSeq DEF BufferHoldsTail
<1>3. start_offset + k = from /\ len - k = end_offset - from
  BY <1>1
<1> HIDE DEF len, k
<1>4. SubSeq(buf, k + 1, Len(buf)) = Chunk(start_offset + k, len - k)
  BY <1>1, <1>2, ChunkTail
<1>5. QED
  BY <1>3, <1>4 DEF k

\* One reader's part of StreamIntegrity: g was handed out, c is the cursor and
\* bytes below s have aged out.
Intact(g, c, s) ==
    /\ \A i, j \in DOMAIN g : i < j => g[i] < g[j]
    /\ \A i \in DOMAIN g : g[i] < c
    /\ \A o \in 0..(c - 1) : o >= s => \E i \in DOMAIN g : g[i] = o

\* A cursor that moves over aged-out bytes only keeps a stream intact.
LEMMA IntactAdvances ==
    ASSUME NEW g \in Seq(Nat), NEW c \in Nat, NEW s \in Nat, NEW e \in Nat,
           c <= e, e = c \/ e = s, Intact(g, c, s)
    PROVE  Intact(g, e, s)
<1>1. CASE e = c
  BY <1>1
<1>2. CASE e = s
  <2>1. \A i, j \in DOMAIN g : i < j => g[i] < g[j]
    BY DEF Intact
  <2>2. ASSUME NEW i \in DOMAIN g PROVE g[i] < e
    <3>1. g[i] < c /\ g[i] \in Nat
      BY DEF Intact
    <3> QED
      BY <3>1
  <2>3. \A o \in 0..(e - 1) : ~(o >= s)
    BY <1>2
  <2> QED
    BY <2>1, <2>2, <2>3 DEF Intact
<1> QED
  BY <1>1, <1>2

\* Handing out the bytes from the cursor, or from the oldest retained byte if
\* that is later, up to e keeps a stream intact.
LEMMA IntactExtends ==
    ASSUME NEW g \in Seq(Nat), NEW c \in Nat, NEW s \in Nat, NEW e \in Nat,
           NEW from \in Nat, c <= from, from <= e,
           from = c \/ from = s,
           Intact(g, c, s)
    PROVE  /\ g \o Chunk(from, e - from) \in Seq(Nat)
           /\ Intact(g \o Chunk(from, e - from), e, s)
<1> DEFINE n == e - from
           v == Chunk(from, n)
           h == g \o v
           L == Len(g)
<1>1. n \in Nat /\ from + n = e /\ L \in Nat /\ DOMAIN g = 1..L
  OBVIOUS
<1> HIDE DEF n
<1>2. v \in Seq(Nat) /\ Len(v) = n /\ \A i \in 1..n : v[i] = from + i - 1
  BY <1>1, ChunkIsSeq
<1> HIDE DEF v
<1>3. /\ h \in Seq(Nat) /\ Len(h) = L + n
      /\ \A i \in 1..(L + n) : h[i] = IF i <= L THEN g[i] ELSE v[i - L]
  BY <1>1, <1>2, ConcatProperties
<1> HIDE DEF h
<1>4. DOMAIN h = 1..(L + n)
  BY <1>3
<1> HIDE DEF L
<1>5. \A i \in 1..L : h[i] = g[i] /\ g[i] \in Nat /\ g[i] < c
  <2>1. SUFFICES ASSUME NEW i \in 1..L PROVE h[i] = g[i] /\ g[i] \in Nat /\ g[i] < c
    OBVIOUS
  <2>2. g[i] \in Nat /\ g[i] < c
    BY <1>1 DEF Intact
  <2>3. i \in 1..(L + n) /\ i <= L
    BY <1>1
  <2>4. QED
    BY <1>3, <2>2, <2>3
<1>6. \A i \in (L + 1)..(L + n) : h[i] = from + (i - L) - 1
  <2>1. SUFFICES ASSUME NEW i \in (L + 1)..(L + n) PROVE h[i] = from + (i - L) - 1
    OBVIOUS
  <2>2. i - L \in 1..n /\ i \in 1..(L + n) /\ ~(i <= L)
    BY <1>1
  <2>3. h[i] = v[i - L]
    BY <1>3, <2>2
  <2>4. QED
    BY <1>2, <2>2, <2>3
<1>7. \A i, j \in DOMAIN h : i < j => h[i] < h[j]
  <2>1. SUFFICES ASSUME NEW i \in 1..(L + n), NEW j \in 1..(L + n), i < j
                 PROVE  h[i] < h[j]
    BY <1>4
  <2>2. CASE j <= L
    <3>1. i \in 1..L /\ j \in 1..L
      BY <1>1, <2>1, <2>2
    <3>2. g[i] < g[j]
      BY <1>1, <2>1, <3>1 DEF Intact
    <3>3. QED
      BY <1>5, <3>1, <3>2
  <2>3. CASE i <= L /\ j > L
    <3>1. i \in 1..L /\ j \in (L + 1)..(L + n)
      BY <1>1, <2>3
    <3>2. h[i] < c /\ h[i] \in Nat
      BY <1>5, <3>1
    <3>3. h[j] >= from /\ h[j] \in Int
      BY <1>1, <1>6, <3>1
    <3>4. QED
      BY <3>2, <3>3
  <2>4. CASE i > L
    <3>1. i \in (L + 1)..(L + n) /\ j \in (L + 1)..(L + n)
      BY <1>1, <2>1, <2>4
    <3>2. QED
      BY <1>1, <1>6, <2>1, <3>1
  <2>5. QED
    BY <1>1, <2>2, <2>3, <2>4
<1>8. \A i \in DOMAIN h : h[i] < e
  <2>1. SUFFICES ASSUME NEW i \in 1..(L + n) PROVE h[i] < e
    BY <1>4
  <2>2. CASE i <= L
    BY <1>1, <1>5, <2>2
  <2>3. CASE i > L
    BY <1>1, <1>6, <2>3
  <2>4. QED
    BY <1>1, <2>2, <2>3
<1>9. ASSUME NEW o \in 0..(e - 1), o >= s PROVE \E i \in DOMAIN h : h[i] = o
  <2>1. CASE o < from
    <3>1. o \in 0..(c - 1)
      BY <1>9, <2>1
    <3>2. PICK i \in DOMAIN g : g[i] = o
      BY <1>9, <3>1 DEF Intact
    <3>3. i \in 1..L /\ i \in DOMAIN h /\ h[i] = o
      BY <1>1, <1>4, <1>5, <3>2
    <3>4. QED
      BY <3>3
  <2>2. CASE o >= from
    <3> DEFINE i == L + (o - from) + 1
    <3>1. i \in (L + 1)..(L + n) /\ i \in 1..(L + n) /\ from + (i - L) - 1 = o
      BY <1>1, <2>2
    <3> HIDE DEF i
    <3>2. h[i] = o /\ i \in DOMAIN h
      BY <1>4, <1>6, <3>1
    <3>3. QED
      BY <3>2
  <2>3. QED
    BY <2>1, <2>2
<1>10. Intact(h, e, s)
  BY <1>7, <1>8, <1>9 DEF Intact
<1>11. QED
  BY <1>3, <1>10 DEF h, v, n

-----------------------------------------------------------------------------
(***************************************************************************)
(* The inductive invariant.                                                *)
(***************************************************************************)

\* The flag and the ingest task agree: the task never receives again once it
\* has set closed.
IngestPhase == closed <=> ingest \in {"notifyClosed", "done"}

\* No reader is ahead of the output.
CursorBound == \A r \in Readers : cursor[r] <= end_offset

IInv ==
    /\ TypeOK
    /\ BufferHoldsTail
    /\ IngestPhase
    /\ CursorBound
    /\ StreamIntegrity
    /\ NoLostWakeup
    /\ EndAfterDrain

\* StreamIntegrity says that every reader's stream is intact.
LEMMA StreamIntegrityIsIntact ==
    /\ StreamIntegrity <=> \A r \in Readers : Intact(got[r], cursor[r], start_offset)
    /\ StreamIntegrity' <=> \A r \in Readers : Intact(got'[r], cursor'[r], start_offset')
  BY DEF StreamIntegrity, Intact

\* Initially nothing was output and nobody is attached.
LEMMA InitEstablishesIInv == Init => IInv
<1> SUFFICES ASSUME Init PROVE IInv
  OBVIOUS
<1>1. TypeOK
  BY EmptySeq DEF Init, TypeOK, IngestStates, ReaderStates
<1>2. BufferHoldsTail
  <2>1. Chunk(0, 0) \in Seq(Nat) /\ Len(Chunk(0, 0)) = 0
    BY ChunkIsSeq
  <2>2. Chunk(0, 0) = <<>>
    BY <2>1, EmptySeq
  <2>3. start_offset = 0 /\ end_offset = 0 /\ end_offset - start_offset = 0 /\ buf = <<>>
    BY DEF Init
  <2>4. QED
    BY <2>2, <2>3, ScrollbackAssumption DEF BufferHoldsTail
<1>3. IngestPhase /\ CursorBound /\ NoLostWakeup /\ EndAfterDrain
  BY DEF Init, IngestPhase, CursorBound, NoLostWakeup, EndAfterDrain
<1>4. StreamIntegrity
  <2>1. Intact(<<>>, 0, start_offset)
    BY DEF Intact
  <2>2. \A r \in Readers : got[r] = <<>> /\ cursor[r] = 0
    BY DEF Init
  <2>3. QED
    BY <2>1, <2>2, StreamIntegrityIsIntact
<1>5. QED
  BY <1>1, <1>2, <1>3, <1>4 DEF IInv

\* A chunk of output is appended.
LEMMA IngestRecvPreserves ==
    ASSUME IInv, NEW n \in 0..MaxChunk, IngestRecv(n)
    PROVE  IInv'
<1> USE DEF IInv
<1>0. n \in Nat
  BY ScrollbackAssumption
<1>1. append(Chunk(end_offset, n)) /\ ingest = "recv" /\ ingest' = "notify"
  BY DEF IngestRecv
<1>2. /\ closed' = closed /\ rpc' = rpc /\ cursor' = cursor
      /\ woken' = woken /\ got' = got
  BY DEF IngestRecv, readers
<1>3. /\ buf' \in Seq(Nat) /\ start_offset' \in Nat /\ end_offset' \in Nat
      /\ end_offset' = end_offset + n
      /\ start_offset' >= start_offset
      /\ BufferHoldsTail'
  BY <1>0, <1>1, AppendKeepsTail
<1>4. TypeOK'
  BY <1>1, <1>2, <1>3 DEF TypeOK, IngestStates
<1>5. ~closed /\ IngestPhase'
  BY <1>1, <1>2 DEF IngestPhase
<1>6. CursorBound'
  BY <1>0, <1>2, <1>3 DEF CursorBound, TypeOK
<1>7. StreamIntegrity'
  <2>1. SUFFICES ASSUME NEW r \in Readers
                 PROVE  Intact(got[r], cursor[r], start_offset')
    BY <1>2, StreamIntegrityIsIntact
  <2>2. Intact(got[r], cursor[r], start_offset)
    BY StreamIntegrityIsIntact
  <2>3. cursor[r] \in Nat /\ start_offset \in Nat
    BY DEF TypeOK
  <2>4. QED
    BY <1>3, <2>2, <2>3 DEF Intact
<1>8. NoLostWakeup'
  BY <1>1, <1>2, <1>5 DEF NoLostWakeup
<1>9. EndAfterDrain'
  BY <1>2, <1>5 DEF EndAfterDrain
<1>10. QED
  BY <1>3, <1>4, <1>5, <1>6, <1>7, <1>8, <1>9

\* The other steps of the ingest task leave the buffer and the streams alone.
LEMMA IngestRestPreserves ==
    ASSUME IInv, IngestNotify \/ IngestClose \/ IngestNotifyClosed
    PROVE  IInv'
<1> USE DEF IInv
<1>1. /\ buf' = buf /\ start_offset' = start_offset /\ end_offset' = end_offset
      /\ rpc' = rpc /\ cursor' = cursor /\ got' = got
  BY DEF IngestNotify, IngestClose, IngestNotifyClosed, inner, readers
<1>2. TypeOK'
  BY <1>1 DEF TypeOK, IngestStates, IngestNotify, IngestClose, IngestNotifyClosed,
              notify_waiters, inner, readers
<1>3. BufferHoldsTail' /\ CursorBound'
  BY <1>1 DEF BufferHoldsTail, CursorBound
<1>4. IngestPhase'
  BY DEF IngestPhase, IngestNotify, IngestClose, IngestNotifyClosed, inner
<1>5. StreamIntegrity'
  BY <1>1 DEF StreamIntegrity
<1>6. NoLostWakeup'
  <2>1. CASE IngestClose
    BY <1>1, <2>1 DEF NoLostWakeup, IngestClose, readers
  <2>2. CASE IngestNotify \/ IngestNotifyClosed
    <3>1. \A r \in Readers : rpc[r] = "parked" => woken'[r]
      BY <2>2 DEF IngestNotify, IngestNotifyClosed, notify_waiters
    <3>2. QED
      BY <1>1, <3>1 DEF NoLostWakeup
  <2>3. QED
    BY <2>1, <2>2
<1>7. closed => closed'
  BY DEF IngestNotify, IngestClose, IngestNotifyClosed, inner
<1>8. EndAfterDrain'
  BY <1>1, <1>7 DEF EndAfterDrain
<1>9. QED
  BY <1>2, <1>3, <1>4, <1>5, <1>6, <1>8

\* Attaching starts a fresh, empty stream.
LEMMA AttachPreserves ==
    ASSUME IInv, NEW q \in Readers, Attach(q)
    PROVE  IInv'
<1> USE DEF IInv
<1>1. /\ inner' = inner /\ ingest' = ingest /\ woken' = woken
      /\ buf' = buf /\ start_offset' = start_offset /\ end_offset' = end_offset
      /\ closed' = closed
  BY DEF Attach, inner
<1>2. TypeOK'
  BY <1>1, EmptySeq DEF TypeOK, Attach, ReaderStates
<1>3. BufferHoldsTail' /\ IngestPhase'
  BY <1>1 DEF BufferHoldsTail, IngestPhase
<1>4. CursorBound'
  BY <1>1 DEF CursorBound, Attach, TypeOK
<1>5. \A r \in Readers \ {q} : /\ rpc'[r] = rpc[r] /\ cursor'[r] = cursor[r]
                               /\ got'[r] = got[r]
  BY DEF Attach, TypeOK
<1>6. rpc'[q] = "idle" /\ cursor'[q] = 0 /\ got'[q] = <<>>
  BY DEF Attach, TypeOK
<1>7. StreamIntegrity'
  <2>1. Intact(<<>>, 0, start_offset)
    BY DEF Intact
  <2>2. QED
    BY <1>1, <1>5, <1>6, <2>1, StreamIntegrityIsIntact
<1>8. NoLostWakeup' /\ EndAfterDrain'
  BY <1>1, <1>5, <1>6 DEF NoLostWakeup, EndAfterDrain
<1>9. QED
  BY <1>2, <1>3, <1>4, <1>7, <1>8

\* The steps of a reader that only move its control point.
LEMMA ReaderMovesPreserve ==
    ASSUME IInv, NEW q \in Readers,
           Arm(q) \/ Wake(q) \/ Cancel(q) \/ Sent(q) \/ Detach(q)
    PROVE  IInv'
<1> USE DEF IInv
<1>1. /\ ingest' = ingest /\ cursor' = cursor /\ got' = got
      /\ buf' = buf /\ start_offset' = start_offset /\ end_offset' = end_offset
      /\ closed' = closed
  BY DEF Arm, Wake, Cancel, Sent, Detach, inner
<1>2. TypeOK'
  BY <1>1 DEF TypeOK, Arm, Wake, Cancel, Sent, Detach, ReaderStates
<1>3. BufferHoldsTail' /\ IngestPhase' /\ CursorBound' /\ StreamIntegrity'
  BY <1>1 DEF BufferHoldsTail, IngestPhase, CursorBound, StreamIntegrity
<1>4. \A r \in Readers \ {q} : rpc'[r] = rpc[r] /\ woken'[r] = woken[r]
  BY DEF Arm, Wake, Cancel, Sent, Detach, TypeOK
<1>5. rpc'[q] \in {"idle", "armed", "off"}
  BY DEF Arm, Wake, Cancel, Sent, Detach, TypeOK
<1>6. NoLostWakeup' /\ EndAfterDrain'
  BY <1>1, <1>4, <1>5 DEF NoLostWakeup, EndAfterDrain
<1>7. QED
  BY <1>2, <1>3, <1>6

\* The critical section of next(): the heart of the argument.
LEMMA CheckPreserves ==
    ASSUME IInv, NEW q \in Readers, Check(q)
    PROVE  IInv'
<1> USE DEF IInv
<1> DEFINE from == IF cursor[q] < start_offset THEN start_offset ELSE cursor[q]
<1>1. /\ ingest' = ingest /\ woken' = woken
      /\ buf' = buf /\ start_offset' = start_offset /\ end_offset' = end_offset
      /\ closed' = closed
  BY DEF Check, inner
<1>2. /\ cursor[q] \in Nat /\ start_offset \in Nat /\ end_offset \in Nat
      /\ got[q] \in Seq(Nat) /\ start_offset <= end_offset /\ cursor[q] <= end_offset
  BY DEF TypeOK, BufferHoldsTail, CursorBound
<1>3. /\ from \in Nat /\ cursor[q] <= from /\ from <= end_offset
      /\ start_offset <= from /\ (from = cursor[q] \/ from = start_offset)
  BY <1>2
<1>4. \A r \in Readers \ {q} : /\ rpc'[r] = rpc[r] /\ cursor'[r] = cursor[r]
                               /\ got'[r] = got[r]
  BY DEF Check, TypeOK
<1>5. Intact(got[q], cursor[q], start_offset)
  BY StreamIntegrityIsIntact
<1>6. CASE from < end_offset
  <2>1. /\ got' = [got EXCEPT ![q] = @ \o SubSeq(buf, from - start_offset + 1, Len(buf))]
        /\ cursor' = [cursor EXCEPT ![q] = end_offset]
        /\ rpc' = [rpc EXCEPT ![q] = "busy"]
    BY <1>6 DEF Check
  <2> HIDE DEF from
  <2>2. SubSeq(buf, from - start_offset + 1, Len(buf)) = Chunk(from, end_offset - from)
    BY <1>2, <1>3, CopiedChunk
  <2>3. /\ got[q] \o Chunk(from, end_offset - from) \in Seq(Nat)
        /\ Intact(got[q] \o Chunk(from, end_offset - from), end_offset, start_offset)
    BY <1>2, <1>3, <1>5, IntactExtends
  <2>4. got' = [got EXCEPT ![q] = got[q] \o Chunk(from, end_offset - from)]
    BY <2>1, <2>2
  <2> DEFINE g == got[q] \o Chunk(from, end_offset - from)
  <2> HIDE DEF g
  <2>5. /\ got' = [got EXCEPT ![q] = g] /\ g \in Seq(Nat)
        /\ Intact(g, end_offset, start_offset)
    BY <2>3, <2>4 DEF g
  <2>6. TypeOK'
    BY <1>1, <2>1, <2>5 DEF TypeOK, ReaderStates
  <2>7. got'[q] = g /\ cursor'[q] = end_offset /\ rpc'[q] = "busy"
    BY <2>1, <2>5 DEF TypeOK
  <2>8. BufferHoldsTail' /\ IngestPhase'
    BY <1>1 DEF BufferHoldsTail, IngestPhase
  <2>9. CursorBound'
    BY <1>1, <1>2, <1>4, <2>7 DEF CursorBound
  <2>10. StreamIntegrity'
    BY <1>1, <1>4, <2>5, <2>7, StreamIntegrityIsIntact
  <2>11. NoLostWakeup' /\ EndAfterDrain'
    BY <1>1, <1>4, <2>7 DEF NoLostWakeup, EndAfterDrain
  <2>12. QED
    BY <2>6, <2>8, <2>9, <2>10, <2>11
<1>7. CASE ~(from < end_offset)
  <2>1. /\ got' = got
        /\ cursor' = [cursor EXCEPT ![q] = from]
        /\ rpc' = [rpc EXCEPT ![q] = IF closed THEN "ended" ELSE "parked"]
    BY <1>7 DEF Check
  <2>2. from = end_offset
    BY <1>2, <1>3, <1>7
  <2> HIDE DEF from
  <2>3. TypeOK'
    BY <1>1, <1>2, <2>1, <2>2 DEF TypeOK, ReaderStates
  <2>4. /\ got'[q] = got[q] /\ cursor'[q] = end_offset
        /\ rpc'[q] = IF closed THEN "ended" ELSE "parked"
    BY <2>1, <2>2 DEF TypeOK
  <2>5. BufferHoldsTail' /\ IngestPhase'
    BY <1>1 DEF BufferHoldsTail, IngestPhase
  <2>6. CursorBound'
    BY <1>1, <1>2, <1>4, <2>4 DEF CursorBound
  <2>7. Intact(got[q], end_offset, start_offset)
    <3>1. end_offset = cursor[q] \/ end_offset = start_offset
      BY <1>3, <2>2
    <3>2. QED
      BY <1>2, <1>5, <3>1, IntactAdvances
  <2>8. StreamIntegrity'
    BY <1>1, <1>4, <2>4, <2>7, StreamIntegrityIsIntact
  <2>9. NoLostWakeup'
    BY <1>1, <1>4, <2>4 DEF NoLostWakeup
  <2>10. ASSUME NEW o \in start_offset..(end_offset - 1)
         PROVE  \E i \in DOMAIN got[q] : got[q][i] = o
    <3>1. o \in 0..(end_offset - 1) /\ o >= start_offset
      BY <1>2
    <3>2. QED
      BY <2>7, <3>1 DEF Intact
  <2>11. EndAfterDrain'
    BY <1>1, <1>4, <2>4, <2>10 DEF EndAfterDrain
  <2>12. QED
    BY <2>3, <2>5, <2>6, <2>8, <2>9, <2>11
<1>8. QED
  BY <1>6, <1>7

\* Every step of the session's tasks preserves the inductive invariant.
LEMMA NextPreservesIInv == IInv /\ [Next]_vars => IInv'
<1> SUFFICES ASSUME IInv, [Next]_vars PROVE IInv'
  OBVIOUS
<1>1. ASSUME NEW n \in 0..MaxChunk, IngestRecv(n) PROVE IInv'
  BY <1>1, IngestRecvPreserves
<1>2. CASE IngestNotify \/ IngestClose \/ IngestNotifyClosed
  BY <1>2, IngestRestPreserves
<1>3. ASSUME NEW q \in Readers, Attach(q) PROVE IInv'
  BY <1>3, AttachPreserves
<1>4. ASSUME NEW q \in Readers, Check(q) PROVE IInv'
  BY <1>4, CheckPreserves
<1>5. ASSUME NEW q \in Readers,
             Arm(q) \/ Wake(q) \/ Cancel(q) \/ Sent(q) \/ Detach(q)
      PROVE  IInv'
  BY <1>5, ReaderMovesPreserve
<1>6. CASE UNCHANGED vars
  BY <1>6 DEF vars, IInv, TypeOK, BufferHoldsTail, IngestPhase, CursorBound,
              StreamIntegrity, NoLostWakeup, EndAfterDrain
<1>7. QED
  BY <1>1, <1>2, <1>3, <1>4, <1>5, <1>6 DEF Next, Ingest, Reader

-----------------------------------------------------------------------------
(***************************************************************************)
(* The theorems.                                                           *)
(***************************************************************************)

\* The inductive invariant holds in every reachable state.
THEOREM Invariance == Spec => []IInv
  BY InitEstablishesIInv, NextPreservesIInv, PTL DEF Spec

\* Every variable keeps its type (SessionInner, SessionReader).
THEOREM TypeCorrect == Spec => []TypeOK
<1>1. IInv => TypeOK
  BY DEF IInv
<1>2. QED
  BY <1>1, Invariance, PTL

\* The scrollback holds the newest bytes and no more than the cap, whatever
\* sizes the chunks of SessionInner::append have.
THEOREM ScrollbackIsTail == Spec => []BufferHoldsTail
<1>1. IInv => BufferHoldsTail
  BY DEF IInv
<1>2. QED
  BY <1>1, Invariance, PTL

\* SessionReader::next never reorders or repeats a byte and never skips one
\* that is still retained, whatever the interleaving and the cancellations.
THEOREM StreamsAreIntact == Spec => []StreamIntegrity
<1>1. IInv => StreamIntegrity
  BY DEF IInv
<1>2. QED
  BY <1>1, Invariance, PTL

\* Registering before checking never loses a wakeup, for any number of readers.
THEOREM WakeupsAreNotLost == Spec => []NoLostWakeup
<1>1. IInv => NoLostWakeup
  BY DEF IInv
<1>2. QED
  BY <1>1, Invariance, PTL

\* next() returns None only to a reader that has everything still retained.
THEOREM EndIsLast == Spec => []EndAfterDrain
<1>1. IInv => EndAfterDrain
  BY DEF IInv
<1>2. QED
  BY <1>1, Invariance, PTL

-----------------------------------------------------------------------------
(***************************************************************************)
(* Refinement: the ring buffer implements the abstract output log.         *)
(***************************************************************************)

\* Appending a chunk is producing output in the abstract log.
LEMMA IngestRecvProduces ==
    ASSUME IInv, NEW n \in 0..MaxChunk, IngestRecv(n)
    PROVE  Log!Produce
<1>1. n \in Nat /\ MaxBytes \in Nat
  BY ScrollbackAssumption
<1>2. append(Chunk(end_offset, n)) /\ ingest = "recv"
  BY DEF IngestRecv
<1>3. /\ end_offset' \in Nat /\ start_offset' \in Nat
      /\ end_offset' = end_offset + n
      /\ start_offset' >= start_offset
      /\ start_offset' >= end_offset' - MaxBytes
      /\ start_offset' = start_offset \/ start_offset' = end_offset' - MaxBytes
  BY <1>1, <1>2, AppendKeepsTail DEF IInv
<1>4. start_offset \in Nat /\ end_offset \in Nat
  BY DEF IInv, TypeOK
<1>5. ~closed
  BY <1>2 DEF IInv, IngestPhase
<1>6. start_offset' = Log!Larger(start_offset, end_offset' - MaxBytes)
  BY <1>1, <1>3, <1>4 DEF Log!Larger
<1>7. closed' = closed /\ attachment' = attachment /\ cursor' = cursor /\ got' = got
  BY DEF IngestRecv, readers, attachment
<1>8. QED
  BY <1>1, <1>3, <1>4, <1>5, <1>6, <1>7 DEF Log!Produce

\* The critical section of next() delivers, skips, ends or stutters.
LEMMA CheckDelivers ==
    ASSUME IInv, NEW q \in Readers, Check(q)
    PROVE  \/ Log!Deliver(q)
           \/ Log!Skip(q)
           \/ Log!TellEnd(q)
           \/ UNCHANGED <<end_offset, start_offset, closed, attachment, cursor, got>>
<1> USE DEF IInv
<1> DEFINE from == IF cursor[q] < start_offset THEN start_offset ELSE cursor[q]
<1>1. end_offset' = end_offset /\ start_offset' = start_offset /\ closed' = closed
  BY DEF Check, inner
<1>2. /\ cursor[q] \in Nat /\ start_offset \in Nat /\ end_offset \in Nat
      /\ start_offset <= end_offset /\ cursor[q] <= end_offset
      /\ rpc[q] = "armed"
  BY DEF TypeOK, BufferHoldsTail, CursorBound, Check
<1>3. attachment[q] = "on"
  BY <1>2 DEF attachment
<1>4. from = Log!Larger(cursor[q], start_offset)
  BY <1>2 DEF Log!Larger
<1>5. CASE from < end_offset
  <2>1. /\ got' = [got EXCEPT ![q] = @ \o SubSeq(buf, from - start_offset + 1, Len(buf))]
        /\ cursor' = [cursor EXCEPT ![q] = end_offset]
        /\ rpc' = [rpc EXCEPT ![q] = "busy"]
    BY <1>5 DEF Check
  <2>2. from \in start_offset..end_offset
    BY <1>2, <1>5
  <2> HIDE DEF from
  <2>3. SubSeq(buf, from - start_offset + 1, Len(buf)) = Chunk(from, end_offset - from)
    BY <2>2, CopiedChunk
  <2>4. Chunk(from, end_offset - from) = Log!Bytes(from, end_offset - from)
    BY DEF Chunk, Log!Bytes
  <2>5. got' = [got EXCEPT ![q] = @ \o Log!Bytes(from, end_offset - from)]
    BY <2>1, <2>3, <2>4
  <2>6. attachment' = attachment
    BY <2>1, <1>2 DEF attachment, TypeOK
  <2>7. Log!Deliver(q)
    BY <1>1, <1>3, <1>4, <1>5, <2>1, <2>5, <2>6 DEF Log!Deliver
  <2>8. QED
    BY <2>7
<1>6. CASE ~(from < end_offset)
  <2>1. /\ got' = got
        /\ cursor' = [cursor EXCEPT ![q] = from]
        /\ rpc' = [rpc EXCEPT ![q] = IF closed THEN "ended" ELSE "parked"]
    BY <1>6 DEF Check
  <2>2. from = end_offset /\ (cursor[q] = end_offset \/ start_offset = end_offset)
    BY <1>2, <1>6
  <2> HIDE DEF from
  <2>3. CASE closed
    <3>1. attachment' = [attachment EXCEPT ![q] = "end"]
      BY <1>2, <2>1, <2>3 DEF attachment, TypeOK
    <3>2. Log!TellEnd(q)
      BY <1>1, <1>3, <2>1, <2>2, <2>3, <3>1 DEF Log!TellEnd
    <3>3. QED
      BY <3>2
  <2>4. CASE ~closed
    <3>1. attachment' = attachment
      BY <1>2, <2>1, <2>4 DEF attachment, TypeOK
    <3>2. CASE cursor[q] = end_offset
      <4>1. cursor' = cursor
        BY <2>1, <2>2, <3>2 DEF TypeOK
      <4>2. QED
        BY <1>1, <2>1, <3>1, <4>1
    <3>3. CASE start_offset = end_offset
      <4>1. Log!Skip(q)
        BY <1>1, <1>3, <2>1, <2>2, <3>1, <3>3 DEF Log!Skip
      <4>2. QED
        BY <4>1
    <3>4. QED
      BY <2>2, <3>2, <3>3
  <2>5. QED
    BY <2>3, <2>4
<1>7. QED
  BY <1>5, <1>6

\* Every step of the session's tasks is a step of the abstract log or a stutter.
LEMMA StepRefines == IInv /\ [Next]_vars => [Log!LogNext]_(Log!logVars)
<1> SUFFICES ASSUME IInv, [Next]_vars,
                    ~UNCHANGED <<end_offset, start_offset, closed, attachment, cursor, got>>
             PROVE  Log!LogNext
  BY DEF Log!logVars
<1>1. ASSUME NEW n \in 0..MaxChunk, IngestRecv(n) PROVE Log!LogNext
  BY <1>1, IngestRecvProduces DEF Log!LogNext
<1>2. CASE IngestNotify \/ IngestNotifyClosed
  BY <1>2 DEF IngestNotify, IngestNotifyClosed, inner, attachment
<1>3. CASE IngestClose
  <2>1. Log!Finish
    BY <1>3 DEF IngestClose, readers, attachment, Log!Finish
  <2>2. QED
    BY <2>1 DEF Log!LogNext
<1>4. ASSUME NEW q \in Readers, Attach(q) PROVE Log!LogNext
  <2>1. attachment[q] = "off" /\ attachment' = [attachment EXCEPT ![q] = "on"]
    BY <1>4 DEF Attach, attachment, IInv, TypeOK
  <2>2. Log!Join(q)
    BY <1>4, <2>1 DEF Attach, inner, Log!Join
  <2>3. QED
    BY <2>2 DEF Log!LogNext
<1>5. ASSUME NEW q \in Readers, Check(q) PROVE Log!LogNext
  BY <1>5, CheckDelivers DEF Log!LogNext
<1>6. ASSUME NEW q \in Readers, Arm(q) \/ Wake(q) \/ Cancel(q) \/ Sent(q)
      PROVE  Log!LogNext
  <2>1. attachment' = attachment
    BY <1>6 DEF Arm, Wake, Cancel, Sent, attachment, IInv, TypeOK
  <2>2. QED
    BY <1>6, <2>1 DEF Arm, Wake, Cancel, Sent, inner
<1>7. ASSUME NEW q \in Readers, Detach(q) PROVE Log!LogNext
  <2>1. attachment' = [attachment EXCEPT ![q] = "off"]
    BY <1>7 DEF Detach, attachment, IInv, TypeOK
  <2>2. Log!Leave(q)
    BY <1>7, <2>1 DEF Detach, inner, Log!Leave
  <2>3. QED
    BY <2>2 DEF Log!LogNext
<1>8. CASE UNCHANGED vars
  BY <1>8 DEF vars, attachment
<1>9. QED
  BY <1>1, <1>2, <1>3, <1>4, <1>5, <1>6, <1>7, <1>8 DEF Next, Ingest, Reader

\* The ring buffer, the ingest task and the readers implement the abstract
\* output log: what clients are handed is what OutputLog promises.
THEOREM Refinement == Spec => ImplementsOutputLog
<1>1. Init => Log!LogInit
  BY DEF Init, Log!LogInit, attachment
<1>2. QED
  BY <1>1, Invariance, StepRefines, PTL DEF Spec, ImplementsOutputLog, Log!LogSpec
=============================================================================
