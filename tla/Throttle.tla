------------------------------ MODULE Throttle ------------------------------
(***************************************************************************)
(* The bandwidth limiter of one connection: TokenBucket of                 *)
(* crates/gw-core/src/quota.rs driven by throttle of                       *)
(* crates/gw-server/src/handler.rs.                                        *)
(*                                                                         *)
(* Time advances in ticks; the bucket's f64 tokens are whole numbers, and  *)
(* the rounding of the computed sleep to clock resolution is a choice      *)
(* between the tick before and the tick after the exact instant.  Times    *)
(* are kept relative to now, so that the clock itself needs no bound.      *)
(***************************************************************************)
EXTENDS Integers

CONSTANTS RatePerTick,  \* the entitlement's max_bytes_per_sec, per tick
          Burst,        \* BANDWIDTH_BURST
          MaxChunk,     \* the largest chunk next() returns: DEFAULT_SCROLLBACK_BYTES
          MaxIdle,      \* bound: ticks counted since the last refill
          MaxWindow     \* bound: ticks an observation window lasts

ASSUME ThrottleAssumption ==
    /\ RatePerTick \in Nat
    /\ Burst \in Nat
    /\ MaxChunk \in Nat /\ MaxChunk <= Burst
    /\ MaxIdle \in Nat
    /\ MaxWindow \in Nat

VARIABLES tokens,  \* TokenBucket.tokens
          since,   \* ticks since *last: what duration_since will return
          phase,   \* "idle", "try" (head of throttle's loop) or "sleep"
          amount,  \* the chunk that throttle blocks
          wait,    \* ticks until the sleep ends
          win,     \* history: ticks since the observation window was opened
          passed   \* history: bytes let through in the window

bucketVars == <<tokens, since, phase, amount, wait, win, passed>>

AtLeastOne(n) == IF n = 0 THEN 1 ELSE n
Lesser(a, b) == IF a <= b THEN a ELSE b

\* Mutant of capacity: the bucket is sized by the rate.
capacity_of_rate == AtLeastOne(RatePerTick)

\* TokenBucket::new
capacity == AtLeastOne(Burst)
rate == AtLeastOne(RatePerTick)

BucketTypeOK ==
    /\ tokens \in 0..capacity
    /\ since \in Nat
    /\ phase \in {"idle", "try", "sleep"}
    /\ amount \in 0..MaxChunk
    /\ wait \in Nat
    /\ win \in 0..MaxWindow
    /\ passed \in Nat

\* sender_task starts with a full bucket; no window is open.
BucketInit ==
    /\ tokens = capacity
    /\ since = 0
    /\ phase = "idle"
    /\ amount = 0
    /\ wait = 0
    /\ win = MaxWindow
    /\ passed = 0

-----------------------------------------------------------------------------
\* TokenBucket::refill: the tokens after elapsed ticks.
refill(elapsed) == Lesser(tokens + elapsed * rate, capacity)

\* TokenBucket::time_until with t tokens in the bucket: the exact time to the
\* next tick or the one before.
time_until(n, t) ==
    LET need == Lesser(n, capacity) - t
    IN  {need \div rate, (need + rate - 1) \div rate}

\* The sender has a chunk of n bytes to send.
Chunk(n) ==
    /\ phase = "idle"
    /\ phase' = "try"
    /\ amount' = n
    /\ UNCHANGED <<tokens, since, wait, win, passed>>

\* Mutant of Attempt: last is only moved on when the chunk is let through.
Attempt_keep_last ==
    LET t == refill(since)
    IN  /\ phase = "try"
        /\ IF t >= amount
           THEN /\ phase' = "idle"
                /\ tokens' = t - amount
                /\ passed' = IF win < MaxWindow THEN passed + amount ELSE passed
                /\ since' = 0
                /\ UNCHANGED wait
           ELSE /\ phase' = "sleep"
                /\ tokens' = t
                /\ wait' \in time_until(amount, t)
                /\ UNCHANGED <<passed, since>>
        /\ UNCHANGED <<amount, win>>

\* One turn of throttle's loop: refill for the time since last, move last to
\* now, then take the tokens or sleep.
Attempt ==
    LET t == refill(since)
    IN  /\ phase = "try"
        /\ IF t >= amount
           THEN /\ phase' = "idle"
                /\ tokens' = t - amount
                /\ passed' = IF win < MaxWindow THEN passed + amount ELSE passed
                /\ UNCHANGED wait
           ELSE /\ phase' = "sleep"
                /\ tokens' = t
                /\ wait' \in time_until(amount, t)
                /\ UNCHANGED passed
        /\ since' = 0
        /\ UNCHANGED <<amount, win>>

\* The sleep ends, at its deadline or any time later.
WakeUp ==
    /\ phase = "sleep"
    /\ wait = 0
    /\ phase' = "try"
    /\ UNCHANGED <<tokens, since, amount, wait, win, passed>>

\* A tick passes.
Tick ==
    /\ since < MaxIdle
    /\ since' = since + 1
    /\ wait' = IF wait > 0 THEN wait - 1 ELSE 0
    /\ win' = IF win < MaxWindow THEN win + 1 ELSE win
    /\ UNCHANGED <<tokens, phase, amount, passed>>

\* An observer starts to count the bytes let through from now on.
OpenWindow ==
    /\ win' = 0
    /\ passed' = 0
    /\ UNCHANGED <<tokens, since, phase, amount, wait>>

BucketNext ==
    \/ \E n \in 1..MaxChunk : Chunk(n)
    \/ Attempt
    \/ WakeUp
    \/ Tick
    \/ OpenWindow

BucketSpec == BucketInit /\ [][BucketNext]_bucketVars

(***************************************************************************)
(* Time passes, the timer of a sleep that is over fires and the woken      *)
(* sender task is run.  New chunks and observers are not fair.             *)
(***************************************************************************)
FairBucketSpec == BucketSpec /\ WF_bucketVars(Attempt) /\ WF_bucketVars(WakeUp) /\ WF_bucketVars(Tick)

-----------------------------------------------------------------------------
\* In any window of time, wherever it starts, a client is sent no more than the
\* burst plus the sustained rate times the window's length, however the sleeps
\* are rounded and whatever the chunk sizes (quota.rs:111-133,
\* handler.rs:340-351).
BandwidthCap == passed <= capacity + rate * win

\* A chunk that throttle holds back is let through: a sleep that ends early is
\* repeated, and no chunk exceeds what the bucket can hold (handler.rs:342-350;
\* DEFAULT_SCROLLBACK_BYTES against BANDWIDTH_BURST).
EveryChunkPasses == phase = "try" ~> phase = "idle"
=============================================================================
