# A TLA+ model of tty-gateway

tty-gateway puts a QUIC server in front of SSH targets.  A client opens one
bidirectional stream, negotiates, and is attached to a *session*: an SSH shell
whose output the gateway keeps in a bounded scrollback.  When the client's
network goes away the session lives on; the client comes back with a resume
token and replays the scrollback.  An external control plane authorizes clients,
counts concurrent sessions and receives usage.

This directory holds modules that model that program, TLC configurations that
check them on small instances, and proofs that TLAPS checks for every instance.
`PROJECT.json` maps each definition to the lines it models.

    tlc -config MCScrollback.cfg MCScrollback
    tlapm ScrollbackProofs.tla

## 1. Inventory

| Component | State it keeps | Operations | Correct when |
|---|---|---|---|
| Session output path (`gw-core/src/lib.rs`: `SessionInner`, `spawn_ingest`, `SessionReader`) | buffer, two absolute offsets, `closed`; a cursor per reader; the waiters of a `Notify` | `append`, ingest receive / close, `reader`, `next` (cancellable) | the buffer is the newest output; each reader sees it in order and once; no wakeup is lost; the end comes after the last byte |
| Session registry (`SessionManager`) | `by_id`, `by_token` | `create`, `resume`, `remove` | a held token works until the session is ended, and then no longer |
| Connection handler (`gw-server/src/handler.rs`: `negotiate`, `handle_connection`) | control point, session handle, outcome | one per await, see section 3 | drops keep sessions, Close and the end of SSH tear them down, handlers end |
| SSH actor (`gw-ssh/src/lib.rs`) | SSH channel, input and output queue, `pending_resize` | select loop, end | output reaches the session in order and to the end; keystrokes reach the target; full queues do not stop it; it ends with the target |
| Control-plane hook (`quota.rs` `AuthHook`, `http_hook.rs`) | at the control plane: the slots taken | `authorize`, `session_open`, `session_close`, `report_usage` | a session a client uses holds a slot; the cap holds |
| Bandwidth limiter (`TokenBucket`, `throttle`) | tokens, time of last refill | `refill`, `try_consume`, `time_until` | burst + rate × time is never exceeded; every chunk passes |
| Data plane (`sender_task`, `receiver_loop`, `UsageMeter`) | out-of-band channel (16), input channel (64), two counters | forward, answer, meter, abort | input reaches the target in order; every Ping is answered; usage covers what was moved; full channels do not keep a connection from ending |
| Opening a session (`open_for_auth`, `ControlSigner`, `SshSession::open`, `open_delegated`) | SSH connection, next request id | connect, authenticate, sign remotely, request PTY and shell | a signature is over the challenge asked for; no session frame is swallowed; errors leave nothing open |
| Frame codec, framed streams (`gw-proto`, `framed.rs`) | the frame being written, the frame being read | `encode_framed`, `send`, `finish`, `recv` | frames arrive whole, once and in order; both sides agree on the limit; an unfinished frame is never taken for one |
| QUIC endpoint and clients (`server.rs`, `client.rs`, `tls.rs`) | certificate, connections not yet accepted, the one in hand | bind, accept with handshake and first stream, connect with a pin | no client is lost between endpoint and handler, or stuck behind another; a pinned certificate stays good |
| Configuration (`config.rs`, `main.rs`, `build_server`) | file, environment, hook | load, choose hook, build, restart | authorization is never off unless no URL was given |
| Deployment script `deploy/prod-build.sh` | two containers, state file | deploy, rollback (= switch), status | a checked gateway is always in service; one container runs afterwards; rollback goes back |

Interactions.  `serve` accepts a connection and spawns a handler.  The handler
awaits frames, the hook and the target in turn; it creates or resumes a session
in the shared registry.  A session is shared, as an `Arc`, by the registry, the
handlers attached to it and its own ingest task, and owns the sender of the SSH
actor's input.  The actor sends output through a channel to the ingest task,
which appends under a mutex and wakes readers through a `Notify`.  Each attached
handler has a sender task with a reader of its own, throttled by a token bucket.

What is hard here, and is therefore what the properties are about (the list with
lines is `hazards` in `PROJECT.json`): waking sleepers with a `Notify` that keeps
no permit; `select!` that drops a half-done `next()`; a lagging reader whose data
is trimmed under it; state read before an await and used after it (resume token,
`is_closed`, the slot); lost requests and lost answers of the control plane;
reference cycles that keep tasks alive; bounded channels whose reader may itself
be blocked; an `abort` nobody awaits; answers that come late or twice; a script
that ends between two of its commands; a loop that both reads and writes one
channel; a frame cut in two by an abort; one client's handshake in front of
everybody else's; a restart that changes what clients have pinned; blank and
missing settings; the arithmetic at the edges of the
scrollback cap, of the bucket and of the frame size.

## 2. Modules

| Module | Role |
|---|---|
| `OutputLog` | abstract: a log of output from which attached clients are given segments |
| `Scrollback` | buffer, ingest task and readers, at the granularity of lock, notify and poll |
| `ScrollbackProofs` | invariants of `Scrollback`, and that it implements `OutputLog` |
| `SessionBook` | abstract: sessions that are opened, told, resumed, ended and struck |
| `Gateway` | handlers, registry, actors' lives, control-plane slots |
| `GatewayProofs` | invariants and action properties of `Gateway`, and that it implements `SessionBook` |
| `Throttle` | token bucket and the loop that waits on it |
| `Connection` | data plane of one connection: receiver, sender, both channels, the actor's input side, meter, abort and usage report |
| `ConnectionProofs` | order of input, billing, meter and Pongs; the bandwidth bound of `Throttle` |
| `SshOpen` | opening of the SSH session with remote signing |
| `SshOpenProofs` | its invariants |
| `BlueGreen` | the deployment script, its containers and its state file |
| `BlueGreenProofs` | no outage, one active container, a state file that names the one in service |
| `Pipe` | abstract: what is sent is delivered once and in order, then the end |
| `SshActor` | the actor's select loop between target, output channel and input channel, with the ingest task behind it |
| `SshActorProofs` | its invariants, and that it implements `Pipe` |
| `Framing` | codec, `FramedSend`, `FramedRecv` and a byte stream with a window |
| `FramingProofs` | the codec's round trips, the invariant of the byte stream, and that `Framing` implements `Pipe` |
| `Server` | start and restart of the process, accept loop, clients with pins |
| `ServerProofs` | its invariants |
| `MCScrollback`, `MCGateway`, `MCThrottle`, `MCConnection`, `MCSshOpen`, `MCBlueGreen`, `MCSshActor`, `MCFraming`, `MCServer` | instances for TLC; the cfg files give the constants |

Operators named `X_something` directly before `X` are mutated forms of `X`: a
plausible bug that makes one property fail, kept to show that the property
depends on the code.  No specification uses them.

## 3. How the modules correspond to the code

**Scrollback.**  A byte is its absolute offset, so any loss, repetition or
reordering is visible.  The atomic steps are the critical sections and calls
between which another thread can run: `IngestRecv` is `append` under the lock,
`IngestNotify` the `notify_waiters` after it; `IngestClose` and
`IngestNotifyClosed` are the end.  A reader goes `Arm` (create and enable the
`Notified` future), `Check` (the critical section of `next`), and then `Wake`,
or `Sent` after a chunk.  `Cancel` is the `select!` of `sender_task` taking an
out-of-band frame, which drops the pending future; `Detach` is abort or send
error at any await.  `woken` is the state of the future, which
`notify_waiters` completes only if it exists.

**OutputLog** knows neither buffer nor wakeups: output is produced, at most
`MaxBytes` of it can be replayed, an attached client is given a contiguous
segment that skips only what has aged out, and is told of the end only when it
has everything.  `Scrollback` maps to it with the obvious functions of its
offsets, cursors and reader states.

**Gateway.**  `pc[c]` names the await a handler is at, and an action is what the
handler does from the end of one await to the start of the next.  Early returns
(`?`, Error frame and return) are `RefuseFrame`, `RecvFails`, `AuthorizeDenied`,
`ConnectFails`, `SessionOpenDenied`, `SendFails`.  `up[c]` says whether frames
still flow; `Drop` may strike at any time.  A session stands for its id and its
token.  `slots` is the control plane's (external) view: `session_open` takes a
slot if the cap allows, and either the request or its answer can be lost; a
`session_close` can be lost and is only logged.  `InputOpen` spells out who holds
the `Arc` with the actor's input sender, the ingest task included.  `told` and
`asked` are history; the Closed frame, which changes nothing here, is in Connection.
The await that sends an Error frame before `handle_connection` returns is folded
into the return (`Return`): the handler touches nothing shared after it, and that
the frame itself may be lost is `CloseConn` of `Framing`.

**SessionBook** is what a client may rely on, without handlers, awaits, slots or
actors: a session goes from unused to open, to ending once a client asked for it
or its SSH side ended, and to struck.  It is struck only when ending or when
nobody was ever told of it; it is resumed only between being told and being
struck; and telling a client of a session never makes more than `Cap` told ones
active.  `Gateway` maps to it with `Stage`, a function of registry, actor, `asked`
and `closed` (`KeepsBook`).

**Throttle** (specification `BucketSpec`, so that its proofs can share a module
with those of its only user).  Time is in ticks and kept relative to now.  `Attempt` is one turn
of the loop in `throttle`: refill, move `last`, consume or compute the sleep.
`f64` rounding becomes a choice between the tick before and after the exact
instant.  `OpenWindow` lets an observer start counting at any time, so the
bandwidth property is about every window, not only the one since the start.

**Connection** is what happens while `Gateway`'s handler is at "run", for one
connection.  Frames are numbered in the order the client sends them, so that order and
loss of input can be stated.  `rcv` is the await `receiver_loop` is at (reading a
frame, waiting for room in the input or in the out-of-band channel), `snd` the
one `sender_task` is at (select, throttle, send of a chunk, a Pong or Closed).
The actor's side of the input is `ActorTop` (apply `pending_resize`), `ActorTake`,
`ActorWritten`.  `Abort` does not stop the sender at once: it runs on until its
next await, `Aborted` being the moment tokio drops it, while the handler goes on
to `ReadTotals`; `report_usage` posts nothing for a connection without traffic.
Waiting for the token bucket is one state here and the whole of
`Throttle` there; likewise the reader is abstract here and detailed in `Scrollback`.

**SshOpen** is what happens while `Gateway`'s handler is at "connect".  A
signature is the number of the challenge it signs.  The client (external) answers
any request it received, when it likes and as often as it likes, and may send
Pings or other frames before it was asked for anything.  `nread` is how far the
signer has read the stream that `receiver_loop` continues.

**BlueGreen** has one action per `podman` command that changes something, so
that an exit by `set -e` or an interruption (`Abort`) can fall between any two.
Commands guarded by `|| true` have an outcome in which they did nothing.  The
two look-ups of the running container in a deployment are two steps.  `checked`
holds the containers whose latest check passed; podman's restart policy brings a
crashed container (`down`) back.  Four flags are history.  `served`: a deployment
has succeeded.  `shaken`: a container was down during this invocation.  `cut`: a
container crashed, or an invocation was cut short in the overlap, with the second
container started and the first not yet stopped.  `fault`: a container crashed, or
a deployment took for current the one of two running containers that does not
serve (`WrongGuess`).  An exit in the overlap, by a failing command or an
interruption, is not a fault by itself: `NoOutage` holds through it, and only the
wrong guess of a later invocation can end it.  An invocation that completes
unshaken takes `cut` and `fault` back, so that the properties hold again from there.

**SshActor** looks at the same actor as `Connection`, from the side of the
target: output chunks are numbered, keystrokes only counted.  `actor` is the
await of the loop: `select!`, room in the output channel, or `write_all`; in the
last two it does nothing else.  SSH flow control (external) bounds what is in
flight in either direction.  `TargetEof` is a half-close: the target writes no more
but may still read, so a write then waits or succeeds; `TargetEnds` is Close or the
loss of the connection, after which a write fails.  The target is chosen at the start: one that reads
and writes independently, or one in lockstep, which answers each keystroke
before it reads the next.  `WaitCycle` is the state in which the actor waits in
`write_all` for such a target to read while the target waits for the actor to
read; the properties show that this is the only way the loop can get stuck.
Two exits of the loop cannot be taken and are explained in the module's head.

**Pipe** is implemented twice: by `SshActor` with the target's output as `sent`
and the session's log as `delivered`, and by `Framing` with the frames of `send`
and of `recv`.

**Framing** keeps real bytes, with a small radix in place of 256, so that length
prefix, variant number and contents can be confused if the code confuses them.
The length of a byte string is a varint, as postcard (external) writes it: digits
to base `Half`, the least significant first, all but the last marked.  With the
code's constants (radix 256, four bytes of prefix, 8 MiB, varints of ten bytes)
payloads on both sides of the limit satisfy the assumptions.
`WriteSome` and `ReadSome` split the stream anywhere.  `DropSend` is `finish`, the
end or the abort of the sending task, in the middle of a frame too; `ConnLost`
and `CloseConn` lose any part of what is in flight, the latter being
`handle_connection` returning right after its last frame.

**Server** has one action for each stage of `main`: `Load`, `ChooseHook`, `Build`.
File and environment are chosen at the start and kept over restarts.  A file has
a content and a status: absent, parsable, unparsable (`Load` fails), or hidden, when
`Path::exists` may say no because its metadata cannot be read, and `Load` then
goes on with the defaults.  A URL is
its pieces (host, `/v1/authorize`, `/`), which is all that `HttpAuthHook::new`
looks at.  A generated certificate is the number of the start that made it, and
`issued` the certificates clients may have learned.  The accept loop is at
`endpoint.accept`, in the handshake or waiting for the first stream of the
connection in `cur`.  A connection is used once; a client that comes back is
another connection, with the old pin if it likes.

## 4. Runs

| Run | Instance | Shows |
|---|---|---|
| `scrollback` | 2 readers, cap 2, chunks to 3, output 4 | the buffer is the tail of the output; streams are ordered, gapless and without repetition; no wakeup is lost; the end is last; output and close reach every reader that stays; every step is a step of `OutputLog` or none |
| `gateway_safety` | 2 connections, 2 sessions, cap 1 | tokens stay good until the session is ended; a used session holds a slot; the cap holds; a slot is given back only on the way out; only a lost connection leaves a session to nobody; every step is a step of `SessionBook` or none, so that a removed session is not resumed |
| `gateway_live` | 2 connections, 1 session | handlers of lost connections return; Close and the end of SSH unregister |
| `throttle` | rate 2, burst 5, chunks to 5 | bandwidth bound; every chunk passes |
| `connection` | channels of capacity 1, 3 client frames, 2 chunks | input is applied in order; the meter brackets delivery; the report covers the input; a closed or lost connection is wound up and Pings are answered |
| `sshopen` | 3 challenges, 5 frames | signatures match; nothing is swallowed; errors drop the SSH connection; opening ends |
| `bluegreen` | 6 invocations, 2 crashes | no outage without a crash or a wrong guess, whatever fails; exactly one container runs afterwards unless something was cut short; the state file is pointed at a container that passed its check and, in an unshaken invocation, alone serves |
| `sshactor` | all capacities 2, 4 chunks of output besides echoes, 6 keystrokes | the output is a `Pipe`; only an interrupted write cuts it off, by no more than the SSH channel held; output and keystrokes arrive unless the wait cycle closes; the end of the target closes the session |
| `framing` | radix 12, prefix 2, limit 9, varints to 2 bytes, window 3, 3 frames | frames are a `Pipe`; the limits agree; every frame but the one cut off by an abort arrives while the connection stands |
| `server` | 11 files, 3 environments, 2 starts, 3 connections | unless the file is hidden, AllowAll only without a URL, requests to the right host, and PEM pins that hold; no connection waits for ever |
| `gateway_close_leak`, `bluegreen_outage` | as above or smaller | two statements of the repository that the code does not live up to (section 7) |

Bounds.  In Scrollback the chunk bound exceeds the cap, so a chunk can be larger
than the whole buffer, and the output exceeds both, so a reader can be overtaken
in the middle of what it has not read; two readers suffice for anything one
reader's registration can do to another's wakeup.  In Gateway two connections
give every race between a teardown and a resume; two sessions with a cap of one
make the control plane refuse; a connection slot is reused without limit, so
drop and resume repeat.  `gateway_live` uses one session, since each of its
properties follows a single session.  In Throttle the rate does not divide the
burst, so sleeps are rounded and the bucket runs empty; `MaxIdle` ticks refill it
completely.  In Connection a channel of capacity 1 is full after one frame, so
every wait for room happens, and three frames fill the actor, the channel and the
receiver.  In SshOpen three challenges let an answer be late for two requests, and the
frame bound leaves room for a duplicate and a Ping.  In BlueGreen six invocations
are two deployments, one that ends half-way, one that meets what it left, one that
makes up for it and one more.  In SshActor six keystrokes are what it takes to fill actor, window and input
channel and leave the target owing an answer, and with four chunks the SSH channel
and the output channel are full at once.  In Framing the window is smaller than a
frame, so every frame is written and read in parts; the payloads make frames
below, at and above the limit, with lengths of one and of two bytes, and contents
that look like frames of their own.  In Server two starts make a pin stale; three connections put one in the
loop's hand, one behind it and one in a handler.  The proofs remove these bounds
for the safety properties of all modules.

Deadlock is checked for Scrollback, Gateway and Throttle, which never stop, since
clients can always come and go.  A connection, an opening, a series of
invocations, a session, a stream and a process that is not started again come to
an end; their configurations allow it.

Fairness.  Tokio polls every ready task, so the ingest task's notifications and
a reader's steps are weakly fair.  `Sent` is fair because a send that cannot
progress ends with the connection's idle timeout.  Output, ends of sessions and
what clients do is not fair.  In Gateway each handler's own steps are weakly
fair, which assumes that calls to the control plane and the target end: the code
sets no timeout of its own there, and without the assumption no handler need
return.  In Connection the gateway's tasks are weakly fair, the out-of-band branch
of `select!` strongly, since tokio chooses among the ready branches at random;
that the client reads and the target takes its input is assumed: `write_all` has
no timeout, and a target that stops reading keeps a Close from being read.  In SshOpen
the target answers each request and the client answers the SignRequest it is
asked unless its connection is lost; the code has no timeout for either.  In
Throttle time passes, expired timers fire and the woken task runs.  In SshActor the
two branches of `select!` are strongly fair, for the same reason as above; the
target reads when it can, after its own Eof too, and answers what it owes, but need
not write or end.  In
Framing the receiver keeps calling `recv` and quinn sends what the window admits.
In Server the loop runs, and a client whose handshake is done sends its Hello or
goes away, which `client.rs` asks of its caller: keep-alives hold a silent
connection open, and the loop has no timeout of its own, so that without this
assumption one silent client stops everybody.

## 5. What is proved

All theorems hold for every value of the constants that satisfies the `ASSUME`
of the module: naturals for the bounds (positive for the channel capacities; in
Throttle also `MaxChunk <= Burst`, which the code's constants `DEFAULT_SCROLLBACK_BYTES` and `BANDWIDTH_BURST`
satisfy), for Gateway a finite set of sessions and a `None` outside it, for
Framing a limit that the length prefix can hold (8 MiB in four bytes) and payloads
whose length fits the longest varint, and for Server files whose config has the fields of
`Config` and URLs that are blank or begin with a host.

* `ScrollbackProofs` — `TypeCorrect`, `ScrollbackIsTail`, `StreamsAreIntact`,
  `WakeupsAreNotLost`, `EndIsLast`, and `Refinement` (`Spec => OutputLog`'s
  specification).  The inductive invariant adds to the properties that the
  control point of ingest and `closed` agree (`IngestPhase`) and that a cursor
  never passes the end (`CursorBound`): without the first a reader could sleep
  behind a close that nobody announces any more, without the second `Check`
  would compute its slice from a cursor outside the buffer.  `Check` is the only
  hard step: what it appends to a reader's stream is the tail of the buffer,
  hence, by `BufferHoldsTail`, exactly the offsets from the cursor on.
* `GatewayProofs` — `TypeCorrect`, `SessionsAreKeptAlive`, `SlotsAreHeld`,
  `CapIsEnforced`, `TokensStopWorking`.  The properties only speak of sessions a
  client was told of, which is too weak to carry through the negotiation.  The
  invariant adds that a session exists before anyone holds it (`Started`), that
  a session still being opened is known to one handler alone (`Private`), that
  tokens are of started sessions (`Issued`), that a session past `session_open`
  holds its slot and its place in the registry until it is ended (`Held`), and
  that the slots never exceed the cap (`SlotBound`).  `Private` is what makes
  the removal after a refused open harmless.  `UnslottedSessionsEnd` and
  `OrphansAreLost` rest on two more: a registered session has its slot unless a
  handler is between registering it and `session_open`, or between
  `session_close` and removing it (`Slotted`); and a handler reports either after
  a Close or without its connection (`Parted`).  `GatewayKeepsBook` is the
  refinement, `Spec => SessionBook`'s specification, one lemma for each kind of step:
  `Connected` opens (which needs `Fresh`: what was never created was never ended),
  `Authorized` resumes by `Issued`, `HelloDelivered` tells, the cap following from
  `Held` and `SlotBound`, `SessionOpenDenied` refuses by `Private`, `Remove` strikes
  by `Held`; a Close or the end of SSH ends the session unless the other came first.
* `ConnectionProofs` — `TypeCorrect`, `InputStaysInOrder`, `MeterIsClose`,
  `KeystrokesAreBilled`, `NoPongIsLost`.  Order cannot be carried by what the target got
  alone: the invariant says for every stage of the pipe (held by `receiver_loop`,
  in the channel, in the actor's hand, applied) that its frames are older than
  the next stage's (`PipeOrder`) and that while the actor lives no input frame is
  missing from all of them (`PipeComplete`); `ActorPhase` says that a pending
  resize exists only at the top of the loop, which is why nothing overtakes it.
  `MeterPhase` ties meter and delivery to the sender's await, `Billing` the
  input meter to the frames read.
  For `Throttle`, in the same module, `BucketTypeCorrect` and `BandwidthIsCapped`:
  the invariant bounds what has passed *plus what the bucket could let through now* by burst + rate ×
  window: every step preserves that sum, whereas the bare bound is not inductive.
* `SshOpenProofs` — `TypeCorrect`, `StaleAnswersAreSkipped`, `SessionFramesAreKept`.  Ids
  advance with the challenges, so every request, and then every answer on the
  stream, carries the number of the challenge it is about; an answer with the
  awaited id signs the current challenge.
* `SshActorProofs` — `TypeCorrect`, `LittleIsCutOff`, `OutputIsPiped` (`Spec =>
  Pipe`'s specification).  The invariant says that the session's log, the output
  channel, the chunk in the actor's hand and the SSH channel are, one after the
  other, the numbers 1 to `wrote` (`Numbering`), which none of them says alone;
  that the session closes only behind an empty output channel (`EndPhase`); and
  that the output stays within its bound (`Budget`).
* `BlueGreenProofs` — `TypeCorrect`, `NoOutageEver`, `OneIsActive`,
  `SavedServes`.  The invariant ties the script's control point to its two
  variables (`Phase`) and says that from the health check on the container to be
  saved is a checked one (`Passed`).  Three parts then carry one property each.
  `Calm` describes an invocation in which no container is down: what the script
  takes for current is what podman lists, the new one runs beside it in the
  overlap, and it serves before the old one is stopped (`LookedUp`, `Beside`,
  `TakenOver`).  `Single`: with nothing cut short no second container runs outside
  the overlap.  `Serving`: without a wrong guess the container taken for current is
  in service until it is stopped, which holds through any exit because an exit
  stops nothing.
* `FramingProofs` — `PrefixRoundTrip`, `CodecRoundTrip`, `WireCarriesFrames`,
  `LimitsAlwaysAgree`, `FramingIsPipe` (`Spec => Pipe`'s specification).  The round
  trips of prefix and varint are instances of one fact about digits to any base
  (`DigitsRoundTrip`), an induction over their number; for the varint it remains to
  show that the marks are taken off again and that the first unmarked byte is the
  last (`VarintRoundTrip`).  The library's induction
  theorems cannot be instantiated, so it is done on a set: the numbers up to the
  width for which the claim fails would have a least element (`LeastNatural`,
  `InductionOnSet`).  What has been received says nothing about what is in flight,
  so the invariant (`Wire`) says that while the receiver reads there are two things
  no variable holds: for every k the bytes of the frames after the k-th, and a tail
  that will never be delivered.  Then what the current `recv` has consumed, its
  buffer, the stream, what the sender has still to write and the tail are, in that
  order, the bytes of the frames not yet received.  An abort or a loss only
  lengthens the tail, which is empty while the sender lives (`Carries`), so that a
  cut frame can never be completed by a later one; a full buffer is a whole prefix
  or a whole body because both sides of that equation begin with it (`SameCut`).
* `ServerProofs` — `TypeCorrect`, `NeverOpenByAccident`, `PinsHold`,
  `RequestsGoToTheRoot`, `NothingIsStranded`.  The invariant says what `config` is a
  function of (`Loaded`), why AllowAll was chosen (`Chosen`), that pins come from `issued`
  (`Pinned`), and that connections do not outlive the process (`Alive`).  `Chosen` also
  holds where the base URL and the key come from; that a documented URL with the
  legacy path or slashes behind the host gives the host is `RootOfDocumented`.
  A file that cannot be parsed stops the process whatever it says, so only a hidden
  one has to be excepted from the first and the two after it.

The type invariants and five more safety properties (`EndAfterDrain`, `SlotHeld`,
`TokenStopsWorking`, `PongsConserved`, `NoneStranded`) are proved without being
listed in a run.  In the runs the first follows from `ImplementsOutputLog`, the
second from `KeepAlive` with `UnslottedIsEnding`, the third from `KeepsBook`, and
the loss of a Pong would show in `PingsAreAnswered`.  Only SshOpen's type invariant is also run, for it says when an SSH connection is held.

## 6. What is only model-checked

Liveness (`CloseReachesReaders`, `OutputReachesReaders`, `HandlerReturns`,
`CloseUnregisters`, `EndUnregisters`, `EveryChunkPasses`,
`WindsUp`, `PingsAreAnswered`, `OpenEnds`, `OutputIngested`, `KeystrokesTaken`,
`EndClosesSession`, `FramesArrive`, `WaitingEnds`): it needs fairness and ENABLED,
which the prover does not handle.  Every safety property, action property and
refinement that a passing run checks is also proved.  The disagreements are
counterexamples and need no proof.

## 7. Disagreements between the code and its comments

* `CloseTearsDown`: Close is documented to tear the session down, but the ingest
  task holds an `Arc<Session>` and with it the actor's input sender; the actor
  waits for that sender to go and the ingest task for the actor to go.  After
  Close and removal the SSH shell runs on until the target ends it.
* `ClientsCanReconnect`: an invocation that ended with both containers running
  lets the next one stop and remove the container that serves, because blue is
  taken for the current one and the state file is not consulted.

Seen while modelling, without a run of their own:

* After the Closed frame ("the resume token is no longer valid", frame.rs:113) the
  token still resumes the dead session until the handler that sent the frame has
  ended; `EndUnregisters` is what does hold.
* The slot is given back before the session leaves the registry, so a client that
  resumes in between uses a session without a slot, against handler.rs:172 ("Resumes
  reuse an already-open session"); `UnslottedIsEnding` bounds the window.
* The totals are read while the aborted sender may still be running; chunks it
  meters and sends after that are never reported, against handler.rs:83 ("usage is
  captured even across resume").  `MeterBracketsDelivery` and `InputBilled` hold.
* `Config::load` promises the defaults for an absent file (config.rs:47), but asks
  `Path::exists`, which is also false when the metadata cannot be read: the gateway
  then starts with the file's URL ignored and `AllowAll`.  `OpenOnlyIfUnset`,
  `BaseIsRoot` and `PinHolds` except such hidden files.
* deploy/prod-build.sh:73 and deploy/README.md:14, 33 say that without certificate
  files the gateway makes a self-signed certificate.  That is true with `tls_*`
  commented out; with `tls_*` enabled, as the same lines ask for in production, it
  cannot read the files and refuses to start (action `BuildFails`).
* `tls_key` is "Required if `tls_cert` is set" (config.rs:16), but a certificate
  without a key is silently replaced by a generated one.  `MCFiles` has such a
  file; `PinHolds` is stated for complete pairs.
* `HttpAuthHook::new` takes off one `/v1/authorize` and then slashes, so
  `.../v1/authorize/` keeps its path and every request fails; a blank URL in the
  file, unlike a blank variable, counts as set.  Both deny everybody rather than
  admit anybody.
* An echoing target and a fast typist can close the wait cycle of `SshActor`, after
  which only the target's end helps.

Further: a session whose SSH side ends
while no client is attached stays registered with its slot (IMPLEMENTATION_PLAN.md
lists a reaper as remaining work); a rollback repeated after a failed one starts
the container that was to be left and reports success; a deployment saves a state
it never loaded, so the count of deployments restarts at one each time; PTY and
shell are requested without a reply, so their refusal only shows as the end of
the session.

## 8. Not modelled

`Server::shutdown`, which the gateway itself never calls; connection migration,
congestion and the TLS handshake itself, which belong to the libraries; host-key
fingerprints, JSON bodies, logging and the rendering of frames, which are data
conversions on which no property here depends.  The payloads of Data frames are
opaque to the gateway.

## 9. Plan

Modelled, in this order: Scrollback, Gateway, Throttle, Connection, SshOpen,
BlueGreen, SshActor, Framing, Server.  Left:

1. Abstract specifications: the opening of a session as the single step `Gateway`
   takes, implemented by `SshOpen`; the phases of a connection as `Gateway` sees
   them, implemented by `Connection`.
2. Theorems: these refinements; the safe half of the liveness properties, such as
   that the sleep `Throttle` computes is long enough for the chunk that waits.
