------------------------------ MODULE Gateway ------------------------------
(***************************************************************************)
(* Life cycle of sessions and connections: handle_connection and negotiate *)
(* of crates/gw-server/src/handler.rs, one instance per client connection, *)
(* sharing the SessionManager registry of crates/gw-core/src/lib.rs, the   *)
(* SSH actors of crates/gw-ssh/src/lib.rs and the control plane reached    *)
(* through the AuthHook (crates/gw-server/src/http_hook.rs).               *)
(*                                                                         *)
(* A handler runs alone between two awaits, so one action is what it does  *)
(* from the completion of one await to the start of the next.  A session   *)
(* stands for its id and for its resume token, which the registry keeps    *)
(* one to one.                                                             *)
(***************************************************************************)
EXTENDS Integers, FiniteSets

CONSTANTS Conns,  \* connection slots; a slot is reused when its handler returns
          Sids,   \* bound: the sessions that can ever be created
          Cap,    \* the account's concurrency cap, kept by the control plane
          None

ASSUME GatewayAssumption ==
    /\ IsFiniteSet(Sids)
    /\ Cap \in Nat
    /\ None \notin Sids

VARIABLES pc,        \* pc[c]: the await at which c's handler is
          sess,      \* sess[c]: the session c's handler holds
          want,      \* want[c]: the session named by the resume token of c's Hello
          up,        \* up[c]: c's stream still carries frames
          outcome,   \* outcome[c]: what receiver_loop returned
          registry,  \* SessionManager: the sessions in by_id (and by_token)
          ssh,       \* ssh[s]: the SSH actor of session s
          closed,    \* sessions whose ingest task has set SessionInner.closed
          slots,     \* control plane: sessions that occupy a concurrency slot
          told,      \* sessions whose resume token reached a client
          asked      \* sessions for which a client's Close was received

handlers == <<pc, sess, want, up, outcome>>
sessions == <<registry, ssh, closed>>
history == <<told, asked>>
vars == <<pc, sess, want, up, outcome, registry, ssh, closed, slots, told, asked>>

(***************************************************************************)
(* "free"      no handler                                                  *)
(* "hello"     negotiate: recv of the first frame                          *)
(* "authorize" negotiate: hook.authorize                                   *)
(* "open"      negotiate: recv of the Open frame                           *)
(* "connect"   open_for_auth: SSH connect and authentication               *)
(* "sopen"     negotiate: hook.session_open                                *)
(* "reply"     negotiate: send of Hello                                    *)
(* "status"    negotiate: send of Status                                   *)
(* "run"       receiver_loop, with sender_task beside it                   *)
(* "report"    hook.report_usage                                           *)
(* "close"     hook.session_close, request not yet sent                    *)
(* "remove"    hook.session_close, its answer awaited                      *)
(***************************************************************************)
Attached == {"sopen", "reply", "status", "run", "report", "close", "remove"}
PCs == {"free", "hello", "authorize", "open", "connect"} \cup Attached

TypeOK ==
    /\ pc \in [Conns -> PCs]
    /\ sess \in [Conns -> Sids \cup {None}]
    /\ want \in [Conns -> Sids \cup {None}]
    /\ up \in [Conns -> BOOLEAN]
    /\ outcome \in [Conns -> {"none", "Detached", "Closed"}]
    /\ registry \subseteq Sids
    /\ ssh \in [Sids -> {"none", "live", "eof", "stopped"}]
    /\ closed \subseteq Sids
    /\ slots \subseteq Sids
    /\ told \subseteq Sids
    /\ asked \subseteq Sids
    /\ \A c \in Conns : sess[c] # None <=> pc[c] \in Attached

Init ==
    /\ pc = [c \in Conns |-> "free"]
    /\ sess = [c \in Conns |-> None]
    /\ want = [c \in Conns |-> None]
    /\ up = [c \in Conns |-> FALSE]
    /\ outcome = [c \in Conns |-> "none"]
    /\ registry = {}
    /\ ssh = [s \in Sids |-> "none"]
    /\ closed = {}
    /\ slots = {}
    /\ told = {}
    /\ asked = {}

-----------------------------------------------------------------------------
(***************************************************************************)
(* The handler: negotiation.                                               *)
(***************************************************************************)

Goto(c, label) == pc' = [pc EXCEPT ![c] = label]

\* handle_connection returns: its connection, streams and session handle drop.
Return(c) ==
    /\ Goto(c, "free")
    /\ sess' = [sess EXCEPT ![c] = None]
    /\ want' = [want EXCEPT ![c] = None]
    /\ up' = [up EXCEPT ![c] = FALSE]
    /\ outcome' = [outcome EXCEPT ![c] = "none"]

\* serve spawns handle_connection for an accepted client.
Accept(c) ==
    /\ pc[c] = "free"
    /\ Goto(c, "hello")
    /\ up' = [up EXCEPT ![c] = TRUE]
    /\ UNCHANGED <<sess, want, outcome, sessions, slots, history>>

\* The connection is lost, or its next frame does not decode: every later recv
\* of the handler fails.
Drop(c) ==
    /\ up[c]
    /\ up' = [up EXCEPT ![c] = FALSE]
    /\ UNCHANGED <<pc, sess, want, outcome, sessions, slots, history>>

\* A Hello of the right version; its resume token t was issued earlier, or is
\* absent or unknown (None).
RecvHello(c, t) ==
    /\ pc[c] = "hello"
    /\ up[c]
    /\ t \in told \cup {None}
    /\ want' = [want EXCEPT ![c] = t]
    /\ Goto(c, "authorize")
    /\ UNCHANGED <<sess, up, outcome, sessions, slots, history>>

\* "expected Hello", a version mismatch or "expected Open": an Error frame is
\* sent and negotiate gives up.
RefuseFrame(c) ==
    /\ pc[c] \in {"hello", "open"}
    /\ up[c]
    /\ Return(c)
    /\ UNCHANGED <<sessions, slots, history>>

\* recv fails during negotiation.
RecvFails(c) ==
    /\ pc[c] \in {"hello", "open"}
    /\ ~up[c]
    /\ Return(c)
    /\ UNCHANGED <<sessions, slots, history>>

AuthorizeDenied(c) ==
    /\ pc[c] = "authorize"
    /\ Return(c)
    /\ UNCHANGED <<sessions, slots, history>>

\* SessionManager::resume: the token is looked up, nothing else is.
resume(t) == t \in registry

\* Mutant of Authorized: the handler resumes whatever session the token names.
Authorized_unchecked(c) ==
    /\ pc[c] = "authorize"
    /\ IF want[c] # None
       THEN /\ sess' = [sess EXCEPT ![c] = want[c]]
            /\ Goto(c, "reply")
       ELSE /\ Goto(c, "open")
            /\ UNCHANGED sess
    /\ UNCHANGED <<want, up, outcome, sessions, slots, history>>

\* authorize allowed the client; the resume lookup follows without an await.
Authorized(c) ==
    /\ pc[c] = "authorize"
    /\ IF resume(want[c])
       THEN /\ sess' = [sess EXCEPT ![c] = want[c]]
            /\ Goto(c, "reply")
       ELSE /\ Goto(c, "open")
            /\ UNCHANGED sess
    /\ UNCHANGED <<want, up, outcome, sessions, slots, history>>

RecvOpen(c) ==
    /\ pc[c] = "open"
    /\ up[c]
    /\ Goto(c, "connect")
    /\ UNCHANGED <<sess, want, up, outcome, sessions, slots, history>>

\* open_for_auth fails; an Error frame is sent.
ConnectFails(c) ==
    /\ pc[c] = "connect"
    /\ Return(c)
    /\ UNCHANGED <<sessions, slots, history>>

\* SshSession::spawn and SessionManager::create: the actor and the ingest task
\* start and the session is registered under a fresh id and token.
create(s) ==
    /\ ssh[s] = "none"
    /\ ssh' = [ssh EXCEPT ![s] = "live"]
    /\ registry' = registry \cup {s}

\* SessionManager::remove: id and token are forgotten.
remove(s) == registry' = registry \ {s}

\* open_for_auth succeeds; the session is created without a further await.
Connected(c, s) ==
    /\ pc[c] = "connect"
    /\ create(s)
    /\ sess' = [sess EXCEPT ![c] = s]
    /\ Goto(c, "sopen")
    /\ UNCHANGED <<want, up, outcome, closed, slots, history>>

\* What the control plane does with an accepted /v1/sessions/open.
TakeSlot(s) ==
    /\ Cardinality(slots) < Cap
    /\ slots' = slots \cup {s}

SessionOpened(c) ==
    /\ pc[c] = "sopen"
    /\ TakeSlot(sess[c])
    /\ Goto(c, "reply")
    /\ UNCHANGED <<sess, want, up, outcome, sessions, history>>

\* Mutant of SessionOpenDenied: the refusal is ignored.
SessionOpenDenied_ignored(c) ==
    /\ pc[c] = "sopen"
    /\ Goto(c, "reply")
    /\ UNCHANGED <<sess, want, up, outcome, sessions, slots, history>>

\* Mutant of SessionOpenDenied: the refused session stays registered.
SessionOpenDenied_registered(c) ==
    /\ pc[c] = "sopen"
    /\ UNCHANGED slots \/ TakeSlot(sess[c])
    /\ Return(c)
    /\ UNCHANGED <<sessions, history>>

\* session_open returns Denied: refused, unreachable, or the answer was lost
\* after the control plane took the slot.  The session is removed and an Error
\* frame sent.
SessionOpenDenied(c) ==
    /\ pc[c] = "sopen"
    /\ UNCHANGED slots \/ TakeSlot(sess[c])
    /\ remove(sess[c])
    /\ Return(c)
    /\ UNCHANGED <<ssh, closed, history>>

\* Hello, with the resume token, reaches the client.
HelloDelivered(c) ==
    /\ pc[c] = "reply"
    /\ up[c]
    /\ told' = told \cup {sess[c]}
    /\ Goto(c, "status")
    /\ UNCHANGED <<sess, want, up, outcome, sessions, slots, asked>>

\* Hello is written but the connection dies before the client has it.
HelloLost(c) ==
    /\ pc[c] = "reply"
    /\ up' = [up EXCEPT ![c] = FALSE]
    /\ Goto(c, "status")
    /\ UNCHANGED <<sess, want, outcome, sessions, slots, history>>

\* Status is written; negotiate is done, sender_task and receiver_loop start.
StatusSent(c) ==
    /\ pc[c] = "status"
    /\ Goto(c, "run")
    /\ UNCHANGED <<sess, want, up, outcome, sessions, slots, history>>

\* Writing Hello or Status fails: negotiate returns the error and the handler
\* gives up; the session stays registered.
SendFails(c) ==
    /\ pc[c] \in {"reply", "status"}
    /\ ~up[c]
    /\ Return(c)
    /\ UNCHANGED <<sessions, slots, history>>

-----------------------------------------------------------------------------
(***************************************************************************)
(* The handler: attached, then the end of the connection.                  *)
(***************************************************************************)

\* receiver_loop reads ClientFrame::Close.
RecvClose(c) ==
    /\ pc[c] = "run"
    /\ up[c]
    /\ outcome' = [outcome EXCEPT ![c] = "Closed"]
    /\ asked' = asked \cup {sess[c]}
    /\ Goto(c, "report")
    /\ UNCHANGED <<sess, want, up, sessions, slots, told>>

\* Mutant of RecvErr: receiver_loop reads on after an error.
RecvErr_retry(c) ==
    /\ pc[c] = "run"
    /\ ~up[c]
    /\ UNCHANGED vars

\* receiver_loop's recv fails.
RecvErr(c) ==
    /\ pc[c] = "run"
    /\ ~up[c]
    /\ outcome' = [outcome EXCEPT ![c] = "Detached"]
    /\ Goto(c, "report")
    /\ UNCHANGED <<sess, want, up, sessions, slots, history>>

\* Mutant of ReportUsage: a session is torn down with its last connection.
ReportUsage_always(c) ==
    /\ pc[c] = "report"
    /\ Goto(c, "close")
    /\ UNCHANGED <<sess, want, up, outcome, sessions, slots, history>>

\* Mutant of ReportUsage: only the state of the session is looked at.
ReportUsage_closed_only(c) ==
    /\ pc[c] = "report"
    /\ IF sess[c] \in closed
       THEN Goto(c, "close") /\ UNCHANGED <<sess, want, up, outcome>>
       ELSE Return(c)
    /\ UNCHANGED <<sessions, slots, history>>

\* Mutant of ReportUsage: only the outcome is looked at.
ReportUsage_outcome_only(c) ==
    /\ pc[c] = "report"
    /\ IF outcome[c] = "Closed"
       THEN Goto(c, "close") /\ UNCHANGED <<sess, want, up, outcome>>
       ELSE Return(c)
    /\ UNCHANGED <<sessions, slots, history>>

\* report_usage returns, whatever became of the report; the decision to tear
\* down is taken in the same step.
ReportUsage(c) ==
    /\ pc[c] = "report"
    /\ IF outcome[c] = "Closed" \/ sess[c] \in closed
       THEN Goto(c, "close") /\ UNCHANGED <<sess, want, up, outcome>>
       ELSE Return(c)
    /\ UNCHANGED <<sessions, slots, history>>

\* Mutant of SessionClose: an error of session_close ends the handler.
SessionClose_fallible(c) ==
    /\ pc[c] = "close"
    /\ slots' \in {slots, slots \ {sess[c]}}
    /\ \/ Goto(c, "remove") /\ UNCHANGED <<sess, want, up, outcome>>
       \/ Return(c)
    /\ UNCHANGED <<sessions, history>>

\* The request of session_close reaches the control plane, or is lost.
SessionClose(c) ==
    /\ pc[c] = "close"
    /\ slots' \in {slots, slots \ {sess[c]}}
    /\ Goto(c, "remove")
    /\ UNCHANGED <<sess, want, up, outcome, sessions, history>>

\* session_close returns and SessionManager::remove follows.
Remove(c) ==
    /\ pc[c] = "remove"
    /\ remove(sess[c])
    /\ Return(c)
    /\ UNCHANGED <<ssh, closed, slots, history>>

-----------------------------------------------------------------------------
(***************************************************************************)
(* The SSH side of a session.                                              *)
(***************************************************************************)

\* The remote shell exits, or the SSH connection to the target is lost.
TargetEnds(s) ==
    /\ ssh[s] = "live"
    /\ ssh' = [ssh EXCEPT ![s] = "eof"]
    /\ UNCHANGED <<handlers, registry, closed, slots, history>>

\* The Session owns the actor's only input sender.  It lives while the
\* registry, a handler or its own ingest task holds an Arc of it; the ingest
\* task does until the output channel closes.
InputOpen(s) ==
    \/ s \in registry
    \/ \E c \in Conns : sess[c] = s
    \/ s \notin closed

\* The actor leaves its loop: end of the channel, or all input senders gone.
ActorStops(s) ==
    /\ ssh[s] \in {"live", "eof"}
    /\ ssh[s] = "eof" \/ ~InputOpen(s)
    /\ ssh' = [ssh EXCEPT ![s] = "stopped"]
    /\ UNCHANGED <<handlers, registry, closed, slots, history>>

\* The ingest task sees the output channel close.
IngestClose(s) ==
    /\ ssh[s] = "stopped"
    /\ s \notin closed
    /\ closed' = closed \cup {s}
    /\ UNCHANGED <<handlers, registry, ssh, slots, history>>

-----------------------------------------------------------------------------
\* What the client and the network do to a connection.
Client(c) ==
    \/ Accept(c)
    \/ Drop(c)
    \/ \E t \in Sids \cup {None} : RecvHello(c, t)
    \/ RefuseFrame(c)
    \/ RecvOpen(c)
    \/ RecvClose(c)

\* What the handler does by itself, the control plane and the target answering.
Handler(c) ==
    \/ RecvFails(c)
    \/ AuthorizeDenied(c)
    \/ Authorized(c)
    \/ ConnectFails(c)
    \/ \E s \in Sids : Connected(c, s)
    \/ SessionOpened(c)
    \/ SessionOpenDenied(c)
    \/ HelloDelivered(c)
    \/ HelloLost(c)
    \/ StatusSent(c)
    \/ SendFails(c)
    \/ RecvErr(c)
    \/ ReportUsage(c)
    \/ SessionClose(c)
    \/ Remove(c)

Next ==
    \/ \E c \in Conns : Client(c) \/ Handler(c)
    \/ \E s \in Sids : TargetEnds(s) \/ ActorStops(s) \/ IngestClose(s)

Spec == Init /\ [][Next]_vars

(***************************************************************************)
(* Tokio runs every ready task, so handlers, actors and ingest tasks do    *)
(* not stop by themselves.  A handler that awaits the control plane or the *)
(* target is assumed to be answered or to see the connection break: the    *)
(* code sets no timeout of its own there.  A running target is assumed to  *)
(* take its input, for a full input channel holds up receiver_loop (module *)
(* Connection).  What clients, networks and targets do otherwise is not    *)
(* fair.                                                                   *)
(***************************************************************************)
Fairness ==
    /\ \A c \in Conns : WF_vars(Handler(c))
    /\ \A s \in Sids : WF_vars(ActorStops(s)) /\ WF_vars(IngestClose(s))

FairSpec == Spec /\ Fairness

-----------------------------------------------------------------------------
(***************************************************************************)
(* Properties.                                                             *)
(***************************************************************************)

\* Keep-alive: a session whose token a client holds stays registered, so that
\* the token resumes it, unless a client asked to close it or its SSH session
\* ended; no sequence of drops, failed sends, refused opens and other clients'
\* returns loses it (handle_connection, handler.rs:78-95).
KeepAlive ==
    \A s \in told : s \in registry \/ s \in asked \/ s \in closed

\* A session that a client was told of and that nobody ended occupies its slot
\* at the control plane: the slot is taken before Hello and given back only by
\* a teardown (handler.rs:171-196, 89-91).
SlotHeld ==
    \A s \in told : s \in slots \/ s \in asked \/ s \in closed

\* The sessions that clients were told of and nobody ended never exceed the
\* account's concurrency cap (handler.rs:171-186).
ConcurrencyCap == Cardinality(told \ (asked \cup closed)) <= Cap

\* A session that can be resumed occupies its slot, or the handler that gave the
\* slot back is about to remove the session: a client may get hold of a session
\* without a slot only in that window, and no failure leaves such a session
\* behind (handler.rs:89-95, 174-186).
UnslottedIsEnding ==
    \A s \in told \cap registry :
        s \in slots \/ \E d \in Conns : pc[d] = "remove" /\ sess[d] = s

InHand(s) == \E c \in Conns : sess[c] = s

\* A session that no client can ever resume is left registered by the last
\* handler that held it only if the connection was lost under that handler: no
\* refusal or error of the control plane strands one (handler.rs:171-201, 55-95).
OrphanOnlyByLoss ==
    [][\A s \in registry' \ told' :
          InHand(s) /\ ~InHand(s)' => \E c \in Conns : sess[c] = s /\ ~up[c]]_vars

\* A resume token stops working once the session is removed: a handler only
\* takes hold of a registered session, though the token was presented before
\* the authorization round trip (handler.rs:125-144, gw-core lib.rs:61-74).
TokenStopsWorking ==
    [][\A c \in Conns : sess'[c] \notin {sess[c], None} => sess'[c] \in registry']_vars

\* Taken together, for connections that come and go, handlers at any await and a
\* control plane that fails: the promise of SessionBook.  A session is in the book
\* while it is registered, and ending once a client asked for it or its SSH side
\* ended (handler.rs:55-95, 125-201, gw-core lib.rs:38-87).
Stage(s) ==
    IF ssh[s] = "none" THEN "unused"
    ELSE IF s \notin registry THEN "struck"
    ELSE IF s \in asked \cup closed THEN "ending"
    ELSE "open"

Stages == [s \in Sids |-> Stage(s)]

Book == INSTANCE SessionBook WITH stage <- Stages, known <- told, holder <- sess
KeepsBook == Book!Spec

\* A handler whose connection is gone returns (handler.rs:44-96).
HandlerReturns ==
    \A c \in Conns : (pc[c] # "free" /\ ~up[c]) ~> pc[c] = "free"

\* An explicit Close removes the session from the registry (handler.rs:89-91).
CloseUnregisters ==
    \A s \in Sids : s \in asked ~> s \notin registry

\* A session that ended while a client was attached is removed once that client
\* is gone, though nobody sent Close (handler.rs:89).
EndUnregisters ==
    \A c \in Conns, s \in Sids :
        (pc[c] = "run" /\ ~up[c] /\ sess[c] = s /\ s \in closed) ~> s \notin registry

-----------------------------------------------------------------------------
(***************************************************************************)
(* What a comment in the repository says and the code does not do.         *)
(***************************************************************************)

\* "an explicit `Close` (or the SSH session ending) tears it down"
\* (handler.rs:8): after Close the SSH session ends.
CloseTearsDown ==
    \A s \in Sids : s \in asked ~> ssh[s] = "stopped"
=============================================================================
