------------------------------- MODULE Server -------------------------------
(***************************************************************************)
(* The gateway process around its handlers: the start (Config::load, the   *)
(* choice of the hook in main.rs, build_server), the accept loop of        *)
(* gw-server/src/lib.rs over gw-transport/src/server.rs, the clients of    *)
(* gw-transport/src/client.rs with their pinned certificate, and crashes   *)
(* and restarts of the process.                                            *)
(*                                                                         *)
(* Nothing in the process closes the endpoint (Server::shutdown is for     *)
(* embedders), so that accept() never returns None and serve never returns *)
(* Ok.                                                                     *)
(***************************************************************************)
EXTENDS Integers, Sequences, FiniteSetsExt

CONSTANTS Conns,    \* connections, each used once
          Files,    \* config files: status, and the config they are to give
          Envs,     \* the two environment variables, as Options
          MaxBoots  \* bound: starts of the process

\* Option<T>; a URL is its pieces, a host first, or <<>> if it is blank.
None == <<>>
Some(v) == <<v>>
or_else(a, b) == IF a = None THEN b ELSE a

AUTHORIZE == "/v1/authorize"
SLASH == "/"
Blank == <<>>

\* Config::default.
Default == [tls_cert |-> FALSE, tls_key |-> FALSE, auth_webhook_url |-> None,
            control_plane_url |-> None, gateway_key |-> None]

\* The certificate of a configured PEM pair; the n-th start generates
\* certificate n if there is none.
PEM == 0
Certs == 0..MaxBoots

\* A URL that is not blank begins with a host, whatever paths follow.
HostFirst(url) == url \in {None, Some(Blank)} \/ url[1][1] \notin {SLASH, AUTHORIZE}

\* A file may be absent, or there with text that cannot be parsed, or fine; it is
\* hidden if it is fine but its metadata cannot always be read.
ASSUME ServerAssumption ==
    /\ MaxBoots \in Nat \ {0}
    /\ \A e \in Envs : HostFirst(e.control_plane_url)
    /\ \A f \in Files : /\ f.status \in {"absent", "hidden", "invalid", "ok"}
                        /\ DOMAIN f.config = DOMAIN Default
                        /\ f.status = "absent" => f.config = Default
                        /\ f.config.tls_cert \in BOOLEAN
                        /\ f.config.tls_key \in BOOLEAN
                        /\ HostFirst(f.config.control_plane_url)
                        /\ HostFirst(f.config.auth_webhook_url)

VARIABLES file, env,  \* what the operator has provided
          boots,      \* starts of the process so far
          pc,         \* where the process is
          config,     \* what Config::load has returned
          hook,       \* the AuthHook: kind, base and key
          cert,       \* Option: certificate of the bound endpoint
          issued,     \* history: certificates that endpoints have had
          incoming,   \* connections that endpoint.accept() has not returned
          cur,        \* Option: the connection in accept_control
          conn,       \* each connection, seen from its client
          pin         \* Option: the certificate its client trusts

operator == <<file, env>>
started == <<boots, config, hook, cert, issued>>
vars == <<operator, pc, started, incoming, cur, conn, pin>>

Listening == {"accept", "handshake", "stream"}
NoHook == [kind |-> "none", base |-> Blank, key |-> None]

TypeOK ==
    /\ file \in Files /\ env \in Envs
    /\ boots \in 1..MaxBoots
    /\ pc \in {"load", "hook", "build", "down"} \cup Listening
    /\ hook.kind \in {"none", "AllowAll", "Http"}
    /\ cert \in {None} \cup {Some(x) : x \in Certs}
    /\ pc \in Listening <=> cert # None
    /\ issued \subseteq Certs
    /\ incoming \in Seq(Conns)
    /\ cur \in {None} \cup {Some(c) : c \in Conns}
    /\ pc \in {"handshake", "stream"} <=> cur # None
    /\ conn \in [Conns -> {"new", "waiting", "open", "hello", "served", "gone"}]
    /\ pin \in [Conns -> {None} \cup {Some(x) : x \in Certs}]

Init ==
    /\ file \in Files /\ env \in Envs
    /\ boots = 1
    /\ pc = "load"
    /\ config = Default
    /\ hook = NoHook
    /\ cert = None /\ issued = {}
    /\ incoming = <<>> /\ cur = None
    /\ conn = [c \in Conns |-> "new"]
    /\ pin = [c \in Conns |-> None]

-----------------------------------------------------------------------------
(***************************************************************************)
(* The start.                                                              *)
(***************************************************************************)

\* A variable that is unset or blank leaves the file's value alone.
Override(variable, value) == IF variable \in {None, Some(Blank)} THEN value ELSE variable

Configure(c) ==
    /\ config' = [c EXCEPT !.control_plane_url = Override(env.control_plane_url, @),
                          !.gateway_key = Override(env.gateway_key, @)]
    /\ pc' = "hook"

\* Mutant of Load: a file that cannot be parsed counts as absent.
Load_fallback ==
    /\ pc = "load"
    /\ \/ file.status \in {"ok", "hidden"} /\ Configure(file.config)
       \/ file.status \in {"absent", "hidden", "invalid"} /\ Configure(Default)
    /\ UNCHANGED <<operator, boots, hook, cert, issued, incoming, cur, conn, pin>>

\* Config::load: a file that does not parse is an error; Path::exists() is also
\* false when the metadata cannot be read.
Load ==
    /\ pc = "load"
    /\ \/ file.status = "invalid" /\ pc' = "down" /\ UNCHANGED config
       \/ file.status \in {"ok", "hidden"} /\ Configure(file.config)
       \/ file.status \in {"absent", "hidden"} /\ Configure(Default)
    /\ UNCHANGED <<operator, boots, hook, cert, issued, incoming, cur, conn, pin>>

\* Mutant of root: slashes are taken off first, and the path is left.
root_slashes_only(url) == SubSeq(url, 1, Max({0} \cup {i \in DOMAIN url : url[i] # SLASH}))

\* HttpAuthHook::new: one strip_suffix("/v1/authorize"), then every trailing '/'.
root(url) ==
    LET n == Len(url)
        stripped == IF n > 0 /\ url[n] = AUTHORIZE THEN SubSeq(url, 1, n - 1) ELSE url
    IN  SubSeq(stripped, 1, Max({0} \cup {i \in DOMAIN stripped : stripped[i] # SLASH}))

\* main: the control plane's URL, else the webhook's, else AllowAll.
ChooseHook ==
    /\ pc = "hook"
    /\ LET base == or_else(config.control_plane_url, config.auth_webhook_url)
       IN  hook' = IF base = None
                   THEN [NoHook EXCEPT !.kind = "AllowAll"]
                   ELSE [kind |-> "Http", base |-> root(base[1]), key |-> config.gateway_key]
    /\ pc' = "build"
    /\ UNCHANGED <<operator, boots, config, cert, issued, incoming, cur, conn, pin>>

Bind(x) ==
    /\ cert' = Some(x)
    /\ issued' = issued \cup {x}
    /\ pc' = "accept"

\* Mutant of Build: a PEM pair that cannot be used is replaced.
Build_fallback ==
    /\ pc = "build"
    /\ \/ config.tls_cert /\ config.tls_key /\ Bind(PEM)
       \/ Bind(boots)
    /\ UNCHANGED <<operator, boots, config, hook, incoming, cur, conn, pin>>

\* build_server: the PEM pair if both are configured, else a new certificate.
Build ==
    /\ pc = "build"
    /\ Bind(IF config.tls_cert /\ config.tls_key THEN PEM ELSE boots)
    /\ UNCHANGED <<operator, boots, config, hook, incoming, cur, conn, pin>>

\* A file of the pair cannot be read or parsed, or the address cannot be bound:
\* the error ends the process.
BuildFails ==
    /\ pc = "build"
    /\ pc' = "down"
    /\ UNCHANGED <<operator, started, incoming, cur, conn, pin>>

Crash ==
    /\ pc \in Listening
    /\ pc' = "down"
    /\ cert' = None
    /\ incoming' = <<>> /\ cur' = None
    /\ conn' = [c \in Conns |-> IF conn[c] = "new" THEN "new" ELSE "gone"]
    /\ UNCHANGED <<operator, boots, config, hook, issued, pin>>

\* The container runtime starts the process again.
Restart ==
    /\ pc = "down"
    /\ boots < MaxBoots
    /\ boots' = boots + 1
    /\ pc' = "load"
    /\ config' = Default
    /\ hook' = NoHook
    /\ UNCHANGED <<operator, cert, issued, incoming, cur, conn, pin>>

-----------------------------------------------------------------------------
(***************************************************************************)
(* The accept loop.                                                        *)
(***************************************************************************)

\* endpoint.accept() yields a connection.
Accept ==
    /\ pc = "accept"
    /\ incoming # <<>>
    /\ cur' = Some(Head(incoming))
    /\ incoming' = Tail(incoming)
    /\ pc' = "handshake"
    /\ UNCHANGED <<operator, started, conn, pin>>

\* incoming.await succeeds.
Handshake ==
    /\ pc = "handshake"
    /\ conn[cur[1]] = "waiting"
    /\ pin[cur[1]] = cert
    /\ conn' = [conn EXCEPT ![cur[1]] = "open"]
    /\ pc' = "stream"
    /\ UNCHANGED <<operator, started, incoming, cur, pin>>

NextClient ==
    /\ pc' = "accept"
    /\ cur' = None
    /\ UNCHANGED <<operator, started, incoming, pin>>

\* It fails: the client has gone, or trusts another certificate.  serve logs it.
HandshakeFails ==
    /\ pc = "handshake"
    /\ conn[cur[1]] = "gone" \/ pin[cur[1]] # cert
    /\ conn' = [conn EXCEPT ![cur[1]] = "gone"]
    /\ NextClient

\* conn.accept_bi() yields the stream with its first bytes: a handler is spawned.
Spawn ==
    /\ pc = "stream"
    /\ conn[cur[1]] = "hello"
    /\ conn' = [conn EXCEPT ![cur[1]] = "served"]
    /\ NextClient

\* Mutant of StreamFails: no idle timeout, so that the loss is not noticed.
StreamFails_no_timeout ==
    /\ pc = "stream"
    /\ conn[cur[1]] = "gone"
    /\ UNCHANGED vars

\* accept_bi fails: the client has closed the connection, or it timed out.
StreamFails ==
    /\ pc = "stream"
    /\ conn[cur[1]] = "gone"
    /\ UNCHANGED conn
    /\ NextClient

Serve == Accept \/ Handshake \/ HandshakeFails \/ Spawn \/ StreamFails

-----------------------------------------------------------------------------
(***************************************************************************)
(* The clients.                                                            *)
(***************************************************************************)

\* Client::connect, with a certificate learned from this or an earlier endpoint.
Connect(c) ==
    /\ conn[c] = "new"
    /\ pc \in Listening
    /\ conn' = [conn EXCEPT ![c] = "waiting"]
    /\ \E x \in issued : pin' = [pin EXCEPT ![c] = Some(x)]
    /\ incoming' = Append(incoming, c)
    /\ UNCHANGED <<operator, pc, started, cur>>

\* The client writes its Hello, which makes the stream appear.
Hello(c) ==
    /\ conn[c] = "open"
    /\ conn' = [conn EXCEPT ![c] = "hello"]
    /\ UNCHANGED <<operator, pc, started, incoming, cur, pin>>

\* The client closes, gives up, or is silent for the idle timeout; or its
\* handler returns.
Leave(c) ==
    /\ conn[c] \in {"waiting", "open", "hello", "served"}
    /\ conn' = [conn EXCEPT ![c] = "gone"]
    /\ UNCHANGED <<operator, pc, started, incoming, cur, pin>>

-----------------------------------------------------------------------------
Start == Load \/ ChooseHook \/ Build \/ BuildFails
Client(c) == Connect(c) \/ Hello(c) \/ Leave(c)

Next == Start \/ Crash \/ Restart \/ Serve \/ \E c \in Conns : Client(c)

Spec == Init /\ [][Next]_vars

(***************************************************************************)
(* The loop runs.  A client whose handshake is done sends its Hello or     *)
(* goes away, as Client::connect asks of it; with keep-alives on, nothing  *)
(* but the client's good will ends a connection that does neither.         *)
(***************************************************************************)
Fairness ==
    /\ WF_vars(Serve)
    /\ \A c \in Conns : WF_vars(conn[c] = "open" /\ Client(c))

FairSpec == Spec /\ Fairness

-----------------------------------------------------------------------------
(***************************************************************************)
(* Properties.                                                             *)
(***************************************************************************)

Given(url) == url \notin {None, Some(Blank)}
Hidden == file.status = "hidden"

\* A gateway listens with AllowAll only if no URL was given in any of the three
\* places, unless the file is hidden; a blank variable, which Compose passes for
\* an unset one, does not switch authorization off, nor does a file that does not
\* parse, nor a crash and restart (config.rs:52-73, main.rs:28-40).
OpenOnlyIfUnset ==
    pc \in Listening /\ ~Hidden /\ hook.kind = "AllowAll" =>
        ~ \E url \in {file.config.control_plane_url, file.config.auth_webhook_url,
                      env.control_plane_url} : Given(url)

\* For each form of URL the documentation names, requests go to the host itself,
\* and to the host of the URL that takes precedence, with the key of the
\* environment.  A blank URL in the file is not an unset one: it covers up the
\* webhook, and is left out here, as a hidden file is (config.rs:24-28, http_hook.rs:68-87).
BaseIsRoot ==
    LET urls == <<env.control_plane_url, file.config.control_plane_url, file.config.auth_webhook_url>>
        first(i) == Given(urls[i]) /\ \A j \in 1..(i - 1) : urls[j] \in {None, Some(Blank)}
        documented(url) == \E h \in {url[1]} : url \in {<<h>>, <<h, SLASH>>, <<h, AUTHORIZE>>}
    IN  \A i \in 1..3 :
            /\ pc \in Listening
            /\ ~Hidden
            /\ first(i)
            /\ file.config.control_plane_url # Some(Blank)
            /\ documented(urls[i][1])
            => /\ hook.base = <<urls[i][1][1]>>
               /\ Given(env.gateway_key) => hook.key = env.gateway_key

\* With a PEM pair, a certificate that some client has pinned stays the
\* endpoint's: a pair that cannot be read stops the start and is never replaced
\* by a generated one, unless the file that names it is hidden (gw-server lib.rs:49-66, tls.rs:56-79).
PinHolds ==
    pc \in Listening /\ ~Hidden /\ file.config.tls_cert /\ file.config.tls_key =>
        \A c \in Conns : pin[c] \in {None, cert}

\* A connection past its handshake is in the loop's hand or in a handler's, and
\* it trusts the certificate of the process that is running (gw-server
\* lib.rs:34-43, server.rs:53-73, tls.rs:82-97).
NoneStranded ==
    \A c \in Conns :
        /\ conn[c] \in {"open", "hello"} => pc = "stream" /\ cur = Some(c)
        /\ conn[c] \in {"open", "hello", "served"} => pin[c] = cert

\* A client that is waiting is served, or has gone: one client's failed handshake,
\* wrong certificate or loss before its first byte does not hold up the clients
\* behind it for ever (server.rs:53-73, tls.rs:26-35).
WaitingEnds == \A c \in Conns : conn[c] = "waiting" ~> conn[c] \in {"served", "gone"}
=============================================================================
