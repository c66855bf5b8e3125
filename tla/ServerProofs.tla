---------------------------- MODULE ServerProofs ----------------------------
(***************************************************************************)
(* Proofs about Server, for any set of connections, config files and       *)
(* environments and any number of restarts.                                *)
(***************************************************************************)
EXTENDS Server, SequenceTheorems, TLAPS

-----------------------------------------------------------------------------
(***************************************************************************)
(* The inductive invariant.                                                *)
(***************************************************************************)

\* What Config::load returned is the file's config, if it is seen, and the
\* environment's.
Loaded ==
    pc \in {"hook", "build"} \cup Listening /\ ~Hidden =>
        /\ config.tls_cert = file.config.tls_cert /\ config.tls_key = file.config.tls_key
        /\ config.auth_webhook_url = file.config.auth_webhook_url
        /\ config.control_plane_url = Override(env.control_plane_url, file.config.control_plane_url)
        /\ config.gateway_key = Override(env.gateway_key, file.config.gateway_key)

\* AllowAll was chosen because neither URL was there; a hook asks the root of the
\* first that was.
Chosen ==
    pc \in {"build"} \cup Listening =>
        /\ hook.kind = "AllowAll" =>
              config.control_plane_url = None /\ config.auth_webhook_url = None
        /\ or_else(config.control_plane_url, config.auth_webhook_url) # None =>
              /\ hook.base = root(or_else(config.control_plane_url, config.auth_webhook_url)[1])
              /\ hook.key = config.gateway_key

\* Clients pin what endpoints have had; with a PEM pair that is one certificate.
Pinned ==
    /\ \A c \in Conns : pin[c] \in {None} \cup {Some(x) : x \in issued}
    /\ ~Hidden /\ file.config.tls_cert /\ file.config.tls_key =>
          issued \subseteq {PEM} /\ cert \in {None, Some(PEM)}

\* Connections past their handshake belong to the running process.
Alive ==
    \A c \in Conns : conn[c] \in {"open", "hello", "served"} => pc \in Listening

IInv == TypeOK /\ Loaded /\ Chosen /\ Pinned /\ Alive /\ NoneStranded

-----------------------------------------------------------------------------
\* The operator has provided something, and nothing has happened.
LEMMA InitEstablishesIInv == Init => IInv
<1> SUFFICES ASSUME Init PROVE IInv
  OBVIOUS
<1>1. TypeOK
  BY ServerAssumption DEF Init, TypeOK, NoHook, Listening, None, Certs
<1>2. Loaded /\ Chosen /\ Pinned /\ Alive /\ NoneStranded
  BY DEF Init, Loaded, Chosen, Pinned, Alive, NoneStranded, Listening, Hidden
<1>3. QED
  BY <1>1, <1>2 DEF IInv

\* A file's config has the fields of the default one.
LEMMA ConfigFields ==
    ASSUME NEW f \in Files
    PROVE  /\ DOMAIN f.config = {"tls_cert", "tls_key", "auth_webhook_url",
                                 "control_plane_url", "gateway_key"}
           /\ f.config.tls_cert \in BOOLEAN /\ f.config.tls_key \in BOOLEAN
  BY ServerAssumption DEF Default

\* The steps of the start touch no connection.
LEMMA StartPreserves == ASSUME IInv, Start PROVE IInv'
<1>1. CASE Load
  <2>1. /\ pc = "load" /\ file' = file /\ env' = env /\ boots' = boots /\ hook' = hook
        /\ cert' = cert /\ issued' = issued /\ incoming' = incoming /\ cur' = cur
        /\ conn' = conn /\ pin' = pin /\ pc' \in {"down", "hook"}
    BY <1>1 DEF Load, Configure, operator
  <2>2. TypeOK' /\ Alive' /\ NoneStranded' /\ Pinned'
    BY <2>1 DEF IInv, TypeOK, Alive, NoneStranded, Pinned, Listening, Hidden
  <2>3. Chosen'
    BY <2>1 DEF Chosen, Listening
  <2>4. Loaded'
    <3>1. CASE pc' = "hook" /\ ~Hidden
      <4>1. file \in Files
        BY DEF IInv, TypeOK
      <4>2. Configure(file.config)
        <5>1. file.status = "absent" => file.config = Default
          BY <4>1, ServerAssumption
        <5>2. QED
          BY <1>1, <3>1, <5>1 DEF Load, Hidden
      <4>3. config' = [file.config EXCEPT
                         !.control_plane_url = Override(env.control_plane_url, @),
                         !.gateway_key = Override(env.gateway_key, @)]
        BY <4>2 DEF Configure
      <4>4. QED
        BY <2>1, <4>1, <4>3, ConfigFields DEF Loaded, Hidden
    <3>2. QED
      BY <2>1, <3>1 DEF Loaded, Listening, Hidden
  <2>5. QED
    BY <2>2, <2>3, <2>4 DEF IInv
<1>2. CASE ChooseHook
  <2>1. /\ pc = "hook" /\ pc' = "build" /\ file' = file /\ env' = env /\ boots' = boots
        /\ config' = config /\ cert' = cert /\ issued' = issued /\ incoming' = incoming
        /\ cur' = cur /\ conn' = conn /\ pin' = pin
    BY <1>2 DEF ChooseHook, operator
  <2>2. /\ hook'.kind \in {"AllowAll", "Http"}
        /\ hook'.kind = "AllowAll" => or_else(config.control_plane_url, config.auth_webhook_url) = None
    BY <1>2 DEF ChooseHook, NoHook
  <2>3. Chosen'
    <3> DEFINE base == or_else(config.control_plane_url, config.auth_webhook_url)
    <3>1. base # None => hook'.base = root(base[1]) /\ hook'.key = config.gateway_key
      BY <1>2 DEF ChooseHook
    <3>2. base = None => config.control_plane_url = None /\ config.auth_webhook_url = None
      BY DEF or_else
    <3>3. QED
      BY <2>1, <2>2, <3>1, <3>2 DEF Chosen
  <2>4. TypeOK' /\ Alive' /\ NoneStranded' /\ Pinned' /\ Loaded'
    BY <2>1, <2>2 DEF IInv, TypeOK, Alive, NoneStranded, Pinned, Loaded, Listening, Hidden
  <2>5. QED
    BY <2>3, <2>4 DEF IInv
<1>3. CASE Build
  <2> DEFINE x == IF config.tls_cert /\ config.tls_key THEN PEM ELSE boots
  <2>1. /\ pc = "build" /\ pc' = "accept" /\ file' = file /\ env' = env /\ boots' = boots
        /\ config' = config /\ hook' = hook /\ cert' = Some(x) /\ issued' = issued \cup {x}
        /\ incoming' = incoming /\ cur' = cur /\ conn' = conn /\ pin' = pin
    BY <1>3 DEF Build, Bind, operator
  <2>2. x \in Certs /\ Some(x) # None
    BY ServerAssumption DEF IInv, TypeOK, Certs, PEM, Some, None
  <2>3. ~Hidden /\ file.config.tls_cert /\ file.config.tls_key => x = PEM
    BY <2>1 DEF IInv, Loaded, Hidden
  <2> HIDE DEF x
  <2>4. TypeOK'
    BY <2>1, <2>2 DEF IInv, TypeOK, Listening
  <2>5. Pinned'
    BY <2>1, <2>3 DEF IInv, Pinned, Hidden
  <2>6. Loaded' /\ Chosen' /\ Alive'
    BY <2>1 DEF IInv, Loaded, Chosen, Alive, Listening, Hidden
  <2>7. NoneStranded'
    BY <2>1 DEF IInv, Alive, NoneStranded, Listening
  <2>8. QED
    BY <2>4, <2>5, <2>6, <2>7 DEF IInv
<1>4. CASE BuildFails
  <2>1. /\ pc = "build" /\ pc' = "down" /\ file' = file /\ env' = env /\ boots' = boots
        /\ config' = config /\ hook' = hook /\ cert' = cert /\ issued' = issued
        /\ incoming' = incoming /\ cur' = cur /\ conn' = conn /\ pin' = pin
    BY <1>4 DEF BuildFails, operator, started
  <2>2. QED
    BY <2>1 DEF IInv, TypeOK, Loaded, Chosen, Pinned, Alive, NoneStranded, Listening, Hidden
<1>5. QED
  BY <1>1, <1>2, <1>3, <1>4 DEF Start

\* A crash ends every connection; a restart begins with nothing but the pins.
LEMMA RestartsPreserve == ASSUME IInv, Crash \/ Restart PROVE IInv'
<1>1. CASE Crash
  <2>1. /\ pc' = "down" /\ file' = file /\ env' = env /\ boots' = boots
        /\ config' = config /\ hook' = hook /\ cert' = None /\ issued' = issued
        /\ incoming' = <<>> /\ cur' = None /\ pin' = pin
        /\ conn' = [c \in Conns |-> IF conn[c] = "new" THEN "new" ELSE "gone"]
    BY <1>1 DEF Crash, operator
  <2>2. TypeOK'
    BY <2>1 DEF IInv, TypeOK, Listening
  <2>3. Loaded' /\ Chosen' /\ Pinned'
    BY <2>1 DEF IInv, Loaded, Chosen, Pinned, Listening, Hidden
  <2>4. Alive' /\ NoneStranded'
    BY <2>1 DEF Alive, NoneStranded
  <2>5. QED
    BY <2>2, <2>3, <2>4 DEF IInv
<1>2. CASE Restart
  <2>1. /\ pc = "down" /\ pc' = "load" /\ file' = file /\ env' = env /\ boots' = boots + 1
        /\ boots < MaxBoots /\ hook' = NoHook /\ cert' = cert /\ issued' = issued
        /\ incoming' = incoming /\ cur' = cur /\ conn' = conn /\ pin' = pin
    BY <1>2 DEF Restart, operator
  <2>2. TypeOK'
    BY <2>1, ServerAssumption DEF IInv, TypeOK, Listening, NoHook
  <2>3. Loaded' /\ Chosen' /\ Pinned' /\ Alive' /\ NoneStranded'
    BY <2>1 DEF IInv, Loaded, Chosen, Pinned, Alive, NoneStranded, Listening, Hidden
  <2>4. QED
    BY <2>2, <2>3 DEF IInv
<1>3. QED
  BY <1>1, <1>2

\* The loop and the clients leave the configuration alone.
LEMMA RunningKeeps ==
    ASSUME IInv, UNCHANGED <<operator, started>>, pin' = pin,
           pc \in Listening, pc' \in Listening
    PROVE  Loaded' /\ Chosen' /\ Pinned'
<1>1. /\ file' = file /\ env' = env /\ config' = config /\ hook' = hook
      /\ cert' = cert /\ issued' = issued
  BY DEF operator, started
<1>2. QED
  BY <1>1 DEF IInv, Loaded, Chosen, Pinned, Listening, Hidden

\* The accept loop has one connection in hand at a time.
LEMMA ServePreserves == ASSUME IInv, Serve PROVE IInv'
<1>1. /\ file' = file /\ env' = env /\ boots' = boots /\ config' = config /\ hook' = hook
      /\ cert' = cert /\ issued' = issued /\ pin' = pin
      /\ pc \in Listening /\ pc' \in Listening
  BY DEF Serve, Accept, Handshake, HandshakeFails, Spawn, StreamFails, NextClient,
         operator, started, Listening
<1>2. Loaded' /\ Chosen' /\ Pinned'
  BY <1>1, RunningKeeps DEF operator, started
<1>3. CASE Accept
  <2>1. /\ pc = "accept" /\ pc' = "handshake" /\ incoming # <<>> /\ conn' = conn
        /\ cur' = Some(Head(incoming)) /\ incoming' = Tail(incoming)
    BY <1>3 DEF Accept
  <2>2. Head(incoming) \in Conns /\ Tail(incoming) \in Seq(Conns)
    BY <2>1 DEF IInv, TypeOK
  <2>3. Some(Head(incoming)) # None
    BY DEF Some, None
  <2>4. TypeOK'
    BY <1>1, <2>1, <2>2, <2>3 DEF IInv, TypeOK, Listening
  <2>5. Alive' /\ NoneStranded'
    BY <1>1, <2>1 DEF IInv, Alive, NoneStranded
  <2>6. QED
    BY <1>2, <2>4, <2>5 DEF IInv
<1>4. CASE Handshake \/ HandshakeFails \/ Spawn \/ StreamFails
  <2>1. pc \in {"handshake", "stream"}
    BY <1>4 DEF Handshake, HandshakeFails, Spawn, StreamFails
  <2>2. PICK c \in Conns : cur = Some(c)
    BY <2>1 DEF IInv, TypeOK
  <2>3. cur[1] = c /\ Some(c) # None
    BY <2>2 DEF Some, None
  <2>4. conn \in [Conns -> {"new", "waiting", "open", "hello", "served", "gone"}]
    BY DEF IInv, TypeOK
  <2>5. \A d \in Conns \ {c} : conn[d] \notin {"open", "hello"}
    BY <2>2 DEF IInv, NoneStranded, Some
  <2>6. CASE Handshake
    <3>1. /\ pc' = "stream" /\ conn' = [conn EXCEPT ![c] = "open"] /\ incoming' = incoming
          /\ cur' = cur /\ pin[c] = cert
      BY <2>3, <2>6 DEF Handshake
    <3>2. TypeOK'
      BY <1>1, <2>2, <2>3, <3>1 DEF IInv, TypeOK, Listening
    <3>3. Alive'
      BY <1>1 DEF Alive
    <3>4. NoneStranded'
      BY <1>1, <2>2, <2>4, <2>5, <3>1 DEF IInv, NoneStranded
    <3>5. QED
      BY <1>2, <3>2, <3>3, <3>4 DEF IInv
  <2>7. CASE HandshakeFails \/ Spawn \/ StreamFails
    <3>1. /\ pc' = "accept" /\ cur' = None /\ incoming' = incoming
          /\ \/ conn' = [conn EXCEPT ![c] = "gone"]
             \/ conn' = [conn EXCEPT ![c] = "served"] /\ conn[c] = "hello"
             \/ conn' = conn /\ conn[c] = "gone"
      BY <2>3, <2>7 DEF HandshakeFails, Spawn, StreamFails, NextClient
    <3>2. TypeOK'
      BY <1>1, <2>4, <3>1 DEF IInv, TypeOK, Listening
    <3>3. Alive'
      BY <1>1 DEF Alive
    <3>4. NoneStranded'
      BY <1>1, <2>4, <2>5, <3>1 DEF IInv, NoneStranded
    <3>5. QED
      BY <1>2, <3>2, <3>3, <3>4 DEF IInv
  <2>8. QED
    BY <1>4, <2>6, <2>7
<1>5. QED
  BY <1>3, <1>4 DEF Serve

\* A client changes its own connection, and pins what it has seen.
LEMMA ClientPreserves == ASSUME IInv, NEW c \in Conns, Client(c) PROVE IInv'
<1>1. /\ file' = file /\ env' = env /\ boots' = boots /\ config' = config /\ hook' = hook
      /\ cert' = cert /\ issued' = issued /\ cur' = cur /\ pc' = pc
  BY DEF Client, Connect, Hello, Leave, operator, started
<1>2. Loaded' /\ Chosen'
  BY <1>1 DEF IInv, Loaded, Chosen, Hidden
<1>3. CASE Connect(c)
  <2>1. PICK x \in issued : pin' = [pin EXCEPT ![c] = Some(x)]
    BY <1>3 DEF Connect
  <2>2. /\ conn[c] = "new" /\ conn' = [conn EXCEPT ![c] = "waiting"]
        /\ incoming' = Append(incoming, c)
    BY <1>3 DEF Connect
  <2>3. TypeOK'
    BY <1>1, <2>1, <2>2 DEF IInv, TypeOK
  <2>4. Pinned'
    BY <1>1, <2>1 DEF IInv, TypeOK, Pinned, Hidden
  <2>5. Alive' /\ NoneStranded'
    BY <1>1, <2>1, <2>2 DEF IInv, TypeOK, Alive, NoneStranded
  <2>6. QED
    BY <1>2, <2>3, <2>4, <2>5 DEF IInv
<1>4. CASE Hello(c) \/ Leave(c)
  <2>1. /\ incoming' = incoming /\ pin' = pin
        /\ \/ conn' = [conn EXCEPT ![c] = "hello"] /\ conn[c] = "open"
           \/ conn' = [conn EXCEPT ![c] = "gone"]
    BY <1>4 DEF Hello, Leave
  <2>2. TypeOK' /\ Pinned'
    BY <1>1, <2>1 DEF IInv, TypeOK, Pinned, Hidden
  <2>3. Alive' /\ NoneStranded'
    BY <1>1, <2>1 DEF IInv, TypeOK, Alive, NoneStranded
  <2>4. QED
    BY <1>2, <2>2, <2>3 DEF IInv
<1>5. QED
  BY <1>3, <1>4 DEF Client

\* Every step preserves the inductive invariant.
LEMMA NextPreservesIInv == IInv /\ [Next]_vars => IInv'
<1> SUFFICES ASSUME IInv, [Next]_vars PROVE IInv'
  OBVIOUS
<1>1. CASE Start
  BY <1>1, StartPreserves
<1>2. CASE Crash \/ Restart
  BY <1>2, RestartsPreserve
<1>3. CASE Serve
  BY <1>3, ServePreserves
<1>4. CASE \E c \in Conns : Client(c)
  BY <1>4, ClientPreserves
<1>5. CASE UNCHANGED vars
  BY <1>5 DEF vars, operator, started, IInv, TypeOK, Loaded, Chosen, Pinned, Alive, NoneStranded,
     Hidden
<1>6. QED
  BY <1>1, <1>2, <1>3, <1>4, <1>5 DEF Next

-----------------------------------------------------------------------------
(***************************************************************************)
(* The theorems.                                                           *)
(***************************************************************************)

\* The inductive invariant holds in every reachable state.
THEOREM Invariance == Spec => []IInv
  BY InitEstablishesIInv, NextPreservesIInv, PTL DEF Spec

\* The process has an endpoint exactly while it listens, and a connection in
\* hand exactly inside accept_control (serve, Server::accept).
THEOREM TypeCorrect == Spec => []TypeOK
<1>1. IInv => TypeOK
  BY DEF IInv
<1>2. QED
  BY <1>1, Invariance, PTL

\* Whatever the file and the environment say, a URL given anywhere keeps the
\* gateway from listening with AllowAll (Config::load, main).
THEOREM NeverOpenByAccident == Spec => []OpenOnlyIfUnset
<1>1. ASSUME IInv PROVE OpenOnlyIfUnset
  <2>1. SUFFICES ASSUME pc \in Listening, ~Hidden, hook.kind = "AllowAll"
                 PROVE  /\ ~Given(file.config.control_plane_url)
                        /\ ~Given(file.config.auth_webhook_url)
                        /\ ~Given(env.control_plane_url)
    BY DEF OpenOnlyIfUnset
  <2>2. /\ Override(env.control_plane_url, file.config.control_plane_url) = None
        /\ file.config.auth_webhook_url = None
    BY <1>1, <2>1 DEF IInv, Loaded, Chosen, Hidden
  <2>3. QED
    BY <2>2 DEF Override, Given
<1>2. QED
  BY <1>1, Invariance, PTL

\* What is left when all but the host is cut off.
LEMMA FirstPiece ==
    ASSUME NEW s, NEW h, s[1] = h
    PROVE  SubSeq(s, 1, 1) = <<h>>
<1> DEFINE q == SubSeq(s, 1, 1)
<1>1. \A i \in 1..1 : s[i] \in {h}
  OBVIOUS
<1>2. /\ q \in Seq({h}) /\ Len(q) = IF 1 <= 1 THEN (1 - 1) + 1 ELSE 0
      /\ \A i \in 1..((1 - 1) + 1) : q[i] = s[(1 + i) - 1]
  BY <1>1, SubSeqProperties
<1> HIDE DEF q
<1>3. Len(q) = 1 /\ q[1] = h
  BY <1>2
<1> DEFINE r == <<h>>
<1>4. r \in Seq({h}) /\ Len(r) = 1 /\ r[1] = h
  OBVIOUS
<1> HIDE DEF r
<1>5. Len(q) = Len(r) /\ \A i \in 1..Len(q) : q[i] = r[i]
  BY <1>3, <1>4
<1>6. q = r
  BY <1>2, <1>4, <1>5, SeqEqual
<1>7. QED
  BY <1>6 DEF q, r

\* What HttpAuthHook::new makes of the documented forms of a URL.
LEMMA RootOfDocumented ==
    ASSUME NEW h, h \notin {SLASH, AUTHORIZE}
    PROVE  root(<<h>>) = <<h>> /\ root(<<h, SLASH>>) = <<h>> /\ root(<<h, AUTHORIZE>>) = <<h>>
<1>1. Max({0} \cup {1}) = 1
  <2>1. \A x \in {0} \cup {1} : (\A y \in {0} \cup {1} : x >= y) <=> x = 1
    OBVIOUS
  <2>2. QED
    BY <2>1 DEF Max
<1>2. /\ {i \in DOMAIN <<h>> : <<h>>[i] # SLASH} = {1}
      /\ {i \in DOMAIN <<h, SLASH>> : <<h, SLASH>>[i] # SLASH} = {1}
  OBVIOUS
<1>3. /\ SubSeq(<<h>>, 1, 1) = <<h>> /\ SubSeq(<<h, SLASH>>, 1, 1) = <<h>>
      /\ SubSeq(<<h, AUTHORIZE>>, 1, 1) = <<h>>
  <2>1. <<h>>[1] = h /\ <<h, SLASH>>[1] = h /\ <<h, AUTHORIZE>>[1] = h
    OBVIOUS
  <2>2. QED
    BY <2>1, FirstPiece, Zenon
<1>4. SLASH # AUTHORIZE
  BY DEF SLASH, AUTHORIZE
<1>5. root(<<h>>) = <<h>>
  BY <1>1, <1>2, <1>3 DEF root
<1>6. root(<<h, SLASH>>) = <<h>>
  BY <1>1, <1>2, <1>3, <1>4 DEF root
<1>7. root(<<h, AUTHORIZE>>) = <<h>>
  <2> DEFINE url == <<h, AUTHORIZE>>
  <2>1. Len(url) = 2 /\ url[2] = AUTHORIZE /\ SubSeq(url, 1, 1) = <<h>>
    BY <1>3
  <2> HIDE DEF url
  <2>2. root(url) = SubSeq(<<h>>, 1, Max({0} \cup {i \in DOMAIN <<h>> : <<h>>[i] # SLASH}))
    <3>1. Len(url) > 0 /\ url[Len(url)] = AUTHORIZE /\ Len(url) - 1 = 1
      BY <2>1
    <3>2. SubSeq(url, 1, Len(url) - 1) = <<h>>
      BY <2>1, <3>1
    <3>3. QED
      BY <3>1, <3>2, Zenon DEF root
  <2>3. QED
    BY <1>1, <1>2, <1>3, <2>2 DEF url
<1>8. QED
  BY <1>5, <1>6, <1>7

\* For every file and environment whose URL has a documented form, requests go to
\* the host of the URL that takes precedence, with the key of the environment
\* (Config::load, main, HttpAuthHook::new).
THEOREM RequestsGoToTheRoot == Spec => []BaseIsRoot
<1>1. ASSUME IInv PROVE BaseIsRoot
  <2> DEFINE urls == <<env.control_plane_url, file.config.control_plane_url, file.config.auth_webhook_url>>
             first(i) == Given(urls[i]) /\ \A j \in 1..(i - 1) : urls[j] \in {None, Some(Blank)}
             documented(url) == \E h \in {url[1]} : url \in {<<h>>, <<h, SLASH>>, <<h, AUTHORIZE>>}
  <2> SUFFICES ASSUME NEW i \in 1..3, pc \in Listening, ~Hidden, first(i),
                      file.config.control_plane_url # Some(Blank), documented(urls[i][1])
               PROVE  /\ hook.base = <<urls[i][1][1]>>
                      /\ Given(env.gateway_key) => hook.key = env.gateway_key
    BY DEF BaseIsRoot
  <2> DEFINE base == or_else(config.control_plane_url, config.auth_webhook_url)
  <2>1. /\ config.auth_webhook_url = file.config.auth_webhook_url
        /\ config.control_plane_url = Override(env.control_plane_url, file.config.control_plane_url)
        /\ config.gateway_key = Override(env.gateway_key, file.config.gateway_key)
    BY <1>1 DEF IInv, Loaded, Hidden
  <2>2. base = urls[i]
    <3>1. CASE i = 1
      BY <3>1, <2>1 DEF Given, Override, or_else
    <3>2. CASE i = 2
      BY <3>2, <2>1 DEF Given, Override, or_else
    <3>3. CASE i = 3
      <4>1. urls[1] \in {None, Some(Blank)} /\ urls[2] \in {None, Some(Blank)}
        BY <3>3
      <4>2. QED
        BY <3>3, <4>1, <2>1 DEF Given, Override, or_else
    <3>4. QED
      BY <3>1, <3>2, <3>3
  <2>3. urls[i] # None /\ HostFirst(urls[i])
    <3>1. urls[i] # None
      BY DEF Given
    <3>2. file \in Files /\ env \in Envs
      BY <1>1 DEF IInv, TypeOK
    <3>3. HostFirst(urls[1]) /\ HostFirst(urls[2]) /\ HostFirst(urls[3])
      BY <3>2, ServerAssumption
    <3>4. QED
      BY <3>1, <3>3
  <2>4. hook.base = root(urls[i][1]) /\ hook.key = config.gateway_key
    BY <1>1, <2>2, <2>3 DEF IInv, Chosen
  <2>5. root(urls[i][1]) = <<urls[i][1][1]>>
    <3>1. urls[i][1][1] \notin {SLASH, AUTHORIZE}
      BY <2>3 DEF HostFirst, Given
    <3> HIDE DEF urls
    <3>2. QED
      BY <3>1, RootOfDocumented
  <2>6. Given(env.gateway_key) => config.gateway_key = env.gateway_key
    BY <2>1 DEF Given, Override
  <2>7. QED
    BY <2>4, <2>5, <2>6
<1>2. QED
  BY <1>1, Invariance, PTL

\* A configured PEM pair is the only certificate that clients ever see, across
\* any number of failed starts, crashes and restarts (build_server).
THEOREM PinsHold == Spec => []PinHolds
<1>1. ASSUME IInv PROVE PinHolds
  <2>1. SUFFICES ASSUME pc \in Listening, ~Hidden, file.config.tls_cert,
                        file.config.tls_key, NEW c \in Conns
                 PROVE  pin[c] \in {None, cert}
    BY DEF PinHolds
  <2>2. cert = Some(PEM) /\ issued \subseteq {PEM}
    BY <1>1, <2>1 DEF IInv, TypeOK, Pinned, Hidden
  <2>3. QED
    BY <1>1, <2>2 DEF IInv, Pinned, Hidden
<1>2. QED
  BY <1>1, Invariance, PTL

\* No accepted connection is ever dropped between the loop and a handler, for
\* any number of connections (serve, accept_control).
THEOREM NothingIsStranded == Spec => []NoneStranded
<1>1. IInv => NoneStranded
  BY DEF IInv
<1>2. QED
  BY <1>1, Invariance, PTL
=============================================================================
