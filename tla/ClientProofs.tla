----------------------------- MODULE ClientProofs -----------------------------
(***************************************************************************)
(* The client and its connection, for every number of states, messages and *)
(* other players: connect keeps its promise to boot, and nothing of a      *)
(* connection outlives it.  And for every interval, both timeouts and      *)
(* every delay that leave each other room: pings keep a live connection    *)
(* up.  Both ends of the protocol take what the other builds, and other    *)
(* players are shown on their way, a little late.                          *)
(***************************************************************************)
EXTENDS RelayClient, Heartbeat, Codec, RemotePlayers, ListLemmas

\* The transport, its socket, its promise and the boot that awaits it go together; the
\* properties speak of two of the four at a time and are not inductive alone.
Phases ==
  \/ /\ state = "idle" /\ socket = "none" /\ promise = "none"
     /\ boot \in {"init", "map", "renderer", "failed", "playing", "disposed"}
  \/ /\ state = "connecting" /\ socket = "connecting"
     /\ promise = "pending" /\ boot = "connecting"
  \/ /\ state = "handshaking" /\ socket = "open"
     /\ promise = "pending" /\ boot = "connecting"
  \/ /\ state = "ready" /\ socket = "open"
     /\ promise = "resolved" /\ boot = "playing"
  \/ /\ state = "closing" /\ socket = "closing"
     /\ promise \in {"resolved", "rejected"} /\ boot \in {"playing", "disposed"}
  \/ /\ state = "closed" /\ socket \in {"none", "closed"}
     /\ promise \in {"resolved", "rejected"} /\ boot \in {"playing", "disposed"}

\* What the client knows follows what the transport told it.
ClientFollows ==
  /\ promise = "resolved" => welcomed = TRUE
  /\ client.connected => promise = "resolved"
  /\ state = "idle" => ~client.subscribed /\ ~client.sendTimer /\ client.remotes = {}
  /\ boot = "disposed" => ~client.subscribed /\ ~client.sendTimer /\ client.remotes = {}

Messages == [kind : {"welcome", "error", "state", "leave"}, who : SUBSET Peers]
Clients == [connected : BOOLEAN, inRoom : BOOLEAN, remotes : SUBSET Peers,
            subscribed : BOOLEAN, sendTimer : BOOLEAN, pending : Nat, lastSent : Nat]
Timed == TimersFollowState
ClientInv == /\ client \in Clients /\ leaves \in Nat
             /\ options \in [network : BOOLEAN, named : BOOLEAN, timed : BOOLEAN]
             /\ wire \in Seq(Messages)
             /\ Phases /\ Timed /\ ClientFollows

\* Nothing has happened yet.
LEMMA InitFollows ==
  ASSUME ClientInit
  PROVE  ClientInv
<1>1. client \in Clients /\ ~client.connected /\ ~client.subscribed /\ ~client.sendTimer
      /\ client.remotes = {}
  BY DEF ClientInit, NewClient, Clients
<1>2. leaves \in Nat /\ options \in [network : BOOLEAN, named : BOOLEAN, timed : BOOLEAN]
      /\ wire \in Seq(Messages)
  BY DEF ClientInit
<1>3. Phases /\ Timed
  BY DEF ClientInit, Phases, Timed, TimersFollowState
<1>4. ClientFollows
  BY <1>1 DEF ClientInit, ClientFollows
<1> QED BY <1>1, <1>2, <1>3, <1>4 DEF ClientInv

\* The steps of boot before and without the network.
LEMMA BootFollows ==
  ASSUME ClientInv, LoadMap \/ CreateRuntimeRenderer \/ PlayAlone
  PROVE  ClientInv'
<1>1. /\ boot \in {"init", "map", "renderer"}
      /\ boot' \in {"map", "renderer", "failed", "playing"}
      /\ UNCHANGED <<options, state, socket, promise, timers, silent, serverVars, client,
                     leaves, welcomed>>
  BY DEF LoadMap, CreateRuntimeRenderer, PlayAlone, BootStep
<1>2. Phases' BY <1>1 DEF ClientInv, Phases
<1>3. Timed' BY <1>1 DEF ClientInv, Timed, TimersFollowState
<1>4. ClientFollows' BY <1>1 DEF ClientInv, ClientFollows
<1> QED BY <1>1, <1>2, <1>3, <1>4 DEF ClientInv, serverVars

\* NetworkClient.connect subscribes and starts the transport.
LEMMA CreateFollows ==
  ASSUME ClientInv, CreateNetworkClient
  PROVE  ClientInv'
<1>1. /\ state = "idle" /\ boot = "renderer"
      /\ client' = [client EXCEPT !.subscribed = TRUE]
      /\ UNCHANGED <<options, timers, silent, serverVars, leaves, welcomed>>
      /\ TransportConnect
  BY DEF CreateNetworkClient
<1>2. socket = "none" /\ promise = "none" BY <1>1 DEF ClientInv, Phases
<1>3. Phases' BY <1>1, <1>2 DEF TransportConnect, Phases
<1>4. state' \in {"connecting", "closed"} /\ promise' \in {"pending", "rejected"}
      /\ boot' # "disposed"
  BY <1>1 DEF TransportConnect
<1>5. Timed' BY <1>1, <1>4 DEF ClientInv, Timed, TimersFollowState
<1>6. client' \in Clients /\ client'.connected = client.connected
  BY <1>1 DEF ClientInv, Clients
<1>7. ClientFollows' BY <1>1, <1>2, <1>4, <1>6 DEF ClientInv, ClientFollows
<1> QED BY <1>1, <1>3, <1>5, <1>6, <1>7 DEF ClientInv, serverVars

\* The socket opens: the hello goes out and is timed.
LEMMA OpenFollows ==
  ASSUME ClientInv, HandleOpen
  PROVE  ClientInv'
<1>1. /\ state = "connecting" /\ state' = "handshaking"
      /\ socket = "connecting" /\ socket' = "open"
      /\ timers' = IF options.named THEN {"handshake"} ELSE timers
      /\ UNCHANGED <<options, boot, promise, silent, serverVars, client, leaves, welcomed>>
  BY DEF HandleOpen
<1>2. Phases' BY <1>1 DEF ClientInv, Phases
<1>3. timers = {} BY <1>1 DEF ClientInv, Timed, TimersFollowState
<1>4. Timed' BY <1>1, <1>3 DEF Timed, TimersFollowState
<1>5. ClientFollows' BY <1>1 DEF ClientInv, ClientFollows
<1> QED BY <1>1, <1>2, <1>4, <1>5 DEF ClientInv, serverVars

\* The two timers close by force: the one of the handshake rejects.
LEMMA TimersFollow ==
  ASSUME ClientInv, HandshakeTimeout \/ Watchdog
  PROVE  ClientInv'
<1>1. /\ state' = "closing" /\ socket' = "closing" /\ timers' = {}
      /\ UNCHANGED <<options, silent, serverVars, client, leaves, welcomed>>
  BY DEF HandshakeTimeout, Watchdog, ForceClose, StopTimers
<1>2. state \in {"handshaking", "ready"} /\ ("handshake" \in timers => state = "handshaking")
      /\ ("watchdog" \in timers => state = "ready")
  BY DEF HandshakeTimeout, Watchdog, ClientInv, Timed, TimersFollowState
<1>3. /\ promise' \in {"resolved", "rejected"} /\ boot' = "playing"
      /\ promise = "resolved" <=> promise' = "resolved"
  BY <1>2 DEF HandshakeTimeout, Watchdog, RejectConnect, ClientInv, Phases
<1>4. Phases' BY <1>1, <1>3 DEF Phases
<1>5. Timed' BY <1>1 DEF Timed, TimersFollowState
<1>6. ClientFollows' BY <1>1, <1>3 DEF ClientInv, ClientFollows
<1> QED BY <1>1, <1>4, <1>5, <1>6 DEF ClientInv, serverVars

\* The socket closes, for whatever reason.
LEMMA CloseFollows ==
  ASSUME ClientInv, SocketFails \/ SocketCloses \/ SocketDrops
  PROVE  ClientInv'
<1>1. /\ state' = "closed" /\ socket' = "closed" /\ timers' = {} /\ wire' = << >>
      /\ UNCHANGED <<options, silent, sent, client, leaves, welcomed>>
      /\ state \in {"connecting", "handshaking", "ready", "closing"}
  BY DEF SocketFails, SocketCloses, SocketDrops, HandleClose, StopTimers, ClientInv, Phases
<1>2. /\ promise' \in {"resolved", "rejected"} /\ boot' \in {"playing", "disposed"}
      /\ promise = "resolved" <=> promise' = "resolved"
      /\ boot' = "disposed" => boot = "disposed"
  BY <1>1 DEF SocketFails, SocketCloses, SocketDrops, HandleClose, RejectConnect, ClientInv, Phases
<1>3. Phases' BY <1>1, <1>2 DEF Phases
<1>4. Timed' BY <1>1 DEF Timed, TimersFollowState
<1>5. ClientFollows' BY <1>1, <1>2 DEF ClientInv, ClientFollows
<1>6. wire' \in Seq(Messages)
  BY <1>1
<1> QED BY <1>1, <1>3, <1>4, <1>5, <1>6 DEF ClientInv

\* An envelope for the subscriber: only a welcome in time connects it.
LEMMA EnvelopeFollows ==
  ASSUME client \in Clients,
         NEW m \in Messages, HandleEnvelope(m)
  PROVE  /\ client' \in Clients
         /\ client'.connected => client.connected \/ (m.kind = "welcome" /\ state = "handshaking")
         /\ client'.subscribed = client.subscribed
<1>1. m.who \in SUBSET Peers /\ m.kind \in {"welcome", "error", "state", "leave"} BY DEF Messages
<1>2. CASE ~client.subscribed BY <1>2 DEF HandleEnvelope
<1>3. CASE client.subscribed /\ m.kind = "welcome"
  <2>1. client' = [client EXCEPT !.inRoom = TRUE, !.remotes = @ \union m.who,
                                 !.connected = @ \/ state = "handshaking",
                                 !.sendTimer = @ \/ state = "handshaking"]
    BY <1>3 DEF HandleEnvelope
  <2> QED BY <1>1, <1>3, <2>1 DEF Clients
<1>4. CASE client.subscribed /\ m.kind = "state"
  <2>1. client' = [client EXCEPT !.remotes = @ \union m.who] BY <1>4 DEF HandleEnvelope
  <2> QED BY <1>1, <2>1 DEF Clients
<1>5. CASE client.subscribed /\ m.kind = "leave"
  <2>1. client' = [client EXCEPT !.remotes = @ \ m.who] BY <1>5 DEF HandleEnvelope
  <2> QED BY <1>1, <2>1 DEF Clients
<1>6. CASE client.subscribed /\ m.kind = "error" BY <1>6 DEF HandleEnvelope
<1> QED BY <1>1, <1>2, <1>3, <1>4, <1>5, <1>6

\* What is left of the wire, and what came off it.
LEMMA HeadAndTail ==
  ASSUME NEW S, NEW q \in Seq(S), q # << >>
  PROVE  Head(q) \in S /\ Tail(q) \in Seq(S)
  OBVIOUS

\* A message arrives: a welcome in time completes the handshake, whatever is late or
\* of another kind does not.
LEMMA MessageFollows ==
  ASSUME ClientInv, HandleMessage
  PROVE  ClientInv'
<1> DEFINE m == Head(wire)
<1> DEFINE Welcomed == m.kind = "welcome" /\ state = "handshaking"
<1>1. /\ socket = "open" /\ wire # << >> /\ wire' = Tail(wire) /\ HandleEnvelope(m)
      /\ UNCHANGED <<options, socket, sent, leaves>>
      /\ IF Welcomed THEN CompleteHandshake
                     ELSE UNCHANGED <<state, timers, promise, boot, welcomed>>
  BY DEF HandleMessage
<1>2. /\ m \in Messages
      /\ wire' \in Seq(Messages)
  BY <1>1, HeadAndTail DEF ClientInv
<1> HIDE DEF m
<1>3. /\ client' \in Clients
      /\ client'.connected => client.connected \/ Welcomed
      /\ client'.subscribed = client.subscribed
  BY <1>1, <1>2, EnvelopeFollows DEF ClientInv
<1>4. state \in {"handshaking", "ready"} /\ boot \in {"connecting", "playing"}
  BY <1>1 DEF ClientInv, Phases
<1>5. CASE Welcomed
  <2>1. /\ state' = "ready" /\ timers' = {"ping", "watchdog"} /\ promise' = "resolved"
        /\ boot' = "playing" /\ welcomed' = TRUE
    BY <1>1, <1>5 DEF CompleteHandshake
  <2>2. Phases' BY <1>1, <2>1 DEF Phases
  <2>3. Timed' BY <1>1, <2>1 DEF Timed, TimersFollowState
  <2>4. ClientFollows' BY <2>1 DEF ClientFollows
  <2> QED BY <1>1, <1>2, <1>3, <2>2, <2>3, <2>4 DEF ClientInv
<1>6. CASE ~Welcomed
  <2>1. UNCHANGED <<state, timers, promise, boot, welcomed>> BY <1>1, <1>6
  <2>2. Phases' BY <1>1, <2>1 DEF ClientInv, Phases
  <2>3. Timed' BY <1>1, <2>1 DEF ClientInv, Timed, TimersFollowState
  <2>4. ClientFollows' BY <1>3, <1>4, <1>6, <2>1 DEF ClientInv, ClientFollows
  <2> QED BY <1>1, <1>2, <1>3, <2>2, <2>3, <2>4 DEF ClientInv
<1> QED BY <1>5, <1>6

\* The game sets and sends its state, through a client that plays.
LEMMA StateFollows ==
  ASSUME ClientInv, SetLocalState \/ FlushPendingState
  PROVE  ClientInv'
<1>1. UNCHANGED <<options, boot, state, socket, promise, timers, silent, serverVars, leaves,
                  welcomed>>
  BY DEF SetLocalState, FlushPendingState
<1>2. /\ client' \in Clients /\ client'.connected = client.connected
      /\ client'.subscribed = client.subscribed /\ client'.sendTimer = client.sendTimer
      /\ client'.remotes = client.remotes
  BY DEF SetLocalState, FlushPendingState, ClientInv, Clients
<1>3. Phases' BY <1>1 DEF ClientInv, Phases
<1>4. Timed' BY <1>1 DEF ClientInv, Timed, TimersFollowState
<1>5. ClientFollows' BY <1>1, <1>2 DEF ClientInv, ClientFollows
<1> QED BY <1>1, <1>2, <1>3, <1>4, <1>5 DEF ClientInv, serverVars

\* The game is disposed: the client lets go of everything, the transport says goodbye if
\* the connection is up.
LEMMA DisposeFollows ==
  ASSUME ClientInv, Close
  PROVE  ClientInv' /\ (state = "ready" => leaves' > leaves)
<1> DEFINE said == IF client.connected /\ state = "ready" THEN 1 ELSE 0
<1>1. /\ boot = "playing" /\ boot' = "disposed" /\ TransportClose(said)
      /\ UNCHANGED <<options, promise, silent, serverVars, welcomed>>
      /\ client' = [client EXCEPT !.connected = FALSE, !.remotes = {}, !.subscribed = FALSE,
                                  !.sendTimer = FALSE]
  BY DEF Close
<1>2. /\ client' \in Clients /\ ~client'.connected /\ ~client'.subscribed
      /\ ~client'.sendTimer /\ client'.remotes = {}
  BY <1>1 DEF ClientInv, Clients
<1>3. said \in {0, 1} /\ leaves \in Nat BY DEF ClientInv
<1> HIDE DEF said
<1>4. leaves' \in Nat /\ (state = "ready" => leaves' > leaves)
  BY <1>1, <1>3 DEF TransportClose
<1>5. state \in {"idle", "ready", "closing", "closed"} BY <1>1 DEF ClientInv, Phases
<1>6. CASE state \in {"idle", "closed"}
  <2>1. UNCHANGED <<state, socket, timers>> BY <1>1, <1>6 DEF TransportClose
  <2>2. Phases' BY <1>1, <1>6, <2>1 DEF ClientInv, Phases
  <2>3. Timed' BY <1>1, <2>1 DEF ClientInv, Timed, TimersFollowState
  <2> QED BY <1>1, <1>2, <1>4, <2>1, <2>2, <2>3 DEF ClientInv, ClientFollows, serverVars
<1>7. CASE state \in {"ready", "closing"}
  <2>1. state' = "closing" /\ socket' = "closing" /\ timers' = {}
    BY <1>1, <1>7 DEF TransportClose, StopTimers
  <2>2. Phases' BY <1>1, <1>7, <2>1 DEF ClientInv, Phases
  <2>3. Timed' BY <2>1 DEF Timed, TimersFollowState
  <2> QED BY <1>1, <1>2, <1>4, <2>1, <2>2, <2>3 DEF ClientInv, ClientFollows, serverVars
<1> QED BY <1>4, <1>5, <1>6, <1>7

\* What the server and time do, they do to the wire and the silence alone.
LEMMA OthersFollow ==
  ASSUME ClientInv, ServerWelcomes \/ ServerRefuses \/ ServerRelays \/ SilencePasses
  PROVE  ClientInv'
<1>1. /\ UNCHANGED <<options, boot, state, socket, promise, timers, client, leaves, welcomed>>
      /\ wire' \in Seq(Messages)
  <2>1. CASE SilencePasses BY <2>1 DEF SilencePasses, serverVars, ClientInv
  <2>0. {} \in SUBSET Peers OBVIOUS
  <2>2. ASSUME NEW k \in {"welcome", "error", "state", "leave"}, NEW w \in SUBSET Peers,
               Send([kind |-> k, who |-> w])
        PROVE  /\ UNCHANGED <<options, boot, state, socket, promise, timers, client, leaves,
                              welcomed>>
               /\ wire' \in Seq(Messages)
    <3>1. [kind |-> k, who |-> w] \in Messages BY DEF Messages
    <3> QED BY <2>2, <3>1 DEF Send, ClientInv
  <2>3. CASE ServerWelcomes BY <2>2, <2>3 DEF ServerWelcomes
  <2>4. CASE ServerRefuses BY <2>0, <2>2, <2>4 DEF ServerRefuses
  <2>5. CASE ServerRelays
    <3>1. PICK p \in Peers, k \in {"state", "leave"} : Send([kind |-> k, who |-> {p}])
      BY <2>5 DEF ServerRelays
    <3>2. {p} \in SUBSET Peers OBVIOUS
    <3> QED BY <2>2, <3>1, <3>2
  <2> QED BY <2>1, <2>3, <2>4, <2>5
<1>2. Phases' BY <1>1 DEF ClientInv, Phases
<1>3. Timed' BY <1>1 DEF ClientInv, Timed, TimersFollowState
<1>4. ClientFollows' BY <1>1 DEF ClientInv, ClientFollows
<1> QED BY <1>1, <1>2, <1>3, <1>4 DEF ClientInv

\* Every step keeps the invariant.
LEMMA StepFollows ==
  ASSUME ClientInv, [ClientNext]_clientVars
  PROVE  ClientInv'
<1>1. CASE UNCHANGED clientVars
  BY <1>1 DEF clientVars, serverVars, ClientInv, Phases, Timed, TimersFollowState, ClientFollows
<1> QED BY <1>1, BootFollows, CreateFollows, OpenFollows, TimersFollow, CloseFollows,
           MessageFollows, StateFollows, DisposeFollows, OthersFollow DEF ClientNext

-----------------------------------------------------------------------------
\* The invariant holds of every behaviour.
THEOREM ClientInvariant == ClientSpec => []ClientInv
<1>1. ClientInit => ClientInv BY InitFollows
<1>2. ClientInv /\ [ClientNext]_clientVars => ClientInv' BY StepFollows
<1> QED BY <1>1, <1>2, PTL DEF ClientSpec

\* What no property speaks of is typed too, whatever the invariant.
Plain == silent \in BOOLEAN /\ welcomed \in BOOLEAN /\ sent \in Nat

\* Every step keeps it.
LEMMA PlainStays ==
  ASSUME Plain, [ClientNext]_clientVars
  PROVE  Plain'
<1>1. CASE UNCHANGED <<silent, welcomed, sent>> BY <1>1 DEF Plain
<1>2. CASE UNCHANGED clientVars BY <1>1, <1>2 DEF clientVars
<1>3. CASE LoadMap \/ CreateRuntimeRenderer \/ PlayAlone \/ CreateNetworkClient
  BY <1>1, <1>3 DEF LoadMap, CreateRuntimeRenderer, PlayAlone, BootStep, CreateNetworkClient,
                    serverVars
<1>4. CASE HandleOpen \/ HandshakeTimeout \/ Watchdog
  BY <1>1, <1>4 DEF HandleOpen, HandshakeTimeout, Watchdog, serverVars
<1>5. CASE SocketFails \/ SocketCloses \/ SocketDrops
  BY <1>5 DEF SocketFails, SocketCloses, SocketDrops, HandleClose, serverVars, Plain
<1>6. CASE HandleMessage
  <2>1. silent' = FALSE /\ sent' = sent /\ (welcomed' = TRUE \/ welcomed' = welcomed)
    BY <1>6 DEF HandleMessage, CompleteHandshake
  <2> QED BY <2>1, Zenon DEF Plain
<1>7. CASE SetLocalState \/ FlushPendingState \/ Close
  BY <1>1, <1>7 DEF SetLocalState, FlushPendingState, Close, serverVars
<1>8. CASE ServerWelcomes \/ ServerRefuses \/ ServerRelays
  <2>1. PICK m : Send(m) BY <1>8 DEF ServerWelcomes, ServerRefuses, ServerRelays
  <2>2. UNCHANGED <<silent, welcomed>> /\ sent' = sent + 1 BY <2>1 DEF Send
  <2>3. sent' \in Nat BY <2>2 DEF Plain
  <2> QED BY <2>2, <2>3 DEF Plain
<1>9. CASE SilencePasses
  <2>1. silent' = TRUE /\ UNCHANGED <<welcomed, sent>> BY <1>9 DEF SilencePasses, serverVars
  <2> QED BY <2>1, Zenon DEF Plain
<1> QED BY <1>2, <1>3, <1>4, <1>5, <1>6, <1>7, <1>8, <1>9 DEF ClientNext

\* No timer outlives the state that armed it, nobody is connected who was not welcomed,
\* and neither a disposed game nor a failed boot leaves a connection behind (boot,
\* NetworkClient.close, WebSocketTransport.close and its handlers).
THEOREM NothingEverRunsOn == ClientSpec => []NothingRunsOn
<1>1. ASSUME ClientInv PROVE TimersFollowState BY <1>1 DEF ClientInv, Timed
<1>2. ASSUME ClientInv PROVE ConnectedWasWelcomed
  BY <1>2 DEF ClientInv, ClientFollows, ConnectedWasWelcomed
<1>3. ASSUME ClientInv PROVE FailedBootOpenedNothing
  BY <1>3 DEF ClientInv, Phases, ClientFollows, FailedBootOpenedNothing
<1>4. ASSUME ClientInv PROVE DisposeReleases
  BY <1>4 DEF ClientInv, Phases, Timed, TimersFollowState, ClientFollows, DisposeReleases
<1>5. ASSUME ClientInv, Plain PROVE ClientTypeOK
  <2>1. timers \subseteq {"handshake", "ping", "watchdog"}
    BY <1>5 DEF ClientInv, Timed, TimersFollowState
  <2>2. /\ boot \in {"init", "map", "renderer", "connecting", "playing", "disposed", "failed"}
        /\ state \in {"idle", "connecting", "handshaking", "ready", "closing", "closed"}
        /\ socket \in {"none", "connecting", "open", "closing", "closed"}
        /\ promise \in {"none", "pending", "resolved", "rejected"}
    BY <1>5 DEF ClientInv, Phases
  <2> QED BY <1>5, <2>1, <2>2 DEF ClientInv, Plain, ClientTypeOK, Messages, Clients
<1>6. ClientInv /\ Plain => NothingRunsOn
  BY <1>1, <1>2, <1>3, <1>4, <1>5 DEF NothingRunsOn
<1>7. ClientInit => Plain
  <2>1. ClientInit => sent = 0 /\ silent = FALSE /\ welcomed = FALSE BY DEF ClientInit
  <2>2. sent = 0 => sent \in Nat OBVIOUS
  <2> QED BY <2>1, <2>2, Zenon DEF Plain
<1>8. Plain /\ [ClientNext]_clientVars => Plain' BY PlainStays
<1> QED BY <1>6, <1>7, <1>8, ClientInvariant, PTL DEF ClientSpec

\* A game that is disposed while the connection is up says goodbye (Game.dispose,
\* NetworkClient.close).
THEOREM GoodbyeIsAlwaysSaid == ClientSpec => GoodbyeIsSaid
<1>1. ClientInv /\ [ClientNext]_clientVars => [Close /\ state = "ready" => leaves' > leaves]_clientVars
  BY DisposeFollows
<1> QED BY <1>1, ClientInvariant, PTL DEF ClientSpec, GoodbyeIsSaid

-----------------------------------------------------------------------------
(* The refinement: what the transport does is what ConnectPromise promises. *)

\* Where the transport is, in the words of ConnectPromise.
Phase == CASE state = "idle" -> "idle"
           [] state \in {"connecting", "handshaking"} -> "opening"
           [] state = "ready" -> "up"
           [] OTHER -> "down"

\* The phase that each state of the transport stands for.
LEMMA PhaseOfState ==
  /\ state = "idle" => Phase = "idle"
  /\ state \in {"connecting", "handshaking"} => Phase = "opening"
  /\ state = "ready" => Phase = "up"
  /\ state \in {"closing", "closed"} => Phase = "down"
  /\ state' = "idle" => Phase' = "idle"
  /\ state' \in {"connecting", "handshaking"} => Phase' = "opening"
  /\ state' = "ready" => Phase' = "up"
  /\ state' \in {"closing", "closed"} => Phase' = "down"
  BY DEF Phase

\* ConnectPromise with the phase and the promise of the transport in place of its own.
StepPromised ==
  \/ Phase = "idle" /\ Phase' = "opening" /\ promise' = "pending"
  \/ Phase = "idle" /\ Phase' = "down" /\ promise' = "rejected"
  \/ Phase = "opening" /\ Phase' = "up" /\ promise' = "resolved"
  \/ Phase = "opening" /\ Phase' = "down" /\ promise' \in {"pending", "rejected"}
  \/ Phase = "up" /\ Phase' = "down" /\ promise' = promise
  \/ Phase' = Phase /\ promise' = promise

\* Every step moves the promise as ConnectPromise allows, or leaves it alone.
LEMMA EachStepPromised ==
  ASSUME ClientInv, [ClientNext]_clientVars
  PROVE  StepPromised
<1>1. ASSUME UNCHANGED <<state, promise>> PROVE StepPromised
  BY <1>1 DEF StepPromised, Phase
<1>2. CASE UNCHANGED clientVars BY <1>1, <1>2 DEF clientVars
<1>3. CASE LoadMap \/ CreateRuntimeRenderer \/ PlayAlone
  BY <1>1, <1>3 DEF LoadMap, CreateRuntimeRenderer, PlayAlone, BootStep
<1>4. CASE CreateNetworkClient
  BY <1>4, PhaseOfState DEF CreateNetworkClient, TransportConnect, StepPromised
<1>5. CASE HandleOpen
  BY <1>5, PhaseOfState DEF HandleOpen, StepPromised
<1>6. CASE HandshakeTimeout
  <2>1. state = "handshaking" /\ promise = "pending"
    BY <1>6 DEF HandshakeTimeout, ClientInv, Timed, TimersFollowState, Phases
  <2> QED BY <1>6, <2>1, PhaseOfState DEF HandshakeTimeout, RejectConnect, ForceClose, StepPromised
<1>7. CASE Watchdog
  <2>1. state = "ready"
    BY <1>7 DEF Watchdog, ClientInv, Timed, TimersFollowState, Phases
  <2> QED BY <1>7, <2>1, PhaseOfState DEF Watchdog, ForceClose, StepPromised
<1>8. CASE SocketFails \/ SocketCloses \/ SocketDrops
  <2>1. state \in {"connecting", "handshaking", "ready", "closing"} /\ state' = "closed"
    BY <1>8 DEF SocketFails, SocketCloses, SocketDrops, HandleClose, ClientInv, Phases
  <2>2. CASE state \in {"connecting", "handshaking"}
    <3>1. promise = "pending" BY <2>2 DEF ClientInv, Phases
    <3>2. promise' = "rejected"
      BY <1>8, <2>2, <3>1 DEF SocketFails, SocketCloses, SocketDrops, HandleClose, RejectConnect
    <3> QED BY <2>1, <2>2, <3>2, PhaseOfState DEF StepPromised
  <2>3. CASE state \in {"ready", "closing"}
    <3>1. promise # "pending" BY <2>3 DEF ClientInv, Phases
    <3>2. promise' = promise
      BY <1>8, <2>3, <3>1 DEF SocketFails, SocketCloses, SocketDrops, HandleClose, RejectConnect
    <3> QED BY <2>1, <2>3, <3>2, PhaseOfState DEF StepPromised
  <2> QED BY <2>1, <2>2, <2>3
<1>9. CASE HandleMessage
  <2>1. CASE Head(wire).kind = "welcome" /\ state = "handshaking"
    BY <1>9, <2>1, PhaseOfState DEF HandleMessage, CompleteHandshake, StepPromised
  <2>2. CASE ~(Head(wire).kind = "welcome" /\ state = "handshaking")
    BY <1>1, <1>9, <2>2 DEF HandleMessage
  <2> QED BY <2>1, <2>2
<1>10. CASE SetLocalState \/ FlushPendingState
  BY <1>1, <1>10 DEF SetLocalState, FlushPendingState
<1>11. CASE Close
  <2>1. promise' = promise /\ (state' = state \/ state' = "closing") BY <1>11 DEF Close, TransportClose
  <2>2. state \in {"idle", "ready", "closing", "closed"} BY <1>11 DEF Close, ClientInv, Phases
  <2>3. state \in {"idle", "closed"} => state' = state BY <1>11 DEF Close, TransportClose
  <2> QED BY <1>1, <2>1, <2>2, <2>3, PhaseOfState DEF StepPromised
<1>12. CASE ServerWelcomes \/ ServerRefuses \/ ServerRelays \/ SilencePasses
  BY <1>1, <1>12 DEF ServerWelcomes, ServerRefuses, ServerRelays, SilencePasses, Send
<1> QED BY <1>2, <1>3, <1>4, <1>5, <1>6, <1>7, <1>8, <1>9, <1>10, <1>11, <1>12 DEF ClientNext

\* connect resolves at the welcome and at nothing else, never both ways, and a connection
\* that fails rejects: RelayClient implements ConnectPromise (WebSocketTransport.connect).
THEOREM ConnectIsKept == ClientSpec => ConnectSettles
<1>1. ClientInit => Lifecycle!PromiseInit
  BY DEF ClientInit, Lifecycle!PromiseInit
<1>2. ClientInv /\ [ClientNext]_clientVars => [Lifecycle!PromiseNext]_(Lifecycle!promiseVars)
  BY EachStepPromised
     DEF StepPromised, Phase, Lifecycle!PromiseNext, Lifecycle!Start, Lifecycle!ComeUp,
         Lifecycle!Fail, Lifecycle!Report, Lifecycle!GoDown, Lifecycle!promiseVars
<1> QED BY <1>1, <1>2, ClientInvariant, PTL DEF ClientSpec, ConnectSettles, Lifecycle!PromiseSpec

\* Both together: whoever awaits connect is told once and rightly, and the room is told
\* when the game goes.
THEOREM ConnectPromiseIsKept == ClientSpec => KeepsConnectPromise
  BY ConnectIsKept, GoodbyeIsAlwaysSaid, PTL DEF KeepsConnectPromise

-----------------------------------------------------------------------------
(* The heartbeat.                                                           *)

\* The age of the message that is next to arrive.
Oldest(box) == box[1]

\* What the server has waited for: the ping that is next to arrive was sent within one
\* interval of the message before it, the hello at the least.
ServerHeard ==
    /\ pings = << >> => idle + nextPing <= MaxDelay + PingInterval
    /\ pings # << >> => idle <= MaxDelay + PingInterval + Oldest(pings)

\* What the client has waited for: the next pong is as old as its way here, its ping
\* took as long at most; without a pong under way it is the next ping that counts.
ClientHeard ==
    /\ pongs # << >> => inbound <= PingInterval + MaxDelay + Oldest(pongs)
    /\ pongs = << >> /\ pings # << >> => inbound <= PingInterval + Oldest(pings)
    /\ pongs = << >> /\ pings = << >> => inbound + nextPing <= PingInterval

\* Both only while the network lives; a dead one forgets what was under way.
Alive == clientUp /\ serverUp /\ ~expired /\ ServerHeard /\ ClientHeard
BeatInv == BeatTypeOK /\ nextPing <= PingInterval /\ (~dead => Alive)

\* The times are natural numbers.
LEMMA ConstantsAreNat ==
  /\ HeartbeatTicks \in Nat /\ HeartbeatTicks > 0 /\ MaxDelay \in Nat
  /\ ClientTimeout \in Nat /\ ServerTimeout \in Nat
  /\ HeartbeatTicks + 2 * MaxDelay < ClientTimeout
  /\ HeartbeatTicks + 2 * MaxDelay < ServerTimeout
  /\ MaxDelay <= ServerTimeout
<1>1. /\ HeartbeatTicks \in Nat /\ HeartbeatTicks > 0 /\ MaxDelay \in Nat
      /\ ClientTimeout \in Nat /\ ServerTimeout \in Nat
  BY HeartbeatAssumption
<1> QED BY <1>1, HeartbeatAssumption

\* A ping interval and the way there and back fit into either timeout.
LEMMA IntervalIsShort ==
  ASSUME timed \in BOOLEAN
  PROVE  PingInterval \in Nat /\ 0 < PingInterval /\ PingInterval <= HeartbeatTicks
  BY ConstantsAreNat DEF PingInterval

\* What a tick does to the messages under way.
LEMMA BoxGrows ==
  ASSUME NEW D \in Nat, NEW box \in Seq(0..D), \A i \in DOMAIN box : box[i] < D
  PROVE  /\ Older(box) \in Seq(0..D)
         /\ Older(box) = << >> <=> box = << >>
         /\ box # << >> => Oldest(Older(box)) = Oldest(box) + 1
<1>1. DOMAIN box = 1..Len(box) /\ Len(box) \in Nat /\ \A i \in 1..Len(box) : box[i] \in 0..D
  OBVIOUS
<1>2. Older(box) \in [1..Len(box) -> 0..D]
  BY <1>1 DEF Older
<1>3. Older(box) \in Seq(0..D) /\ Len(Older(box)) = Len(box)
  BY <1>1, <1>2
<1>4. ASSUME box # << >> PROVE Oldest(Older(box)) = Oldest(box) + 1
  BY <1>1, <1>4 DEF Older, Oldest
<1> QED BY <1>1, <1>3, <1>4

\* What sending and arriving do to them.
LEMMA BoxChanges ==
  ASSUME NEW D \in Nat, NEW box \in Seq(0..D)
  PROVE  /\ Append(box, 0) \in Seq(0..D) /\ Append(box, 0) # << >>
         /\ Oldest(Append(box, 0)) = IF box = << >> THEN 0 ELSE Oldest(box)
         /\ box # << >> => /\ Tail(box) \in Seq(0..D) /\ Oldest(box) \in 0..D
                           /\ Tail(box) # << >> => Oldest(Tail(box)) \in 0..D
<1>1. DOMAIN box = 1..Len(box) /\ Len(box) \in Nat /\ \A i \in 1..Len(box) : box[i] \in 0..D
  OBVIOUS
<1>2. ASSUME box # << >>
      PROVE  /\ Tail(box) \in Seq(0..D) /\ Oldest(box) \in 0..D
             /\ Tail(box) # << >> => Oldest(Tail(box)) \in 0..D
  <2>1. Tail(box) \in Seq(0..D) BY <1>2
  <2>2. Tail(box) # << >> => Oldest(Tail(box)) \in 0..D BY <2>1 DEF Oldest
  <2>3. Oldest(box) \in 0..D BY <1>1, <1>2 DEF Oldest
  <2> QED BY <2>1, <2>2, <2>3
<1>3. Append(box, 0) \in Seq(0..D) /\ Append(box, 0) # << >>
  <2>1. 0 \in 0..D OBVIOUS
  <2> QED BY <2>1
<1>4. Oldest(Append(box, 0)) = IF box = << >> THEN 0 ELSE Oldest(box)
  <2>1. CASE box = << >> BY <2>1 DEF Oldest
  <2>2. CASE box # << >>
    <3>1. 1 \in 1..Len(box) BY <1>1, <2>2
    <3> QED BY <1>1, <2>2, <3>1 DEF Oldest
  <2> QED BY <2>1, <2>2
<1> QED BY <1>2, <1>3, <1>4

\* The welcome has just arrived, the hello was handled a delay ago at the most.
LEMMA InitIsAlive ==
  ASSUME BeatInit
  PROVE  BeatInv
<1>1. PingInterval \in Nat /\ 0 < PingInterval /\ PingInterval <= HeartbeatTicks
  BY IntervalIsShort DEF BeatInit
<1>2. BeatTypeOK
  <2>1. {timed, clientUp, serverUp, dead, expired} \subseteq BOOLEAN BY DEF BeatInit
  <2>2. pings \in Seq(0..MaxDelay) /\ pongs \in Seq(0..MaxDelay) BY DEF BeatInit
  <2>3. nextPing \in 0..HeartbeatTicks /\ inbound \in 0..(ClientTimeout + 1)
    BY <1>1, ConstantsAreNat DEF BeatInit
  <2>4. idle \in 0..ServerTimeout BY ConstantsAreNat DEF BeatInit
  <2> QED BY <2>1, <2>2, <2>3, <2>4 DEF BeatTypeOK
<1>3. ServerHeard /\ ClientHeard
  BY <1>1, ConstantsAreNat DEF BeatInit, ServerHeard, ClientHeard
<1> QED BY <1>1, <1>2, <1>3 DEF BeatInit, BeatInv, Alive

\* What the invariant says of the types, for the steps below.
LEMMA PlainFacts ==
  ASSUME BeatInv
  PROVE  /\ timed \in BOOLEAN /\ clientUp \in BOOLEAN /\ serverUp \in BOOLEAN
         /\ dead \in BOOLEAN /\ expired \in BOOLEAN
         /\ nextPing \in Nat /\ nextPing <= PingInterval /\ nextPing <= HeartbeatTicks
         /\ inbound \in Nat /\ inbound <= ClientTimeout + 1
         /\ idle \in Nat /\ idle <= ServerTimeout
         /\ pings \in Seq(0..MaxDelay) /\ pongs \in Seq(0..MaxDelay)
         /\ PingInterval \in Nat /\ 0 < PingInterval /\ PingInterval <= HeartbeatTicks
         /\ pings # << >> => Oldest(pings) \in Nat /\ Oldest(pings) <= MaxDelay
         /\ pongs # << >> => Oldest(pongs) \in Nat /\ Oldest(pongs) <= MaxDelay
<1>1. /\ timed \in BOOLEAN /\ clientUp \in BOOLEAN /\ serverUp \in BOOLEAN
      /\ dead \in BOOLEAN /\ expired \in BOOLEAN
      /\ nextPing \in 0..HeartbeatTicks /\ nextPing <= PingInterval
      /\ inbound \in 0..(ClientTimeout + 1) /\ idle \in 0..ServerTimeout
      /\ pings \in Seq(0..MaxDelay) /\ pongs \in Seq(0..MaxDelay)
  BY DEF BeatInv, BeatTypeOK
<1>2. PingInterval \in Nat /\ 0 < PingInterval /\ PingInterval <= HeartbeatTicks
  BY <1>1, IntervalIsShort
<1>3. /\ pings # << >> => Oldest(pings) \in 0..MaxDelay
      /\ pongs # << >> => Oldest(pongs) \in 0..MaxDelay
  BY <1>1, ConstantsAreNat, BoxChanges
<1>4. MaxDelay \in Nat BY ConstantsAreNat
<1> QED BY <1>1, <1>2, <1>3, <1>4, ConstantsAreNat

\* The counters are numbers, for the arithmetic of the steps.
LEMMA Numbers ==
  ASSUME BeatInv
  PROVE  /\ nextPing \in Nat /\ nextPing <= PingInterval /\ inbound \in Nat /\ idle \in Nat
         /\ PingInterval \in Nat /\ MaxDelay \in Nat
         /\ pings # << >> => Oldest(pings) \in Nat /\ Oldest(pings) <= MaxDelay
         /\ pongs # << >> => Oldest(pongs) \in Nat /\ Oldest(pongs) <= MaxDelay
  BY PlainFacts, ConstantsAreNat

\* Nobody waits as long as a timeout.
LEMMA NobodyGivesUp ==
  ASSUME BeatInv, ~dead
  PROVE  idle < ServerTimeout /\ inbound < ClientTimeout
<1>0. ServerHeard /\ ClientHeard BY DEF BeatInv, Alive
<1>1. idle <= PingInterval + 2 * MaxDelay
  <2>1. CASE pings = << >> BY <1>0, <2>1, Numbers DEF ServerHeard
  <2>2. CASE pings # << >> BY <1>0, <2>2, Numbers DEF ServerHeard
  <2> QED BY <2>1, <2>2
<1>2. inbound <= PingInterval + 2 * MaxDelay
  <2>1. CASE pongs # << >> BY <1>0, <2>1, Numbers DEF ClientHeard
  <2>2. CASE pongs = << >> /\ pings # << >>
    BY <1>0, <2>2, Numbers DEF ClientHeard
  <2>3. CASE pongs = << >> /\ pings = << >>
    BY <1>0, <2>3, Numbers DEF ClientHeard
  <2> QED BY <2>1, <2>2, <2>3
<1> QED BY <1>1, <1>2, PlainFacts, ConstantsAreNat

\* A ping goes out: the next one is due in an interval.
LEMMA SendPingIsHeard ==
  ASSUME BeatInv, SendPing
  PROVE  BeatInv'
<1>1. /\ timed' = timed /\ clientUp' = clientUp /\ serverUp' = serverUp /\ dead' = dead
      /\ expired' = expired /\ inbound' = inbound /\ idle' = idle /\ pongs' = pongs
      /\ nextPing = 0 /\ nextPing' = PingInterval /\ PingInterval' = PingInterval
      /\ pings' = IF dead THEN pings ELSE Append(pings, 0)
  BY DEF SendPing, PingInterval
<1>2. /\ pings' \in Seq(0..MaxDelay)
      /\ ~dead => pings' # << >> /\ Oldest(pings') = IF pings = << >> THEN 0 ELSE Oldest(pings)
  BY <1>1, PlainFacts, ConstantsAreNat, BoxChanges
<1>3. BeatTypeOK'
  <2>1. nextPing' \in 0..HeartbeatTicks BY <1>1, PlainFacts, ConstantsAreNat
  <2> QED BY <1>1, <1>2, <2>1 DEF BeatInv, BeatTypeOK
<1>4. ASSUME ~dead PROVE Alive'
  <2>1. ServerHeard /\ ClientHeard /\ clientUp /\ serverUp /\ ~expired BY <1>4 DEF BeatInv, Alive
  <2>2. ServerHeard'
    BY <1>1, <1>2, <1>4, <2>1, Numbers DEF ServerHeard
  <2>3. ClientHeard'
    BY <1>1, <1>2, <1>4, <2>1, Numbers DEF ClientHeard
  <2> QED BY <1>1, <2>1, <2>2, <2>3 DEF Alive
<1> QED BY <1>1, <1>3, <1>4, PlainFacts DEF BeatInv

\* A pong arrives: the client has heard the server in this tick.
LEMMA HandlePongIsHeard ==
  ASSUME BeatInv, HandlePong
  PROVE  BeatInv'
<1>1. /\ timed' = timed /\ clientUp' = clientUp /\ serverUp' = serverUp /\ dead' = dead
      /\ expired' = expired /\ inbound' = 0 /\ idle' = idle /\ pings' = pings
      /\ nextPing' = nextPing /\ PingInterval' = PingInterval
      /\ ~dead /\ pongs # << >> /\ pongs' = Tail(pongs)
  BY DEF HandlePong, PingInterval
<1>2. /\ pongs' \in Seq(0..MaxDelay)
      /\ pongs' # << >> => Oldest(pongs') \in 0..MaxDelay
  BY <1>1, PlainFacts, ConstantsAreNat, BoxChanges
<1>3. BeatTypeOK'
  <2>1. inbound' \in 0..(ClientTimeout + 1) BY <1>1, ConstantsAreNat
  <2> QED BY <1>1, <1>2, <2>1 DEF BeatInv, BeatTypeOK
<1>4. ServerHeard /\ clientUp /\ serverUp /\ ~expired BY <1>1 DEF BeatInv, Alive
<1>5. ServerHeard' BY <1>1, <1>4 DEF ServerHeard
<1>6. ClientHeard'
  <2>1. pongs' # << >> => Oldest(pongs') \in Nat BY <1>2, ConstantsAreNat
  <2> QED BY <1>1, <2>1, Numbers DEF ClientHeard
<1> QED BY <1>1, <1>3, <1>4, <1>5, <1>6, PlainFacts DEF BeatInv, Alive

\* A ping arrives: the server has heard the client, and answers.
LEMMA HandlePingIsHeard ==
  ASSUME BeatInv, HandlePing
  PROVE  BeatInv'
<1>1. /\ timed' = timed /\ clientUp' = clientUp /\ serverUp' = serverUp /\ dead' = dead
      /\ expired' = expired /\ inbound' = inbound /\ idle' = 0
      /\ nextPing' = nextPing /\ PingInterval' = PingInterval
      /\ ~dead /\ pings # << >> /\ pings' = Tail(pings) /\ pongs' = Append(pongs, 0)
  BY DEF HandlePing, PingInterval
<1>2. /\ pings' \in Seq(0..MaxDelay)
      /\ pings' # << >> => Oldest(pings') \in 0..MaxDelay
  BY <1>1, PlainFacts, ConstantsAreNat, BoxChanges
<1>3. /\ pongs' \in Seq(0..MaxDelay) /\ pongs' # << >>
      /\ Oldest(pongs') = IF pongs = << >> THEN 0 ELSE Oldest(pongs)
  BY <1>1, PlainFacts, ConstantsAreNat, BoxChanges
<1>4. BeatTypeOK'
  <2>1. idle' \in 0..ServerTimeout BY <1>1, ConstantsAreNat
  <2> QED BY <1>1, <1>2, <1>3, <2>1 DEF BeatInv, BeatTypeOK
<1>5. ClientHeard /\ clientUp /\ serverUp /\ ~expired BY <1>1 DEF BeatInv, Alive
<1>6. ServerHeard'
  <2>1. pings' # << >> => Oldest(pings') \in Nat BY <1>2, ConstantsAreNat
  <2> QED BY <1>1, <2>1, Numbers DEF ServerHeard
<1>7. ClientHeard'
  <2>1. CASE pongs = << >>
    BY <1>1, <1>3, <1>5, <2>1, Numbers DEF ClientHeard
  <2>2. CASE pongs # << >>
    BY <1>1, <1>3, <1>5, <2>2, Numbers DEF ClientHeard
  <2> QED BY <2>1, <2>2
<1> QED BY <1>1, <1>4, <1>5, <1>6, <1>7, PlainFacts DEF BeatInv, Alive

\* A tick makes everybody wait one longer, and what is under way one older.
LEMMA TickIsHeard ==
  ASSUME BeatInv, Tick
  PROVE  BeatInv'
<1>1. /\ timed' = timed /\ clientUp' = clientUp /\ serverUp' = serverUp /\ dead' = dead
      /\ expired' = expired /\ PingInterval' = PingInterval
      /\ pings' = Older(pings) /\ pongs' = Older(pongs)
      /\ \A i \in DOMAIN pings : pings[i] < MaxDelay
      /\ \A i \in DOMAIN pongs : pongs[i] < MaxDelay
      /\ clientUp => nextPing > 0
      /\ serverUp => idle < ServerTimeout
      /\ nextPing' = IF clientUp THEN nextPing - 1 ELSE nextPing
      /\ inbound' = IF clientUp /\ inbound <= ClientTimeout THEN inbound + 1 ELSE inbound
      /\ idle' = IF serverUp THEN idle + 1 ELSE idle
  BY DEF Tick, PingInterval, InTime
<1>2. /\ pings' \in Seq(0..MaxDelay) /\ (pings' = << >> <=> pings = << >>)
      /\ pings # << >> => Oldest(pings') = Oldest(pings) + 1
  BY <1>1, PlainFacts, ConstantsAreNat, BoxGrows
<1>3. /\ pongs' \in Seq(0..MaxDelay) /\ (pongs' = << >> <=> pongs = << >>)
      /\ pongs # << >> => Oldest(pongs') = Oldest(pongs) + 1
  BY <1>1, PlainFacts, ConstantsAreNat, BoxGrows
<1>4. BeatTypeOK'
  <2>0. /\ nextPing \in Nat /\ nextPing <= HeartbeatTicks /\ HeartbeatTicks \in Nat
        /\ inbound \in Nat /\ inbound <= ClientTimeout + 1 /\ ClientTimeout \in Nat
        /\ idle \in Nat /\ idle <= ServerTimeout /\ ServerTimeout \in Nat
    BY PlainFacts, ConstantsAreNat
  <2>1. nextPing' \in 0..HeartbeatTicks BY <1>1, <2>0
  <2>2. inbound' \in 0..(ClientTimeout + 1) BY <1>1, <2>0
  <2>3. idle' \in 0..ServerTimeout BY <1>1, <2>0
  <2> QED BY <1>1, <1>2, <1>3, <2>1, <2>2, <2>3 DEF BeatInv, BeatTypeOK
<1>5. nextPing' <= PingInterval' BY <1>1, PlainFacts
<1>6. ASSUME ~dead PROVE Alive'
  <2>1. ServerHeard /\ ClientHeard /\ clientUp /\ serverUp /\ ~expired BY <1>6 DEF BeatInv, Alive
  <2>2. /\ nextPing' = nextPing - 1 /\ idle' = idle + 1 /\ inbound' <= inbound + 1
        /\ inbound' \in Nat
    BY <1>1, <2>1, PlainFacts
  <2>3. ServerHeard'
    <3>1. CASE pings = << >>
      BY <1>1, <1>2, <2>1, <2>2, <3>1, Numbers DEF ServerHeard
    <3>2. CASE pings # << >>
      BY <1>1, <1>2, <2>1, <2>2, <3>2, Numbers DEF ServerHeard
    <3> QED BY <3>1, <3>2
  <2>4. ClientHeard'
    <3>1. CASE pongs # << >>
      BY <1>1, <1>3, <2>1, <2>2, <3>1, Numbers DEF ClientHeard
    <3>2. CASE pongs = << >> /\ pings # << >>
      <4>1. inbound <= PingInterval + Oldest(pings) BY <2>1, <3>2 DEF ClientHeard
      <4>2. Oldest(pings') = Oldest(pings) + 1 BY <1>2, <3>2
      <4>3. inbound' <= PingInterval' + Oldest(pings')
        BY <1>1, <2>2, <3>2, <4>1, <4>2, Numbers
      <4>4. pongs' = << >> /\ pings' # << >> BY <1>2, <1>3, <3>2
      <4> QED BY <4>3, <4>4 DEF ClientHeard
    <3>3. CASE pongs = << >> /\ pings = << >>
      BY <1>1, <1>2, <1>3, <2>1, <2>2, <3>3, Numbers DEF ClientHeard
    <3> QED BY <3>1, <3>2, <3>3
  <2> QED BY <1>1, <2>1, <2>3, <2>4 DEF Alive
<1> QED BY <1>1, <1>4, <1>5, <1>6 DEF BeatInv

\* While the network lives no timeout is reached, so that nothing closes.
LEMMA TimersWait ==
  ASSUME BeatInv, ClientWatchdog \/ IdleExpires \/ OnIdleTimeout
  PROVE  BeatInv'
<1>1. dead
  <2> SUFFICES ASSUME ~dead PROVE FALSE OBVIOUS
  <2>1. idle < ServerTimeout /\ inbound < ClientTimeout BY NobodyGivesUp
  <2>2. ~expired BY DEF BeatInv, Alive
  <2> QED BY <2>1, <2>2, PlainFacts, ConstantsAreNat DEF ClientWatchdog, IdleExpires, OnIdleTimeout
<1>2. dead' = dead /\ timed' = timed /\ nextPing' = nextPing
  BY DEF ClientWatchdog, IdleExpires, OnIdleTimeout
<1>3. BeatTypeOK'
  BY DEF BeatInv, BeatTypeOK, ClientWatchdog, IdleExpires, OnIdleTimeout
<1> QED BY <1>1, <1>2, <1>3 DEF BeatInv, PingInterval

\* Every step keeps the invariant.
LEMMA StepIsHeard ==
  ASSUME BeatInv, [BeatNext]_beatVars
  PROVE  BeatInv'
<1>1. CASE NetworkDies
  <2>1. << >> \in Seq(0..MaxDelay) OBVIOUS
  <2>2. BeatTypeOK' BY <1>1, <2>1 DEF NetworkDies, BeatInv, BeatTypeOK
  <2> QED BY <1>1, <2>2 DEF NetworkDies, BeatInv, PingInterval
<1>2. CASE UNCHANGED beatVars
  BY <1>2 DEF beatVars, BeatInv, BeatTypeOK, PingInterval, Alive, ServerHeard, ClientHeard
<1> QED BY <1>1, <1>2, SendPingIsHeard, HandlePongIsHeard, HandlePingIsHeard, TickIsHeard,
           TimersWait DEF BeatNext

\* For every interval, timeout and delay that leave room for a ping and its pong: as long
\* as the network delivers, neither the client's watchdog nor the server's idle timer
\* closes the connection (startHeartbeat, armIdleTimer).
THEOREM PingsAreEnough == BeatSpec => []PingsKeepItUp
<1>1. BeatInit => BeatInv BY InitIsAlive
<1>2. BeatInv /\ [BeatNext]_beatVars => BeatInv' BY StepIsHeard
<1>3. BeatInv => PingsKeepItUp BY DEF BeatInv, Alive, BothStayUp, PingsKeepItUp
<1> QED BY <1>1, <1>2, <1>3, PTL DEF BeatSpec

-----------------------------------------------------------------------------
(* What both ends understand                                                *)

\* What a message on the wire needs for the other end to take it, whatever its payload.
Framed(m) == m.json /\ m.seq \in {"none", "number"}
\* The server takes it if it is of its version and no chat.
Understood(m) == OwnVersion(m) /\ m.type # "chat" => Framed(m) /\ ParsePayload(m)
\* A chat lacks nothing but that its text may be too long or cut in a pair.
Chatting(m) == m.type = "chat" => OwnVersion(m) /\ m.seq = "none"
\* The client takes it.
Answered(m) == m.json /\ m.v = ProtocolVersion /\ m.type # "" /\ m.seq \in {"none", "number"}

\* An open connection has not used up its errors; a message is under way on an open one.
CodecInv ==
  /\ CodecTypeOK /\ (open => errors < MaxErrors) /\ (message # Nothing => open)
  /\ message # Nothing => Understood(message) /\ Chatting(message)
  /\ answer # Nothing => Answered(answer)

\* What the client sends goes on the wire as it was built.
LEMMA PutKeeps ==
  ASSUME CodecInv, NEW m, Put(m), Understood(m), Chatting(m)
  PROVE  CodecInv'
BY DEF CodecInv, Put, CodecTypeOK, Understood, Chatting, OwnVersion, Framed, ParsePayload, Answered, Bytes

\* A hello that goes out has a name and a room.
LEMMA HelloKeeps == ASSUME CodecInv, SendHello PROVE CodecInv'
<1>1. PICK name \in Named, room \in Named, project \in {"none", "", "x"} :
        /\ name # "" /\ room # ""
        /\ Put(Numbered(Envelope("hello", [playerName |-> name, roomId |-> room,
                                           projectId |-> project])))
  BY DEF SendHello
<1> DEFINE p == [playerName |-> name, roomId |-> room, projectId |-> project]
           m == Numbered(Envelope("hello", p))
<1>2. p.playerName # "" /\ p.roomId # "" BY <1>1
<1>3. m.type = "hello" /\ m.seq = "number" /\ m.json = TRUE /\ m.payload = p BY DEF Envelope, Numbered
<1>4. Put(m) BY <1>1
<1> HIDE DEF m, p
<1>5. Understood(m) /\ Chatting(m)
  BY <1>2, <1>3 DEF Understood, Chatting, Framed, ParsePayload
<1> QED BY <1>4, <1>5, PutKeeps

\* States, leaves and pings, numbered or not.
LEMMA PlainKeeps ==
  ASSUME CodecInv, NEW m, Put(m), m.type \in {"player_state", "leave", "ping"},
         m.seq \in {"none", "number"}, m.json = TRUE,
         m.type = "player_state" => m.payload.state = "object"
  PROVE  CodecInv'
<1>1. Understood(m) /\ Chatting(m) BY DEF Understood, Chatting, Framed, ParsePayload
<1> QED BY <1>1, PutKeeps

\* A state goes out without a number.
LEMMA StateKeeps == ASSUME CodecInv, SendPlayerState PROVE CodecInv'
<1> DEFINE p == [state |-> "object", clientTimeMs |-> "number"]
           m == Envelope("player_state", p)
<1>1. m.type = "player_state" /\ m.seq = "none" /\ m.json = TRUE /\ m.payload = p /\ p.state = "object"
  BY DEF Envelope, Numbered
<1>2. Put(m) BY DEF SendPlayerState
<1> HIDE DEF m, p
<1> QED BY <1>1, <1>2, PlainKeeps

\* A leave goes out with a number or without.
LEMMA LeaveKeeps == ASSUME CodecInv, SendLeave PROVE CodecInv'
<1> DEFINE p == [reason |-> "string"]
           m == Envelope("leave", p)
           n == Numbered(Envelope("leave", p))
<1>1. /\ m.type = "leave" /\ m.seq = "none" /\ m.json = TRUE
      /\ n.type = "leave" /\ n.seq = "number" /\ n.json = TRUE
  BY DEF Envelope, Numbered
<1>2. Put(m) \/ Put(n) BY DEF SendLeave
<1> HIDE DEF m, n, p
<1> QED BY <1>1, <1>2, PlainKeeps

\* A ping goes out with a number.
LEMMA PingKeeps == ASSUME CodecInv, PutPing PROVE CodecInv'
<1> DEFINE m == Numbered(Envelope("ping", [clientTimeMs |-> "number"]))
<1>1. m.type = "ping" /\ m.seq = "number" /\ m.json = TRUE BY DEF Envelope, Numbered
<1>2. Put(m) BY DEF PutPing
<1> HIDE DEF m
<1> QED BY <1>1, <1>2, PlainKeeps

\* A chat goes out cut to size.
LEMMA ChatKeeps == ASSUME CodecInv, SendChat PROVE CodecInv'
<1>1. PICK t \in Text :
        Put([Envelope("chat", [text |-> Slice(t)]) EXCEPT !.json = ~Slice(t).half])
  BY DEF SendChat
<1> DEFINE m == [Envelope("chat", [text |-> Slice(t)]) EXCEPT !.json = ~Slice(t).half]
<1>2. m.type = "chat" /\ m.v = ProtocolVersion /\ m.seq = "none" BY DEF Envelope
<1>3. Put(m) BY <1>1
<1> HIDE DEF m
<1>4. Understood(m) /\ Chatting(m) BY <1>2 DEF Understood, Chatting, OwnVersion, Catalog
<1> QED BY <1>3, <1>4, PutKeeps

\* What a foreign client sends is none of ours.
LEMMA ForeignKeeps == ASSUME CodecInv, SendForeign PROVE CodecInv'
<1>1. PICK v \in {1, 2}, type \in {"ping", "emote"} :
        /\ v # 1 \/ type = "emote"
        /\ Put([Envelope(type, [clientTimeMs |-> "number"]) EXCEPT !.v = v])
  BY DEF SendForeign
<1> DEFINE m == [Envelope(type, [clientTimeMs |-> "number"]) EXCEPT !.v = v]
<1>2. m.type = type /\ m.v = v BY DEF Envelope
<1>3. Put(m) BY <1>1
<1> HIDE DEF m
<1>4. ~OwnVersion(m) /\ m.type # "chat" BY <1>1, <1>2 DEF OwnVersion, Catalog, ProtocolVersion
<1>5. Understood(m) /\ Chatting(m) BY <1>4 DEF Understood, Chatting
<1> QED BY <1>3, <1>5, PutKeeps

\* The server has read, and answered or not.
LEMMA ReadKeeps ==
  ASSUME CodecInv, message' = Nothing, outcome' \in [by : {"server"}, as : {"taken", "malformed",
           "mismatch", "unknown", "invalid"}],
         open' \in BOOLEAN, joined' \in BOOLEAN, reported' \in BOOLEAN,
         errors' \in 0..MaxErrors, open' => errors' < MaxErrors,
         answer' = answer \/ Answered(answer')
  PROVE  CodecInv'
BY DEF CodecInv, CodecTypeOK, Answered

\* The client takes an error.
LEMMA ErrorIsAnswered == ASSUME NEW code, Error(code) PROVE Answered(answer')
BY DEF Envelope, Error, Answered

\* Whatever the server makes of a message, it answers with what the client takes, and an
\* error too many closes the connection.
LEMMA ServerKeeps ==
  ASSUME CodecInv, \/ ReadMalformed \/ ReadMismatch \/ ReadUnknown \/ ReadInvalid \/ ReadGood
  PROVE  CodecInv'
<1>1. MaxErrors \in Nat \ {0} /\ errors \in 0..MaxErrors BY CodecAssumption DEF CodecInv, CodecTypeOK
<1>2. message # Nothing => open /\ errors < MaxErrors BY DEF CodecInv
<1>3. {open, joined, reported} \subseteq BOOLEAN BY DEF CodecInv, CodecTypeOK
<1>4. CASE ReadMalformed
  <2>1. errors' = errors + 1 /\ (open' <=> errors + 1 < MaxErrors) /\ open' \in BOOLEAN /\ message # Nothing
    <3>1. errors' = errors + 1 /\ open' = (errors + 1 < MaxErrors) /\ message # Nothing
      BY <1>4 DEF ReadMalformed
    <3>2. (errors + 1 < MaxErrors) \in BOOLEAN OBVIOUS
    <3> DEFINE few == errors + 1 < MaxErrors
    <3>3. open' = few /\ few \in BOOLEAN BY <3>1, <3>2
    <3> HIDE DEF few
    <3>4. open' \in BOOLEAN /\ (open' <=> few) BY <3>3
    <3> QED BY <3>1, <3>4 DEF few
  <2>2. Answered(answer') BY <1>4, ErrorIsAnswered DEF ReadMalformed
  <2>3. message' = Nothing /\ outcome' = [by |-> "server", as |-> "malformed"]
        /\ joined' = joined /\ reported' = reported
    BY <1>4 DEF ReadMalformed, ReadAs
  <2> QED BY <1>1, <1>2, <1>3, <2>1, <2>2, <2>3, ReadKeeps
<1>5. CASE ReadMismatch
  <2>1. Answered(answer') BY <1>5, ErrorIsAnswered DEF ReadMismatch
  <2>2. message' = Nothing /\ outcome' = [by |-> "server", as |-> "mismatch"]
        /\ joined' = joined /\ reported' = reported /\ errors' = errors /\ open' = FALSE
    BY <1>5 DEF ReadMismatch, ReadAs
  <2> QED BY <1>1, <1>3, <2>1, <2>2, ReadKeeps
<1>6. CASE ReadUnknown
  <2>1. answer' = answer \/ Answered(answer') BY <1>6, ErrorIsAnswered DEF ReadUnknown
  <2>2. message' = Nothing /\ outcome' = [by |-> "server", as |-> "unknown"]
        /\ joined' = joined /\ reported' = TRUE /\ errors' = errors /\ open' = open /\ message # Nothing
    BY <1>6 DEF ReadUnknown, ReadAs
  <2> QED BY <1>1, <1>2, <1>3, <2>1, <2>2, ReadKeeps
<1>7. CASE ReadInvalid
  <2>1. Answered(answer') BY <1>7, ErrorIsAnswered DEF ReadInvalid
  <2>2. message' = Nothing /\ outcome' = [by |-> "server", as |-> "invalid"]
        /\ joined' = joined /\ reported' = reported /\ errors' = errors /\ message # Nothing
    BY <1>7 DEF ReadInvalid, ReadAs
  <2>3. open' \in BOOLEAN BY <1>7 DEF ReadInvalid
  <2> QED BY <1>1, <1>2, <1>3, <2>1, <2>2, <2>3, ReadKeeps
<1>8. CASE ReadGood
  <2>1. message.type \in Catalog BY <1>8 DEF ReadGood, ParseEnvelope
  <2>2. Reply(message.type) # "" BY <2>1 DEF Reply, Catalog
  <2>3. Answered(answer') BY <1>8, <2>2 DEF Envelope, ReadGood, Answered
  <2>4. message' = Nothing /\ outcome' = [by |-> "server", as |-> "taken"]
        /\ joined' = TRUE /\ reported' = reported /\ errors' = errors /\ message # Nothing
    BY <1>8 DEF ReadGood, ReadAs
  <2>5. open' \in BOOLEAN BY <1>8 DEF ReadGood
  <2> QED BY <1>1, <1>2, <1>3, <2>3, <2>4, <2>5, ReadKeeps
<1> QED BY <1>4, <1>5, <1>6, <1>7, <1>8

\* The client reads the answer.
LEMMA ClientReadsKeeps == ASSUME CodecInv, ClientReads PROVE CodecInv'
<1>1. Decode(answer) \in {"malformed", "mismatch", "taken"} BY DEF Decode
<1>2. /\ answer' = Nothing /\ outcome' = [by |-> "client", as |-> Decode(answer)]
      /\ UNCHANGED <<open, joined, errors, reported, message>>
  BY DEF ClientReads
<1>3. CodecTypeOK' BY <1>1, <1>2 DEF CodecInv, CodecTypeOK
<1> QED BY <1>2, <1>3 DEF CodecInv, Understood, Chatting, OwnVersion, Framed, ParsePayload, Bytes

\* The invariant holds at first.
LEMMA CodecInvInit == CodecInit => CodecInv
<1> SUFFICES ASSUME CodecInit PROVE CodecInv OBVIOUS
<1>1. MaxErrors \in Nat /\ 0 < MaxErrors BY CodecAssumption
<1>2. CodecTypeOK
  <2>1. open \in BOOLEAN /\ joined \in BOOLEAN /\ reported \in BOOLEAN BY DEF CodecInit
  <2>2. errors \in 0..MaxErrors BY <1>1 DEF CodecInit
  <2>3. outcome.by = "nobody" /\ outcome = [by |-> "nobody", as |-> "none"] BY DEF CodecInit
  <2> QED BY <2>1, <2>2, <2>3 DEF CodecTypeOK
<1> QED BY <1>1, <1>2 DEF CodecInit, CodecInv

\* Every message and every reading preserves it.
LEMMA CodecInvNext == CodecInv /\ [CodecNext]_codecVars => CodecInv'
<1> SUFFICES ASSUME CodecInv, [CodecNext]_codecVars PROVE CodecInv' OBVIOUS
<1>1. CASE UNCHANGED codecVars
  BY <1>1 DEF codecVars, CodecInv, CodecTypeOK, Understood, Chatting, OwnVersion, Framed, ParsePayload,
              Answered, Bytes
<1> QED BY <1>1, HelloKeeps, StateKeeps, LeaveKeeps, PingKeeps, ChatKeeps, ForeignKeeps, ServerKeeps,
           ClientReadsKeeps DEF CodecNext

\* For every limit on chats and errors: the server's parsers take whatever the client's
\* functions build, but for a chat of more bytes than characters are allowed or one cut in
\* the middle of a pair, and the client takes every answer (makeEnvelope, parseEnvelope,
\* parseHello and the like, decodeMessage).
THEOREM EachUnderstandsTheOther == CodecSpec => []UnderstoodByBoth
<1>1. CodecInv => UnderstoodByBoth
  <2> SUFFICES ASSUME CodecInv PROVE UnderstoodByBoth OBVIOUS
  <2>1. ASSUME message # Nothing, OwnVersion(message), message.type # "chat"
        PROVE  ParseEnvelope(message) = "ok" /\ ParsePayload(message)
    BY <2>1 DEF CodecInv, Understood, Framed, ParseEnvelope, OwnVersion
  <2>2. ASSUME message # Nothing, message.type = "chat", Bytes(message.payload.text) <= MaxChat, message.json
        PROVE  ParseEnvelope(message) = "ok" /\ ParsePayload(message)
    BY <2>2 DEF CodecInv, Chatting, ParseEnvelope, ParsePayload, OwnVersion
  <2>3. answer # Nothing => Decode(answer) = "taken"
    BY DEF CodecInv, Answered, Decode
  <2> QED BY <2>1, <2>2, <2>3 DEF UnderstoodByBoth, ParsersAgree, CodecInv
<1> QED BY <1>1, CodecInvInit, CodecInvNext, PTL DEF CodecSpec

-----------------------------------------------------------------------------
(* Other players                                                            *)

\* The constants.
LEMMA RemoteNumbers ==
  /\ Window \in Nat /\ Window > 0 /\ Dt \in Nat /\ Dt > 0 /\ Gap \in Nat /\ Gap > 0
  /\ MaxPackets \in Nat /\ MaxPackets > 0 /\ Gap * Dt <= Window /\ Gap * Dt \in Nat /\ Gap * Dt > 0
<1>1. Window \in Nat /\ Window > 0 /\ Dt \in Nat /\ Dt > 0 /\ Gap \in Nat /\ Gap > 0
      /\ MaxPackets \in Nat /\ MaxPackets > 0 /\ Gap * Dt <= Window
  BY RemoteAssumption
<1> QED BY <1>1

\* f gives the powers of the window up to the n-th.
Powers(f, n) == f = [k \in 0..n |-> IF k = 0 THEN 1 ELSE Window * f[k - 1]]

\* There are as many as there may be packets.
LEMMA PowersExist == ASSUME NEW n \in Nat PROVE \E f : Powers(f, n)
<1> DEFINE S == {k \in 0..n : \E f : Powers(f, k)}
<1>1. 0 \in S
  <2>1. Powers([k \in 0..0 |-> 1], 0) BY DEF Powers
  <2> QED BY <2>1
<1>2. ASSUME NEW k \in 0..(n - 1), k \in S PROVE k + 1 \in S
  <2>1. PICK f : Powers(f, k) BY <1>2
  <2> DEFINE g == [j \in 0..(k + 1) |-> IF j <= k THEN f[j] ELSE Window * f[k]]
  <2>2. \A j \in 0..k : f[j] = IF j = 0 THEN 1 ELSE Window * f[j - 1] BY <2>1 DEF Powers
  <2>3. \A j \in 0..(k + 1) : g[j] = IF j = 0 THEN 1 ELSE Window * g[j - 1]
    <3> TAKE j \in 0..(k + 1)
    <3>1. CASE j = 0 BY <3>1, <2>2
    <3>2. CASE j \in 1..k
      <4>1. g[j] = f[j] /\ g[j - 1] = f[j - 1] BY <3>2
      <4> QED BY <4>1, <3>2, <2>2
    <3>3. CASE j = k + 1
      <4>1. g[j] = Window * f[k] /\ g[j - 1] = f[k] /\ j # 0 BY <3>3
      <4> QED BY <4>1
    <3> QED BY <3>1, <3>2, <3>3
  <2>4. g = [j \in 0..(k + 1) |-> IF j = 0 THEN 1 ELSE Window * g[j - 1]]
    <3>1. g = [j \in 0..(k + 1) |-> g[j]] OBVIOUS
    <3> HIDE DEF g
    <3> QED BY <3>1, <2>3
  <2>5. Powers(g, k + 1)
    <3> HIDE DEF g
    <3> QED BY <2>4 DEF Powers
  <2> QED BY <2>5
<1>3. \A k \in 0..n : k \in S
  <2> HIDE DEF S
  <2> QED BY <1>1, <1>2, CountUp
<1> QED BY <1>3

\* Each is the window times the one before, and positive.
LEMMA PowerGrows ==
  /\ Power[0] = 1
  /\ \A k \in 0..(MaxPackets - 1) : Power[k + 1] = Window * Power[k]
  /\ \A k \in 0..MaxPackets : Power[k] \in Nat /\ Power[k] > 0
<1>1. Powers(Power, MaxPackets)
  <2>1. \E f : Powers(f, MaxPackets) BY PowersExist, RemoteNumbers
  <2>2. Power = CHOOSE f : Powers(f, MaxPackets) BY DEF Power, Powers
  <2> QED BY <2>1, <2>2
<1>2. \A k \in 0..MaxPackets : Power[k] = IF k = 0 THEN 1 ELSE Window * Power[k - 1]
  BY <1>1 DEF Powers
<1>3. Power[0] = 1 BY <1>2, RemoteNumbers
<1>4. ASSUME NEW k \in 0..(MaxPackets - 1) PROVE Power[k + 1] = Window * Power[k]
  <2>1. k + 1 \in 0..MaxPackets /\ k + 1 # 0 /\ (k + 1) - 1 = k BY RemoteNumbers
  <2> QED BY <2>1, <1>2
<1> DEFINE S == {k \in 0..MaxPackets : Power[k] \in Nat /\ Power[k] > 0}
<1>5. 0 \in S BY <1>3, RemoteNumbers
<1>6. ASSUME NEW k \in 0..(MaxPackets - 1), k \in S PROVE k + 1 \in S
  <2>1. Power[k] \in Nat /\ Power[k] > 0 /\ Power[k + 1] = Window * Power[k] BY <1>4, <1>6
  <2>2. k + 1 \in 0..MaxPackets BY RemoteNumbers
  <2> DEFINE p == Power[k]
  <2>3. Window * p \in Nat /\ Window * p > 0
    <3>1. p \in Nat /\ p > 0 BY <2>1
    <3> HIDE DEF p
    <3> QED BY <3>1, RemoteNumbers
  <2> QED BY <2>1, <2>2, <2>3
<1>7. \A k \in 0..MaxPackets : k \in S
  <2> HIDE DEF S
  <2> QED BY <1>5, <1>6, CountUp, RemoteNumbers
<1> QED BY <1>3, <1>4, <1>7

\* Of a way of q window parts the first t are done.
LEMMA PartsOfTheWay ==
  ASSUME NEW w \in Nat, NEW t \in 0..w, NEW q \in Int, NEW p \in Int
  PROVE  /\ q * t \in Int /\ q * (w - t) \in Int /\ w * q \in Int /\ q * t + q * (w - t) = w * q
         /\ Distance(p, p + q * t) + Distance(p + q * t, p + w * q) = Distance(p, p + w * q)
         /\ Distance(p + q * t, p + w * q) = IF q >= 0 THEN q * (w - t) ELSE -(q * (w - t))
<1>1. q * t \in Int /\ q * (w - t) \in Int /\ w * q \in Int /\ q * t + q * (w - t) = w * q OBVIOUS
<1>2. CASE q >= 0
  <2>1. q * t >= 0 /\ q * (w - t) >= 0 BY <1>2
  <2> DEFINE a == q * t
             b == q * (w - t)
             c == w * q
  <2>2. a \in Int /\ b \in Int /\ c \in Int /\ a + b = c /\ a >= 0 /\ b >= 0 BY <1>1, <2>1
  <2> HIDE DEF a, b, c
  <2>3. /\ Distance(p, p + a) + Distance(p + a, p + c) = Distance(p, p + c)
        /\ Distance(p + a, p + c) = b
    BY <2>2 DEF Distance
  <2> QED BY <1>1, <1>2, <2>3 DEF a, b, c
<1>3. CASE q < 0
  <2>1. q * t <= 0 /\ q * (w - t) <= 0 BY <1>3
  <2> DEFINE a == q * t
             b == q * (w - t)
             c == w * q
  <2>2. a \in Int /\ b \in Int /\ c \in Int /\ a + b = c /\ a <= 0 /\ b <= 0 BY <1>1, <2>1
  <2> HIDE DEF a, b, c
  <2>3. /\ Distance(p, p + a) + Distance(p + a, p + c) = Distance(p, p + c)
        /\ Distance(p + a, p + c) = -b
    BY <2>2 DEF Distance
  <2> QED BY <1>1, <1>3, <2>3 DEF a, b, c
<1> QED BY <1>2, <1>3

\* What is left of a way whose pace is bounded.
LEMMA LeftOfTheWay ==
  ASSUME NEW w \in Nat, NEW t \in 0..w, NEW q \in Int, NEW g \in Nat, NEW T \in Nat,
         q * g <= T, -T <= q * g
  PROVE  LET d == IF q >= 0 THEN q * (w - t) ELSE -(q * (w - t)) IN d * g <= T * w
<1> DEFINE r == w - t
           a == q * g
<1>1. r \in 0..w /\ a \in Int /\ a <= T /\ -T <= a OBVIOUS
<1>2. (q * r) * g = a * r OBVIOUS
<1>3. (-(q * r)) * g = (-a) * r OBVIOUS
<1> HIDE DEF r, a
<1>4. T * r <= T * w BY <1>1
<1>5. a * r <= T * r /\ (-a) * r <= T * r
  <2>1. ASSUME NEW b \in Int, b <= T PROVE b * r <= T * r
    <3>1. (T - b) * r >= 0 BY <1>1, <2>1
    <3>2. (T - b) * r = T * r - b * r BY <1>1
    <3>3. T * r \in Int /\ b * r \in Int BY <1>1
    <3> QED BY <3>1, <3>2, <3>3
  <2> QED BY <1>1, <2>1
<1>6. (q * r) * g <= T * w /\ (-(q * r)) * g <= T * w
  <2>1. a * r \in Int /\ (-a) * r \in Int /\ T * r \in Int /\ T * w \in Int BY <1>1
  <2> QED BY <1>2, <1>3, <1>4, <1>5, <2>1
<1> QED BY <1>6 DEF r

\* A new way of at most a tile more than what is left of the last, begun when g units of
\* it were done, is no faster.
LEMMA PaceHolds ==
  ASSUME NEW w \in Nat, w > 0, NEW t \in 0..w, NEW g \in Nat, g <= t, NEW T \in Nat,
         NEW q \in Int, NEW n \in Int, NEW m \in {-1, 0, 1},
         q * g <= T, -T <= q * g, w * n = q * (w - t) + m * T
  PROVE  n * g <= T /\ -T <= n * g
<1> DEFINE r == w - t
           a == q * g
           b == n * g
<1>1. r \in 0..w /\ a \in Int /\ a <= T /\ -T <= a /\ b \in Int /\ g <= w - r OBVIOUS
<1>2. w * b = a * r + m * (T * g)
  <2>1. w * b = (w * n) * g OBVIOUS
  <2>2. (q * r + m * T) * g = a * r + m * (T * g) OBVIOUS
  <2> QED BY <2>1, <2>2
<1>3. T * r + T * (w - r) = T * w BY <1>1
<1>4. T * g <= T * (w - r)
  <2>1. T * ((w - r) - g) >= 0 BY <1>1
  <2>2. T * ((w - r) - g) = T * (w - r) - T * g BY <1>1
  <2>3. T * (w - r) \in Int /\ T * g \in Int BY <1>1
  <2> QED BY <2>1, <2>2, <2>3
<1> HIDE DEF r, a, b
<1>5. a * r <= T * r /\ -(T * r) <= a * r
  <2>1. (T - a) * r >= 0 /\ (T + a) * r >= 0 BY <1>1
  <2>2. (T - a) * r = T * r - a * r /\ (T + a) * r = T * r + a * r BY <1>1
  <2>3. T * r \in Int /\ a * r \in Int BY <1>1
  <2> QED BY <2>1, <2>2, <2>3
<1>6. m * (T * g) <= T * g /\ -(T * g) <= m * (T * g)
  <2>1. T * g \in Nat OBVIOUS
  <2> QED BY <2>1
<1>7. w * b <= T * w /\ -(T * w) <= w * b
  <2>1. a * r \in Int /\ T * r \in Int /\ T * g \in Int /\ m * (T * g) \in Int /\ T * (w - r) \in Int
        /\ T * w \in Int /\ w * b \in Int
    BY <1>1
  <2> QED BY <1>2, <1>3, <1>4, <1>5, <1>6, <2>1
<1>8. ASSUME b > T PROVE FALSE
  <2>1. w * (b - T) > 0 BY <1>1, <1>8
  <2>2. w * (b - T) = w * b - T * w BY <1>1
  <2>3. w * b \in Int /\ T * w \in Int BY <1>1
  <2> QED BY <1>7, <2>1, <2>2, <2>3
<1>9. ASSUME -T > b PROVE FALSE
  <2>1. w * (-T - b) > 0 BY <1>1, <1>9
  <2>2. w * (-T - b) = -(T * w) - w * b BY <1>1
  <2>3. w * b \in Int /\ T * w \in Int BY <1>1
  <2> QED BY <1>7, <2>1, <2>2, <2>3
<1>10. b <= T /\ -T <= b BY <1>1, <1>8, <1>9
<1> QED BY <1>10 DEF b

\* The smallest part of a tile that positions are made of after the packets so far.
Unit == Power[MaxPackets - packets]

\* The shown player is on its way, q units of way for one of time, and q divides as often
\* as packets may still come.
Pace(p, v, q) ==
  /\ p.targetX - p.prevX = Window * q /\ p.x = p.prevX + q * p.interpT
  /\ \E r \in Int : q = v * r
KeepsUp(q) == q * (Gap * Dt) <= Tile /\ -Tile <= q * (Gap * Dt)

\* Positions are whole units, the way is as old as the last packet, and a steady player is
\* no faster than the window makes up for.
RemoteInv ==
  /\ RemoteTypeOK
  /\ player.interpT = Window \/ player.interpT >= age * Dt
  /\ \E s \in Int : Tile = Unit * s
  /\ \E q \in Int : Pace(player, Unit, q) /\ (steady => KeepsUp(q))

\* The unit of now, and of one packet later.
LEMMA Units ==
  ASSUME packets \in 0..MaxPackets
  PROVE  /\ Unit \in Nat /\ Unit > 0 /\ Tile \in Nat /\ Tile > 0
         /\ packets < MaxPackets => /\ Power[MaxPackets - (packets + 1)] \in Nat
                                    /\ Unit = Window * Power[MaxPackets - (packets + 1)]
<1>1. MaxPackets - packets \in 0..MaxPackets /\ MaxPackets \in 0..MaxPackets BY RemoteNumbers
<1>2. Unit \in Nat /\ Unit > 0 /\ Tile \in Nat /\ Tile > 0 BY <1>1, PowerGrows DEF Unit, Tile
<1>3. ASSUME packets < MaxPackets
      PROVE  /\ Power[MaxPackets - (packets + 1)] \in Nat
             /\ Unit = Window * Power[MaxPackets - (packets + 1)]
  <2> DEFINE k == MaxPackets - (packets + 1)
  <2>1. k \in 0..(MaxPackets - 1) /\ k \in 0..MaxPackets /\ k + 1 = MaxPackets - packets
    BY <1>3, RemoteNumbers
  <2> HIDE DEF k
  <2>2. Power[k + 1] = Window * Power[k] /\ Power[k] \in Nat BY <2>1, PowerGrows
  <2>3. Unit = Power[k + 1] BY <2>1 DEF Unit
  <2> QED BY <2>2, <2>3 DEF k
<1> QED BY <1>2, <1>3

\* A player that stands where it is going is in time.
LEMMA Standing ==
  ASSUME packets \in 0..MaxPackets, NEW p, p.x \in Int, p.prevX = p.x, p.targetX = p.x,
         p.interpT \in Int, NEW v \in Int
  PROVE  \E q \in Int : Pace(p, v, q) /\ (steady => KeepsUp(q))
<1>1. Pace(p, v, 0)
  <2>1. p.targetX - p.prevX = Window * 0 /\ p.x = p.prevX + 0 * p.interpT BY RemoteNumbers
  <2>2. 0 = v * 0 /\ 0 \in Int OBVIOUS
  <2> QED BY <2>1, <2>2 DEF Pace
<1>2. KeepsUp(0) BY Units, RemoteNumbers DEF KeepsUp
<1> QED BY <1>1, <1>2

\* The invariant holds at first.
LEMMA RemoteInvInit == RemoteInit => RemoteInv
<1> SUFFICES ASSUME RemoteInit PROVE RemoteInv OBVIOUS
<1>1. /\ player = [x |-> 0, prevX |-> 0, targetX |-> 0, interpT |-> Window]
      /\ packets = 0 /\ age = 0 /\ steady \in BOOLEAN
  BY DEF RemoteInit, NewRemote
<1>2. RemoteTypeOK BY <1>1, RemoteNumbers DEF RemoteTypeOK
<1>3. packets \in 0..MaxPackets BY <1>2 DEF RemoteTypeOK
<1>4. Tile = Unit * 1
  <2>1. MaxPackets - packets = MaxPackets BY <1>1, RemoteNumbers
  <2>2. Unit = Tile BY <2>1 DEF Unit, Tile
  <2> QED BY <2>2, <1>3, Units
<1>5. \E q \in Int : Pace(player, Unit, q) /\ (steady => KeepsUp(q))
  BY <1>1, <1>3, Units, Standing, RemoteNumbers
<1> QED BY <1>1, <1>2, <1>4, <1>5 DEF RemoteInv

\* A packet ends the last way: the unit is divided once more.
LEMMA ReceivedKeeps ==
  ASSUME RemoteInv, NEW x \in Places, Received(x)
  PROVE  /\ packets' \in 0..MaxPackets /\ age' = 0 /\ steady' = steady
         /\ Unit' \in Nat /\ Unit = Window * Unit'
         /\ \E s \in Int : Tile' = Unit' * s
<1>1. packets \in 0..MaxPackets /\ packets < MaxPackets /\ packets' = packets + 1 /\ age' = 0
      /\ steady' = steady
  BY DEF RemoteInv, RemoteTypeOK, Received
<1>2. Unit' = Power[MaxPackets - (packets + 1)] /\ Tile' = Tile BY <1>1 DEF Unit, Tile
<1>3. Unit' \in Nat /\ Unit = Window * Unit' BY <1>1, <1>2, Units
<1>4. PICK s \in Int : Tile = Unit * s BY DEF RemoteInv
<1>5. Tile = Unit' * (Window * s) /\ Window * s \in Int BY <1>3, <1>4, RemoteNumbers
<1> QED BY <1>1, <1>2, <1>3, <1>5, RemoteNumbers

\* The places of packets are numbers.
LEMMA PlacesAre == Places \subseteq Int
<1>1. Tile \in Int
  <2>1. MaxPackets \in 0..MaxPackets BY RemoteNumbers
  <2> QED BY <2>1, PowerGrows DEF Tile
<1> QED BY <1>1, RemoteNumbers DEF Places

\* A state begins a new way, from where the player is shown.
LEMMA StateKeepsPace == ASSUME RemoteInv, HandleRemoteState PROVE RemoteInv'
<1>1. PICK x \in Places : Received(x) /\ player' = [player EXCEPT !.prevX = player.x, !.targetX = x,
                                                                  !.interpT = 0]
  BY DEF HandleRemoteState
<1>2. x \in Int BY PlacesAre
<1>3. /\ packets' \in 0..MaxPackets /\ age' = 0 /\ steady' = steady /\ Unit' \in Nat
      /\ Unit = Window * Unit' /\ \E s \in Int : Tile' = Unit' * s
  BY <1>1, ReceivedKeeps
<1>4. /\ player' = [x |-> player.x, prevX |-> player.x, targetX |-> x, interpT |-> 0]
      /\ player.x \in Int /\ player.targetX \in Int /\ player.prevX \in Int
      /\ player.interpT \in 0..Window
  BY <1>1 DEF RemoteInv, RemoteTypeOK
<1>5. RemoteTypeOK' BY <1>2, <1>3, <1>4, RemoteNumbers DEF RemoteInv, RemoteTypeOK
<1>6. player'.interpT >= age' * Dt' BY <1>3, <1>4, RemoteNumbers
<1>7. PICK q \in Int : Pace(player, Unit, q) /\ (steady => KeepsUp(q)) BY DEF RemoteInv
<1>8. PICK m \in Moves : x = player.targetX + m * Tile BY <1>1 DEF Received
<1>9. PICK r \in Int : q = Unit * r BY <1>7 DEF Pace
<1>10. PICK s \in Int : Tile = Unit * s BY DEF RemoteInv
<1>11. packets \in 0..MaxPackets BY DEF RemoteInv, RemoteTypeOK
<1>12. Tile \in Nat /\ m \in Int BY <1>11, Units DEF Moves
<1> DEFINE w == Window
           t == player.interpT
           v == Unit'
           c == r * (w - t) + m * s
           n == v * c
<1>13. w \in Nat /\ w > 0 /\ t \in 0..w /\ v \in Nat BY <1>3, <1>4, RemoteNumbers
<1>14. c \in Int /\ n \in Int BY <1>12, <1>13
<1>15. w * n = q * (w - t) + m * Tile
  <2>1. q = (w * v) * r /\ Tile = (w * v) * s BY <1>3, <1>9, <1>10
  <2>2. w * (v * (r * (w - t) + m * s)) = ((w * v) * r) * (w - t) + m * ((w * v) * s)
    <3> HIDE DEF w, t, v
    <3>1. ASSUME NEW d \in Int
          PROVE  w * (v * (r * d + m * s)) = ((w * v) * r) * d + m * ((w * v) * s)
      BY <1>12, <1>13
    <3>2. w - t \in Int BY <1>13
    <3> QED BY <3>1, <3>2
  <2> QED BY <2>1, <2>2
<1>16. x - player.x = w * n
  <2>1. /\ player.targetX - player.prevX = w * q /\ player.x = player.prevX + q * t BY <1>7 DEF Pace
  <2>2. q * t \in Int /\ w * q = q * t + q * (w - t) /\ q * (w - t) \in Int BY <1>13
  <2>3. x = player.targetX + m * Tile /\ m * Tile \in Int BY <1>8, <1>12
  <2> HIDE DEF w, t, n
  <2> QED BY <1>4, <1>15, <2>1, <2>2, <2>3
<1>17. Pace(player', Unit', n)
  <2>1. player.x = player.x + n * 0 BY <1>4, <1>14
  <2> HIDE DEF n, c
  <2>2. \E e \in Int : n = Unit' * e BY <1>14 DEF n
  <2> QED BY <1>4, <1>16, <2>1, <2>2 DEF Pace
<1>18. ASSUME steady PROVE KeepsUp(n)
  <2> DEFINE g == Gap * Dt
  <2>1. g \in Nat /\ g <= w BY RemoteNumbers
  <2>2. g <= t
    <3>1. age >= Gap /\ age \in Nat BY <1>1, <1>18, RemoteNumbers DEF Received, RemoteInv, RemoteTypeOK
    <3>2. age * Dt >= Gap * Dt /\ age * Dt \in Int
      <4>1. (age - Gap) * Dt >= 0 /\ (age - Gap) * Dt = age * Dt - Gap * Dt BY <3>1, RemoteNumbers
      <4>2. age * Dt \in Int /\ Gap * Dt \in Int BY <3>1, RemoteNumbers
      <4> QED BY <4>1, <4>2
    <3> QED BY <3>2, <2>1, <1>13 DEF RemoteInv
  <2>3. q * g <= Tile /\ -Tile <= q * g BY <1>7, <1>18 DEF KeepsUp
  <2>4. m \in {-1, 0, 1} BY DEF Moves
  <2> HIDE DEF g, n, t, w
  <2>5. n * g <= Tile /\ -Tile <= n * g
    BY <1>12, <1>13, <1>14, <1>15, <2>1, <2>2, <2>3, <2>4, PaceHolds
  <2> QED BY <2>5 DEF KeepsUp, g
<1>19. Tile' = Tile /\ (KeepsUp(n))' <=> KeepsUp(n') BY DEF Tile, KeepsUp
<1>20. \E k \in Int : Pace(player', Unit', k) /\ (steady => KeepsUp(k)) BY <1>14, <1>17, <1>18
<1> QED BY <1>3, <1>5, <1>6, <1>20 DEF RemoteInv, Pace, KeepsUp, Tile

\* A welcome puts the player where it is.
LEMMA WelcomeKeepsPace == ASSUME RemoteInv, HandleWelcome PROVE RemoteInv'
<1>1. PICK x \in Places : Received(x) /\ player' = NewRemote(x) BY DEF HandleWelcome
<1>2. x \in Int BY PlacesAre
<1>3. /\ packets' \in 0..MaxPackets /\ age' = 0 /\ steady' = steady /\ Unit' \in Nat
      /\ \E s \in Int : Tile' = Unit' * s
  BY <1>1, ReceivedKeeps
<1>4. player' = [x |-> x, prevX |-> x, targetX |-> x, interpT |-> Window] BY <1>1 DEF NewRemote
<1>5. RemoteTypeOK' BY <1>2, <1>3, <1>4, RemoteNumbers DEF RemoteInv, RemoteTypeOK
<1>6. packets \in 0..MaxPackets BY DEF RemoteInv, RemoteTypeOK
<1>7. \E q \in Int : Pace(player', Unit', q) /\ (steady => KeepsUp(q))
  BY <1>2, <1>3, <1>4, <1>6, Standing, RemoteNumbers
<1> QED BY <1>3, <1>4, <1>5, <1>7 DEF RemoteInv, Pace, KeepsUp, Tile

\* A step along the way does not change its pace, and lets it grow no older than it is.
LEMMA AdvanceKeepsPace ==
  ASSUME RemoteInv, Update, player.interpT < Window
  PROVE  RemoteInv'
<1> DEFINE t == IF player.interpT + Dt > Window THEN Window ELSE player.interpT + Dt
<1>1. /\ player = [x |-> player.x, prevX |-> player.prevX, targetX |-> player.targetX,
                   interpT |-> player.interpT]
      /\ player.x \in Int /\ player.prevX \in Int /\ player.targetX \in Int
      /\ player.interpT \in 0..Window
      /\ packets \in 0..MaxPackets /\ age \in 0..(Window + 1)
  BY DEF RemoteInv, RemoteTypeOK
<1>2. t \in 0..Window BY <1>1, RemoteNumbers
<1>3. PICK q \in Int : Pace(player, Unit, q) /\ (steady => KeepsUp(q)) BY DEF RemoteInv
<1>4. Unit' = Unit /\ Tile' = Tile /\ steady' = steady /\ packets' = packets
  BY DEF Update, Unit, Tile
<1>5. player' = [player EXCEPT !.interpT = t,
                               !.x = player.prevX + ((player.targetX - player.prevX) * t) \div Window]
  BY <1>1, RemoteNumbers DEF Update, Interpolate, Advanced
<1>6. ((player.targetX - player.prevX) * t) \div Window = q * t
  <2> HIDE DEF t
  <2>1. player.targetX - player.prevX = Window * q BY <1>3 DEF Pace
  <2>2. (Window * q) * t = Window * (q * t) /\ q * t \in Int BY <1>2, RemoteNumbers
  <2>3. ASSUME NEW k \in Int PROVE (Window * k) \div Window = k BY RemoteNumbers
  <2> QED BY <2>1, <2>2, <2>3
<1> HIDE DEF t
<1>7. player' = [x |-> player.prevX + q * t, prevX |-> player.prevX, targetX |-> player.targetX,
                 interpT |-> t]
  BY <1>1, <1>5, <1>6
<1>8. q * t \in Int BY <1>2
<1>9. age' \in 0..(Window + 1) /\ age' <= age + 1 BY <1>1, RemoteNumbers DEF Update
<1>10. RemoteTypeOK' BY <1>1, <1>2, <1>4, <1>7, <1>8, <1>9 DEF RemoteInv, RemoteTypeOK
<1>11. t = Window \/ t >= age' * Dt
  <2>1. player.interpT >= age * Dt BY <1>1, RemoteNumbers DEF RemoteInv
  <2>2. (age + 1 - age') * Dt >= 0 BY <1>1, <1>9, RemoteNumbers
  <2>3. (age + 1 - age') * Dt = age * Dt + Dt - age' * Dt BY <1>1, <1>9, RemoteNumbers
  <2>4. age * Dt \in Int /\ age' * Dt \in Int BY <1>1, <1>9, RemoteNumbers
  <2> QED BY <1>1, <2>1, <2>2, <2>3, <2>4, RemoteNumbers DEF t
<1>12. Pace(player', Unit', q) BY <1>3, <1>4, <1>7 DEF Pace
<1>13. \E s \in Int : Tile' = Unit' * s BY <1>4 DEF RemoteInv
<1> QED BY <1>3, <1>4, <1>7, <1>10, <1>11, <1>12, <1>13 DEF RemoteInv, Pace, KeepsUp, Tile

\* A player whose way is over stands where it was going.
LEMMA ArriveKeepsPace ==
  ASSUME RemoteInv, Update, ~(player.interpT < Window)
  PROVE  RemoteInv'
<1>1. /\ player = [x |-> player.x, prevX |-> player.prevX, targetX |-> player.targetX,
                   interpT |-> player.interpT]
      /\ player.targetX \in Int /\ player.interpT = Window
      /\ packets \in 0..MaxPackets /\ age \in 0..(Window + 1)
  BY RemoteNumbers DEF RemoteInv, RemoteTypeOK
<1>2. Unit' = Unit /\ Tile' = Tile /\ steady' = steady /\ packets' = packets
  BY DEF Update, Unit, Tile
<1>3. player' = [x |-> player.targetX, prevX |-> player.targetX, targetX |-> player.targetX,
                 interpT |-> Window]
  <2>1. player' = [player EXCEPT !.x = player.targetX, !.prevX = player.targetX]
    BY <1>1, RemoteNumbers DEF Update, Interpolate, Arrived
  <2> QED BY <1>1, <2>1
<1>4. age' \in 0..(Window + 1) BY <1>1, RemoteNumbers DEF Update
<1>5. RemoteTypeOK' BY <1>1, <1>2, <1>3, <1>4, RemoteNumbers DEF RemoteInv, RemoteTypeOK
<1>6. \E q \in Int : Pace(player', Unit', q) /\ (steady => KeepsUp(q))
  BY <1>1, <1>2, <1>3, Standing, Units, RemoteNumbers
<1>7. \E s \in Int : Tile' = Unit' * s BY <1>2 DEF RemoteInv
<1> QED BY <1>2, <1>3, <1>5, <1>6, <1>7 DEF RemoteInv, Pace, KeepsUp, Tile

\* Every packet and every step preserves the invariant.
LEMMA RemoteInvNext == RemoteInv /\ [RemoteNext]_remoteVars => RemoteInv'
<1> SUFFICES ASSUME RemoteInv, [RemoteNext]_remoteVars PROVE RemoteInv' OBVIOUS
<1>1. CASE UNCHANGED remoteVars
  BY <1>1 DEF remoteVars, RemoteInv, RemoteTypeOK, Pace, KeepsUp, Unit, Tile
<1> QED BY <1>1, StateKeepsPace, WelcomeKeepsPace, AdvanceKeepsPace, ArriveKeepsPace DEF RemoteNext

\* For every window longer than the pause between two packets and every number of them:
\* another player is shown on its way from where it was shown to where it is, where it is
\* after a window without packets, and never later than a window's worth of walking on a
\* steady network (handleRemoteState and update of NetworkClient).
THEOREM ShownAlwaysTrails == RemoteSpec => []ShownTrailsPlayer
<1>1. RemoteInv => ShownTrailsPlayer
  <2> SUFFICES ASSUME RemoteInv PROVE ShownTrailsPlayer OBVIOUS
  <2> DEFINE w == Window
             t == player.interpT
             p == player.prevX
  <2>1. /\ player.x \in Int /\ p \in Int /\ player.targetX \in Int /\ t \in 0..w
        /\ packets \in 0..MaxPackets /\ age \in 0..(Window + 1) /\ w \in Nat
    BY RemoteNumbers DEF RemoteInv, RemoteTypeOK
  <2>2. PICK q \in Int : Pace(player, Unit, q) /\ (steady => KeepsUp(q)) BY DEF RemoteInv
  <2>3. player.x = p + q * t /\ player.targetX = p + w * q
    <3>1. player.targetX - p = w * q /\ w * q \in Int BY <2>1, <2>2 DEF Pace
    <3> QED BY <2>1, <2>2, <3>1 DEF Pace
  <2> HIDE DEF w, t
  <2>4. /\ Distance(p, p + q * t) + Distance(p + q * t, p + w * q) = Distance(p, p + w * q)
        /\ Distance(p + q * t, p + w * q) = IF q >= 0 THEN q * (w - t) ELSE -(q * (w - t))
        /\ q * (w - t) \in Int
    <3> HIDE DEF p
    <3> QED BY <2>1, PartsOfTheWay
  <2>5. ASSUME age * Dt >= Window PROVE player.x = player.targetX
    <3>1. t = w
      <4>1. age * Dt \in Int BY <2>1, RemoteNumbers
      <4> QED BY <2>1, <2>5, <4>1, RemoteNumbers DEF RemoteInv, t, w
    <3>2. q * w = w * q BY <2>1
    <3> QED BY <2>3, <3>1, <3>2
  <2>6. ASSUME steady PROVE Distance(player.x, player.targetX) * Gap * Dt <= Tile * Window
    <3> DEFINE g == Gap * Dt
               d == IF q >= 0 THEN q * (w - t) ELSE -(q * (w - t))
    <3>1. Distance(player.x, player.targetX) = d BY <2>3, <2>4
    <3>2. d \in Int BY <2>4
    <3>3. q * g <= Tile /\ -Tile <= q * g BY <2>2, <2>6 DEF KeepsUp
    <3>4. g \in Nat /\ Tile \in Nat BY <2>1, RemoteNumbers, Units
    <3>5. d * g <= Tile * w
      <4> HIDE DEF g
      <4> QED BY <2>1, <3>3, <3>4, LeftOfTheWay
    <3>6. (d * Gap) * Dt = d * (Gap * Dt)
      <4> HIDE DEF d
      <4> QED BY <3>2, RemoteNumbers
    <3> QED BY <3>1, <3>5, <3>6 DEF w
  <2>7. StaysOnItsWay BY <2>3, <2>4 DEF StaysOnItsWay
  <2> QED BY <2>5, <2>6, <2>7 DEF ShownTrailsPlayer, ShownIsOnItsWay, SettlesInAWindow,
             DelayDoesNotAddUp, RemoteInv
<1> QED BY <1>1, RemoteInvInit, RemoteInvNext, PTL DEF RemoteSpec
=============================================================================
