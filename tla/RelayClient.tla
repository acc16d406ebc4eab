---------------------------- MODULE RelayClient ----------------------------
(***************************************************************************)
(* The boot of the game and its relay connection: boot loads the map,      *)
(* picks a renderer and awaits NetworkClient, which awaits                 *)
(* WebSocketTransport, which drives a browser socket.  An action is one    *)
(* task of the event loop with the microtasks it releases: when a handler  *)
(* settles the promise of connect, the continuations of                    *)
(* NetworkClient.connect and of boot run before any other task.            *)
(*                                                                         *)
(* The socket and the server behind it are external: a connecting socket   *)
(* opens or fails, messages arrive in order while it is open and never     *)
(* once it is closing, and it may drop at any time.                        *)
(***************************************************************************)
EXTENDS Naturals, Sequences

CONSTANTS Peers,           \* sessions of the other players
          MaxLocalStates,  \* bound: local states set by the game
          MaxMessages      \* bound: messages the server sends

ASSUME ClientAssumption == MaxLocalStates \in Nat /\ MaxMessages \in Nat

VARIABLES options,   \* BootOptions: a server URL, names that are not empty, timeouts
          boot,      \* how far boot is, then "playing" and "disposed", or "failed"
          state,     \* stateValue of the transport
          socket,    \* readyState, "none" before connect
          promise,   \* of transport.connect
          timers,    \* timers of the transport that are armed
          silent,    \* nothing has arrived for timeoutMs
          wire,      \* server messages on their way
          sent,      \* number of server messages sent
          client,    \* NetworkClient
          leaves,    \* history: leave messages handed to the socket
          welcomed   \* history: the welcome was taken while handshaking

clientVars == <<options, boot, state, socket, promise, timers, silent, wire, sent, client,
                leaves, welcomed>>
serverVars == <<wire, sent>>

NewClient == [connected |-> FALSE, inRoom |-> FALSE, remotes |-> {}, subscribed |-> FALSE,
              sendTimer |-> FALSE, pending |-> 0, lastSent |-> 0]

ClientInit == /\ options \in [network : BOOLEAN, named : BOOLEAN, timed : BOOLEAN]
              /\ boot = "init"
              /\ state = "idle"
              /\ socket = "none"
              /\ promise = "none"
              /\ timers = {}
              /\ silent = FALSE
              /\ wire = << >>
              /\ sent = 0
              /\ client = NewClient
              /\ leaves = 0
              /\ welcomed = FALSE

-----------------------------------------------------------------------------
(* boot, one await after the other, up to the network.                      *)

BootStep(from, to) ==
  /\ boot = from /\ boot' = to
  /\ UNCHANGED <<options, state, socket, promise, timers, silent, serverVars, client, leaves, welcomed>>

LoadMap == BootStep("init", "map") \/ BootStep("init", "failed")
CreateRuntimeRenderer == BootStep("map", "renderer") \/ BootStep("map", "failed")

\* No URL, no client: the game is on its own.
PlayAlone == ~options.network /\ BootStep("renderer", "playing")

\* NetworkClient.connect: subscribe, then await the transport.
TransportConnect ==
  \/ /\ state' = "connecting" /\ socket' = "connecting" /\ promise' = "pending"
     /\ boot' = "connecting"
  \/ \* the socket factory throws
     /\ state' = "closed" /\ promise' = "rejected" /\ boot' = "playing"
     /\ UNCHANGED socket

CreateNetworkClient ==
  /\ options.network /\ boot = "renderer" /\ state = "idle"
  /\ client' = [client EXCEPT !.subscribed = TRUE]
  /\ TransportConnect
  /\ UNCHANGED <<options, timers, silent, serverVars, leaves, welcomed>>

\* boot catches the failure and goes on with the client that failed.
RejectConnect ==
  IF promise = "pending" THEN promise' = "rejected" /\ boot' = "playing"
                         ELSE UNCHANGED <<promise, boot>>

\* Mutant: the promise resolves at open rather than at the welcome.
HandleOpenResolves ==
  /\ socket = "connecting" /\ socket' = "open"
  /\ state = "connecting" /\ state' = "handshaking"
  /\ timers' = {"handshake"}
  /\ promise' = "resolved" /\ boot' = "playing"
  /\ UNCHANGED <<options, silent, serverVars, client, leaves, welcomed>>

\* Mutant: no handshake timer.
HandleOpenUntimed ==
  /\ socket = "connecting" /\ socket' = "open"
  /\ state = "connecting" /\ state' = "handshaking"
  /\ UNCHANGED <<options, timers, boot, promise, silent, serverVars, client, leaves, welcomed>>

\* An empty name or room makes the hello invalid: sendHello throws out of the handler
\* before the timer is armed.
HandleOpen ==
  /\ socket = "connecting" /\ socket' = "open"
  /\ state = "connecting" /\ state' = "handshaking"
  /\ timers' = IF options.named THEN {"handshake"} ELSE timers
  /\ UNCHANGED <<options, boot, promise, silent, serverVars, client, leaves, welcomed>>

\* Mutant: the handshake timer survives.
StopHeartbeatOnly == timers' = timers \ {"ping", "watchdog"}

StopTimers == timers' = {}

ForceClose == /\ StopTimers
              /\ state' = "closing"
              /\ socket' = "closing"

HandshakeTimeout ==
  /\ "handshake" \in timers
  /\ RejectConnect
  /\ ForceClose
  /\ UNCHANGED <<options, silent, serverVars, client, leaves, welcomed>>

\* The watchdog's interval finds that lastInboundMs is older than timeoutMs.  A
\* timeoutMs passed on as undefined replaces the default, and nothing is older.
Watchdog ==
  /\ "watchdog" \in timers /\ silent /\ options.timed
  /\ ForceClose
  /\ UNCHANGED <<options, boot, promise, silent, serverVars, client, leaves, welcomed>>

HandleClose ==
  /\ StopTimers
  /\ state' = "closed" /\ socket' = "closed"
  /\ IF state # "ready" THEN RejectConnect ELSE UNCHANGED <<promise, boot>>
  /\ wire' = << >>
  /\ UNCHANGED <<options, silent, sent, client, leaves, welcomed>>

\* A socket that cannot connect reports an error and then its close, in one task.
SocketFails == socket = "connecting" /\ HandleClose
SocketCloses == socket = "closing" /\ HandleClose
SocketDrops == socket = "open" /\ HandleClose
\* The server's idle timer: it closes who has said nothing for a minute.
HelloNeverCame == ~options.named /\ SocketDrops

-----------------------------------------------------------------------------
(* Inbound envelopes: the transport first, then its subscriber.             *)

CompleteHandshake ==
  /\ state' = "ready"
  /\ timers' = {"ping", "watchdog"}
  /\ promise' = "resolved" /\ boot' = "playing"
  /\ welcomed' = TRUE

\* handleEnvelope; when the welcome settled connect, its continuation follows.
HandleEnvelope(m) ==
  client' = IF ~client.subscribed THEN client ELSE
    CASE m.kind = "welcome" ->
           [client EXCEPT !.inRoom = TRUE, !.remotes = @ \union m.who,
                          !.connected = @ \/ state = "handshaking",
                          !.sendTimer = @ \/ state = "handshaking"]
      [] m.kind = "state" -> [client EXCEPT !.remotes = @ \union m.who]
      [] m.kind = "leave" -> [client EXCEPT !.remotes = @ \ m.who]
      [] OTHER -> client

HandleMessage ==
  /\ socket = "open" /\ wire # << >>
  /\ wire' = Tail(wire)
  /\ silent' = FALSE
  /\ IF Head(wire).kind = "welcome" /\ state = "handshaking"
       THEN CompleteHandshake
       ELSE UNCHANGED <<state, timers, promise, boot, welcomed>>
  /\ HandleEnvelope(Head(wire))
  /\ UNCHANGED <<options, socket, sent, leaves>>

-----------------------------------------------------------------------------
(* The running game.                                                        *)

SetLocalState ==
  /\ boot = "playing" /\ options.network /\ client.pending < MaxLocalStates
  /\ client' = [client EXCEPT !.pending = @ + 1]
  /\ UNCHANGED <<options, boot, state, socket, promise, timers, silent, serverVars, leaves, welcomed>>

\* Mutant: what was sent once is not replaced.
FlushFirstState ==
  /\ client.sendTimer
  /\ client.pending # 0 /\ client.connected
  /\ client' = [client EXCEPT !.lastSent = IF state = "ready" /\ @ = 0 THEN client.pending ELSE @]
  /\ UNCHANGED <<options, boot, state, socket, promise, timers, silent, serverVars, leaves, welcomed>>

\* One tick of the send loop with a token in the bucket; without one it does
\* nothing.  The transport ignores the message unless it is ready.
FlushPendingState ==
  /\ client.sendTimer
  /\ client.pending # 0 /\ client.connected
  /\ client' = [client EXCEPT !.lastSent = IF state = "ready" THEN client.pending ELSE @]
  /\ UNCHANGED <<options, boot, state, socket, promise, timers, silent, serverVars, leaves, welcomed>>

\* transport.close, called by a client that has just sent its own leave or not.
TransportClose(said) ==
  IF state \in {"idle", "closed"}
    THEN leaves' = leaves + said /\ UNCHANGED <<state, socket, timers>>
    ELSE /\ leaves' = leaves + said + (IF state = "ready" THEN 1 ELSE 0)
         /\ state' = "closing"
         /\ socket' = "closing"
         /\ StopTimers

\* game.dispose closes the client, when there is one: its leave goes through
\* transport.send, which does not note it in leaveSent.
Close ==
  /\ boot = "playing" /\ boot' = "disposed"
  /\ TransportClose(IF client.connected /\ state = "ready" THEN 1 ELSE 0)
  /\ client' = [client EXCEPT !.connected = FALSE, !.remotes = {}, !.subscribed = FALSE,
                              !.sendTimer = FALSE]
  /\ UNCHANGED <<options, promise, silent, serverVars, welcomed>>

-----------------------------------------------------------------------------
(* The server: a welcome or a refusal for the hello, then what the room     *)
(* does; or nothing, for as long as it likes.                               *)

Send(m) == /\ socket = "open" /\ sent < MaxMessages
           /\ wire' = Append(wire, m)
           /\ sent' = sent + 1
           /\ UNCHANGED <<options, boot, state, socket, promise, timers, silent, client, leaves, welcomed>>

ServerWelcomes == sent = 0 /\ options.named /\ \E ps \in SUBSET Peers : Send([kind |-> "welcome", who |-> ps])
ServerRefuses == sent = 0 /\ options.named /\ Send([kind |-> "error", who |-> {}])
ServerRelays ==
  /\ sent > 0
  /\ \E p \in Peers, k \in {"state", "leave"} : Send([kind |-> k, who |-> {p}])

\* timeoutMs pass with nothing delivered.
SilencePasses == /\ state = "ready" /\ wire = << >> /\ ~silent
                 /\ silent' = TRUE
                 /\ UNCHANGED <<options, boot, state, socket, promise, timers, serverVars, client, leaves, welcomed>>

ClientNext == \/ LoadMap \/ CreateRuntimeRenderer \/ PlayAlone
              \/ CreateNetworkClient \/ HandleOpen \/ HandshakeTimeout \/ Watchdog
              \/ SocketFails \/ SocketCloses \/ SocketDrops \/ HandleMessage
              \/ SetLocalState \/ FlushPendingState \/ Close
              \/ ServerWelcomes \/ ServerRefuses \/ ServerRelays \/ SilencePasses

ClientSpec == ClientInit /\ [][ClientNext]_clientVars

\* boot calls connect; the browser settles every socket; a timer that is armed
\* fires; a message that has arrived is handled; the send loop's bucket refills.
ClientFairness == /\ WF_clientVars(LoadMap) /\ WF_clientVars(CreateRuntimeRenderer)
                  /\ WF_clientVars(PlayAlone) /\ WF_clientVars(HelloNeverCame)
                  /\ WF_clientVars(CreateNetworkClient)
                  /\ WF_clientVars(HandshakeTimeout) /\ WF_clientVars(Watchdog)
                  /\ WF_clientVars(HandleOpen \/ SocketFails) /\ WF_clientVars(SocketCloses)
                  /\ WF_clientVars(HandleMessage) /\ WF_clientVars(FlushPendingState)
ClientFairSpec == ClientSpec /\ ClientFairness

-----------------------------------------------------------------------------
ClientTypeOK ==
  /\ options \in [network : BOOLEAN, named : BOOLEAN, timed : BOOLEAN]
  /\ boot \in {"init", "map", "renderer", "connecting", "playing", "disposed", "failed"}
  /\ state \in {"idle", "connecting", "handshaking", "ready", "closing", "closed"}
  /\ socket \in {"none", "connecting", "open", "closing", "closed"}
  /\ promise \in {"none", "pending", "resolved", "rejected"}
  /\ timers \subseteq {"handshake", "ping", "watchdog"}
  /\ {silent, welcomed} \subseteq BOOLEAN
  /\ wire \in Seq([kind : {"welcome", "error", "state", "leave"}, who : SUBSET Peers])
  /\ sent \in Nat /\ leaves \in Nat
  /\ client \in [connected : BOOLEAN, inRoom : BOOLEAN, remotes : SUBSET Peers,
                 subscribed : BOOLEAN, sendTimer : BOOLEAN, pending : Nat, lastSent : Nat]

\* Every way out of a state disarms its timers (handleClose, forceClose, close,
\* completeHandshake): no timer of an earlier state ever fires in a later one.
TimersFollowState ==
  timers = CASE state = "handshaking" -> IF options.named THEN {"handshake"} ELSE {}
             [] state = "ready" -> {"ping", "watchdog"}
             [] OTHER -> {}

\* Whichever way the connection ended, a disposed game leaves nothing behind:
\* no timer, no subscription, no remote player, no socket in use.
DisposeReleases ==
  boot = "disposed" =>
    /\ ~client.sendTimer /\ ~client.subscribed /\ client.remotes = {}
    /\ timers = {}
    /\ socket \in {"none", "closing", "closed"}

\* connect resolves at the welcome and at nothing else, and never both ways:
\* timeout, error and close racing the welcome included.
Lifecycle == INSTANCE ConnectPromise WITH
  phase <- CASE state = "idle" -> "idle"
             [] state \in {"connecting", "handshaking"} -> "opening"
             [] state = "ready" -> "up"
             [] OTHER -> "down",
  outcome <- promise
ConnectSettles == Lifecycle!PromiseSpec

\* The game is told it is in a room only by a welcome that came in time.
ConnectedWasWelcomed == client.connected => welcomed /\ promise = "resolved"

\* A game that is disposed while the connection is up says goodbye to the room
\* before the socket closes.
GoodbyeIsSaid == [][Close /\ state = "ready" => leaves' > leaves]_clientVars

\* boot never hangs on the network: a mute server, a refusal and a drop all
\* release it (as long as the browser settles the socket).
BootEnds == boot = "init" ~> boot \in {"playing", "failed"}

\* boot rejects for want of a map or a renderer only: no connection is left open by a
\* game that never came to be.
FailedBootOpenedNothing == boot = "failed" => socket = "none" /\ ~client.subscribed

\* A server that stays silent past a timeout that was given is dropped.
SilentServerIsDropped == silent /\ options.timed ~> (state # "ready" \/ ~silent)

\* Coalescing keeps the newest state: it is sent, or the connection is over.
NewestStateIsSent ==
  \A n \in 1..MaxLocalStates :
    (client.pending = n /\ client.connected) ~> (client.lastSent >= n \/ state # "ready")

\* network-client.ts:139 "Whether the handshake completed and the client is in a room."
ConnectedMeansInRoom == client.connected => state \in {"ready", "closing"}

\* boot.ts:14 "a failed network connect degrades to single-player": by the client's own
\* timers, whatever the server does.
HandshakeIsTimed == state = "handshaking" => "handshake" \in timers

\* network-client.ts:235 "Close the connection: sends `leave` then closes the transport."
LeavesOnce == leaves <= 1

\* However a connection ends, no timer outlives the state that armed it, nobody is
\* connected who was not welcomed, and a disposed game leaves no subscription, no
\* timer and no socket behind, as does a boot that failed.
NothingRunsOn ==
  /\ ClientTypeOK /\ FailedBootOpenedNothing
  /\ TimersFollowState /\ ConnectedWasWelcomed /\ DisposeReleases

\* connect resolves at the welcome and at nothing else, never both ways; who closes
\* while it is up says goodbye first.
KeepsConnectPromise == ConnectSettles /\ GoodbyeIsSaid
=============================================================================
