# AgenticRPGMaker — TLA+ models and proofs

AgenticRPGMaker is an HTML5 RPG engine (TypeScript packages `core`, `renderer`,
`runtime`), a C++ relay server (`server/`) that lets players of one room see each
other, and the scripts that package both. This directory holds TLA+ modules
translated from the code, TLC configurations that check them on small instances,
and TLAPS proofs of what holds for every instance. The lines each definition
translates are in `PROJECT.json` under `map`; here file names stand for their
paths (`server.cpp` for `src/server/src/server.cpp`, `game.ts` for
`src/packages/runtime/src/game.ts`).

Contents: [the system](#the-system) · [modules](#modules) ·
[what TLC checks](#what-tlc-checks) · [findings](#findings) ·
[deviations kept in the modules](#deviations-kept-in-the-modules) ·
[what is proved](#what-is-proved) · [not modelled](#not-modelled)

## The system

| Component | State | Operations | What makes it hard |
|---|---|---|---|
| Outbound queue (`outbound_queue.cpp`) | deque of messages, index of the one overwritable state, capacity | `pushState`, `pushControl`, `popFront` | the index must follow the deque; behaviour at capacity |
| Room registry (`room_registry.cpp`) | rooms with cap, project lock and members; id counter | `getOrCreateRoom`, `join`, `removeMember`, `updateMemberState` | refused joins leave traces; names and places are freed late |
| Relay server (`server.cpp`) | `sessions_`, `hdlBySessionId_`, one `Session` per connection | open, message handlers, close, posted drains, idle timers, slow-consumer monitor | everything interleaves between handlers; connections go down at any time |
| Rate limits (`rate_limiter.cpp`, `transport.ts`) | a token bucket on each side | `tryState`, `tryChat`, `tryTake` | two clocks and a network that bunches |
| Protocol (`protocol.cpp`, `protocol-v1.ts`, `schema/protocol.ts`) | none; error counters of the session | build, parse, refuse | two codecs written from one document |
| WebSocket transport, network client (`websocket-transport.ts`, `network-client.ts`) | connection state, timers, remote players, pending state | connect, handshake, heartbeat, close, envelope handlers, interpolation | timeouts racing answers, close during connect |
| Game session (`game.ts`, `scene.ts`, `title-screen.ts`, `boot.ts`) | current scene, transfer lock, title screen | transfer, continue, save, load, dispose | every operation awaits; guards are read before and used after |
| Storage (`indexeddb-storage.ts`) | cached open, one slot | save, load, clear | overlapping transactions, failed opens, crash |
| Map scene (`map-scene.ts`, `movement.ts`, `behavior.ts`) | player's step, NPCs, dialogue, choice, camera | the tick; taps, save, load, exit between ticks | loads during steps, NPCs that move meanwhile, taps behind a choice |
| Game loop, input (`game-loop.ts`, `input.ts`) | accumulator, frame handle; stack of directions, edges | start, stop, tick; press, release, consume | reentrance, clock jumps, lost key-ups |
| Event bus, interpreter (`core`) | handler sets; pages, caches, game state | emit, on, off, clear; run, register | changes during dispatch; a page that throws in its middle |
| Entities, scene graph (`core`) | tree, components, id registry | add, adopt, remove, destroy | operations that throw after the first change |
| Renderer (`renderer`) | atlas and its revision, tileset bindings, layer cache, batch, GL context | load, dispose, draw, flush, loss, swap | stale caches; a batch that reads textures later than the call |
| Scripts (`build-www.mjs`, `build-deploy.mjs`, `verify-deploy.mjs`) | files in `dist`, `www/`, `deploy/` | build, assemble, verify | a script that stops half way and what the next one takes over |

How they interact: the server runs every handler on one `io_context` thread, so a
handler is one atomic step; websocketpp calls `onOpen`, `onMessage`, `onClose`, and
handlers reach other sessions only by queueing messages and posting drains. On the
client everything runs on the browser's event loop: the atomic unit is the code
between two awaits. `map-scene` talks to `game` through the event bus
(`transfer`), to the network client by `sendLocalState`, and to storage by
promises; the renderer is called by the scene's frame; the interpreter publishes on
the event bus. Client and server meet in the envelopes of protocol v1 only.

What makes each correct: the queue never loses or reorders a control message and
keeps the newest state; the registry respects caps, names, ids and project locks;
the relay keeps its maps in agreement and tells each peer the truth about its room
in a sensible order; both codecs understand each other, and a client that keeps its
limits is not punished; the connection settles its promise once, ends every timer it
starts, survives a slow network and notices a dead one; the session never has two
scenes entered and leaves the save where the player is; loads follow writes; the
player stays on the floor and no key sticks; the loop keeps time; handlers that
stay are called; the registry of entities follows the tree; what is drawn is what
was asked for, cut from the right image; a deployment is one checked build. The
hazards in `PROJECT.json` name the lines where each of these bites.

## Modules

| Module | Models | Checked in | Proofs |
|---|---|---|---|
| `OutboundQueue`, `QueueTraffic` | the server's queue, and arbitrary traffic through it | `session` | `TrafficProofs` |
| `Mailbox` | what a queue promises: a FIFO of control messages, one newest state | `session` | `TrafficProofs` |
| `RoomRegistry` | the registry | `relay_rooms` | `RelayProofs` |
| `Relay` | the server (extends queue and registry) | `relay_*` | `RelayProofs`, `RelayViewProofs` |
| `RelayClient` | boot, network client, transport and socket | `session` | `ClientProofs` |
| `ConnectPromise` | what `connect()` promises its caller | `session` | `ClientProofs` |
| `Heartbeat` | ping, watchdog and idle timer of one connection, in time | `session`, `session_silence` | `ClientProofs` |
| `RateLimit` | the two token buckets of one kind of message | `session` | `TrafficProofs` |
| `Codec` | protocol v1 at both ends, error counters of the session | `session` | `ClientProofs` |
| `RemotePlayers` | another player's position between packets | `session` | `ClientProofs` |
| `GameSession` | game, scene manager, title screen between awaits | `session` | `SessionProofs` |
| `SaveSlot` | the IndexedDB slot with failures and a crash | `session` | `SessionProofs` |
| `Packaging` | the three scripts, cut short at any step | `session` | `SessionProofs` |
| `Input`, `InputDevices` | the input object; keyboard, pad, buttons, focus | `play` | `PlayProofs` |
| `MapScene` | the map's tick and the events between ticks | `play` | `PlayProofs` |
| `GameLoop` | the fixed-step loop | `play` | `PlayProofs` |
| `EventBus` | nested dispatches | `engine` | `EngineProofs` |
| `Interpreter` | pages, conditions, commands, factory cache | `engine` | `EngineProofs` |
| `SceneGraph` | tree, components, id registry | `engine` | `EngineProofs` |
| `Textures`, `TileLayers` | textures and tilesets; layer cache of Canvas2D | `engine` | `EngineProofs` |
| `WebGLContext`, `WebGLFrames` | choice, loss and swap of a renderer; a frame through the batch | `engine`, `engine_text` | `EngineProofs` |
| `Camera` | camera, visible tiles, placement of the boxes | `engine` | `EngineProofs` |

`MCRelay`, `MCSession`, `MCPlay` and `MCEngine` are the instances for TLC. `ListLemmas`
holds the facts about numbers, sequences and the operators of `SequencesExt` that several
proof modules need.

### Server

**OutboundQueue, QueueTraffic, Mailbox.** `stateIndex_` is a position starting at 1,
with 0 for the empty optional. The operators are the methods; `QueueTraffic` drives
them in every order, numbering control messages and states. `Mailbox` keeps the
accepted control messages and the newest pending state apart; the refinement mapping
reads them off the array and its slot index.

**RoomRegistry.** `rooms` is total over the room names with a flag `created` for
presence in the map (rooms are never removed). A session id is the number in
`s-<n>`. `Admit` is the pair of calls in `handleHello` (`getOrCreateRoom`, `join`):
a refused join still leaves the room it created. The member vector is a set because
no caller observes its order.

**Relay.** `ws[c]` is the state of connection `c` inside websocketpp, which is
external: messages are handled and sends succeed only while it is open; `close`
moves it to closing; it may become closed at any moment (`TransportClosed`), and
`onClose` runs some time later. `sess[c]` is the `Session` struct. After
`sessions_.erase` only the session id and the flag `left` are kept, as history;
`lost` and `dropped` are history too: no guard reads them. What a message carries is
reduced to what peers tell each other: states are numbered per player, chats and
leaves carry the sender, a welcome carries the last states of everyone in the room,
errors are one value. `view[c]` is the peer's picture of the room, the client's
reaction to the messages in order. It changes when a drain sends: the network
preserves order, so its delay adds nothing to the order of events at one peer.
`Delivered` says in one step what a whole queue leaves in the view, player by player
(the last message that tells of it, the last that removes it), which is what the proofs
need; `MCRelay` has TLC compare it with the fold over single messages
(`DeliveredIsFold`).
Each handler is one action with everything it does. Here both outcomes of a token
bucket are always possible and the idle timer may fire at any time; `RateLimit` and
`Heartbeat` say when they do.

### Connection

**RelayClient.** An action is one task of the event loop with the microtasks it
releases: when a handler settles the promise of `connect`, the continuations of
`NetworkClient.connect` and of `boot` run before any other task. The socket and the
server are external: they open or fail, welcome, refuse, relay or stay mute, and drop
at any time. `ConnectPromise` has neither socket nor timer: a phase that goes forward
only and an outcome that resolves exactly when the phase comes up. The refinement
maps `state` and `promise`.

**Heartbeat** keeps time in ticks: the pings on their way are a sequence of their
ages. `timed` is whether the client was given its two times (see the finding
`session_silence`). `IdleExpires` and `OnIdleTimeout` are two steps, so an expiry that
was already queued when a message re-armed the timer still closes.

**RateLimit.** A bucket counts parts of a token, one per tick. Both buckets of the
code refill lazily at the next look; the level a look finds is the one kept here.
**Codec.** A text is the number of its ASCII, three-byte and four-byte characters, as
the client limits UTF-16 units and the server bytes; a message is its type and the
parts the two parsers tell apart. **RemotePlayers.** Positions are exact integers:
multiples of `1 / Window^MaxPackets` of a tile.

**GameSession.** Storage and loader are queues of pending calls; everything after an
`await` is the action of the answer. Storage answers in the order of the calls, which
`SaveSlot` justifies, loaders in any order. **SaveSlot** splits a call into open,
request and commit; each may fail, and a crash keeps what was committed.

**Packaging.** A file is the revision of the source it was made from. A step of a
script is an action; `CutShort` writes or removes any part of the step's files and
ends the script. The source is edited only between scripts.

### Play

**Input, InputDevices.** `Input` is the class; the environment presses keys, pad and
buttons and takes the focus away, in which case key-ups are lost. **MapScene.** One
frame is one action, `Update`, composed of operators from a scene to the next one, in
the order of the code: the step under way, an open choice or else movement, confirm
and cancel, then the NPCs. Events come between frames; pages are sequences of "say",
"ask" and "flip", and `Emitted` is what all of one page does (`MCPlay` compares it with
one command after the other, `EmittedIsFold`). **GameLoop.** A frame is one action per update,
because an update may call `stop` and `start` on the loop that runs it.

### Engine

**EventBus.** Handler sets are objects with an identity (`heap`): a dispatch keeps
the one it began with even when the map has dropped it. **Interpreter.** A run is
split at its commands, since each publishes on the bus and a listener may change the
state. **SceneGraph.** An operation that throws is an action too, with the changes it
made before. What `traverse` visits is the least set that holds an object and, with each
member, its children; `Before` is the order of the visits, which decides how far `index`
gets. **Textures, TileLayers.** One atlas, whose revision grows with every
image; a tileset is bound in a microtask after its image came. **WebGLFrames.** A draw
call stages quads and a flush reads the texture of the moment; between frames the
atlas changes and the context comes and goes (`WebGLContext`). **Camera.** Lengths are
integers: world pixels times twice the zoom, and half pixels on the page.

## What TLC checks

The parts of one run keep their state apart in the code too: the connection, the
save slot, the heartbeat or the packaging scripts share no variable, and what one
hands the other (a save, a welcome, a tap) the models take as input at any time. So
the suites `MCSession`, `MCPlay` and `MCEngine` let a behaviour play one part, chosen
at the start, while the others wait in their initial states: the states of the parts
add up instead of multiplying, and nothing that could happen between them is lost.
The suites extend the modules of their parts, so the definitions a run checks are the
very ones the proofs are about; only a second copy of the map (`Rounds` in `MCPlay`, which
plays under fairness) is instantiated by name.
Where components do share state they are composed: queue and registry inside `Relay`,
boot, client and transport inside `RelayClient`, game, scene manager and title inside
`GameSession`, scene and input inside `MapScene`, textures and layers, context and
frames. A property of a suite stands in the module of its part, and is the conjunction
of the module's invariants on one subject; `StepsKeepTheirWord`, of `MCEngine`, is
of two.

| Run | Instance | Shows |
|---|---|---|
| `relay_three` | 3 connections, 1 room, queues of 2, 5 messages of hello, player_state, leave | `MapsAgree` between handlers; `RosterFollowsRoom`: nobody is told of a player that is not there, except through the leave window below |
| `relay_pair` | 2 connections, all message kinds, 2 states each, queues of 2, 5 messages | `DrainIsPosted`, `WelcomeComesFirst`, `LeaveIsLast`; a drained peer is current (`SettledPeersAreCurrent`); positions never go back (`StatesNeverRewind`) |
| `relay_rooms` | 3 connections, 2 rooms, 2 projects | `RoomsPlayOneProject`; the relay implements the registry (`ImplementsRegistry`) |
| `relay_live` | 2 connections with fairness | `ClosedIsCleanedUp`, `QueuedIsSent` |
| `session` | the connection and its neighbours, see below | 16 properties |
| `play` | input, map scene, loop | 6 properties |
| `engine` | core and renderer | 7 properties |
| `session_silence`, `relay_newest`, `relay_loss`, `relay_ghost`, `engine_text` | see Findings | one violation each |

**`session`** shows, part by part:

* *client* — `NothingRunsOn` (timers belong to their state, disposed or failed leaves
  nothing behind), `KeepsConnectPromise` (with `GoodbyeIsSaid`), `BootGoesOn` (boot
  never hangs on the network, a silent server is dropped by a client that has a
  timeout), `NewestStateIsSent`;
* *beat* — `PingsKeepItUp` (an idle player on a slow network is never taken for dead),
  `BothSidesNotice` (a dead network is noticed);
* *game* — `OneSceneEntered`, `SaveFollowsTransfer`, `TransfersEnd`;
* *slot* — `LoadsFollowWrites`, `EveryCallIsAnswered`;
* *talk* — `UnderstoodByBoth`; *others* — `ShownTrailsPlayer`; *traffic* —
  `KeepsPromise`; *limit* — `HonestIsHeard`; *build* — `OneCheckedBuild`.

**`play`** shows, part by part:

* *devices* — `HeldFollowsHands` (the held direction is the newest one still held, and
  none sticks), `OneEffectPerTap`;
* *scene* — `PlayerStandsRight` (on whole tiles of the floor, and a choice points at an
  option), `WalkFollowsHands` (a direction held past the delay walks on or is blocked;
  nobody walks behind an open talk);
* *rounds* — `PatrolGoesRound`; *loop* — `LoopKeepsTime`.

**`engine`**: `StayersAreCalled`,
`RunIsAccounted`, `StepsKeepTheirWord`, `IndexFollowsTree`, `CutByItsTileset`,
`FrameIsAsAsked`, `ViewShowsThePlay`.

### Bounds

All bounds are constants.

* *Relay*: numbers of sessions (`MaxSessions`), of states of one player
  (`MaxVersion`), of received messages (`MaxReceived`), queue capacity, and the abuse
  thresholds, which are lowered so that they are reached. A queue of two fills by one
  welcome and one broadcast, so overflow, dropped states and shifted slots all occur;
  five messages suffice for two hellos, traffic, a leave and a rejoin. Properties
  about a third party watching two others need three connections; there the kinds of
  message are restricted. Symmetry is used over connections, names, rooms and projects
  in runs without liveness: no definition distinguishes them.
* *client*: two other players, two local states, three server messages (a welcome and
  two more, in any mixture). *beat*: a tick is 5 s, so 3, 12 and 12 are the code's
  15 s, 60 s and 60 s; a delay of 4 puts several pings on their way at once. *game*:
  two maps, five calls: enough for two transfers, a save, a continue and a dispose to
  overlap. *slot*: every sequence of four calls. *talk*: four characters, two errors.
* *others*: a window of 36, steps of 5, a packet every 6 steps are 120 ms, 17 ms and
  100 ms; three packets. *traffic*: capacity 3, 7 control messages, 6 states, so the
  queue fills, refuses, coalesces and drains repeatedly. *limit*: a burst of 2, 2 tokens
  a second, delays up to 4 ticks of a sixth of a second, 4 messages on their way,
  2 refusals. *build*: two revisions, two scripts.
* *play*: two keys for one direction with a pad button for the same one, 4 presses; a
  corridor with a bay at each end, a solid NPC that walks along it and a trigger in the
  bay; in the loop a step of 2, a clamp of 5, a clock of 10, 2 starts, 6 frames. Its
  updates do not stop the loop and its manual ticks do not go back (`Reentrant`,
  `ManualBack`); what happens when they do is under deviations.
* *engine*: two handlers, two nested dispatches, three handler sets; an event of three
  pages, one with an unknown command, one that throws, 4 runs, 4 edits; four nodes, two of
  them with one id, so that `index` throws, and two components; two maps, three images, a
  layer too large for the cache; a batch of two quads, which a nine-slice needs to flush
  twice, one loss, two atlases; a camera on four canvases, one of size zero. The two
  handlers are symmetric.

Deadlock is not checked in `MCSession`, `MCPlay` and `MCEngine`: a closed
connection, a crash, a disposed game or an exhausted bound ends a behaviour. In the
relay `CheckBackpressure` is always possible, so the runs check deadlock without its
saying much.

### Fairness

Only what the runtime provides is assumed fair; nobody is assumed to send, press,
travel, save or close.

* `Relay!FairSpec`: `Drain`, `OnClose` and `CheckBackpressure` (handlers the
  `io_context` runs once posted or due, on a thread that does nothing else) and the end
  of a closing connection (websocketpp's close-handshake timeout). An open connection
  need not close.
* `session`: the browser settles every socket, timers that are armed fire, a message
  that arrived is handled, the send loop finds its bucket refilled; time passes and
  what is due happens; storage and loader answer or fail. `MCSession` states fewer
  conditions than the modules' own (`ClientFairness`, `BeatFairSpec` and the like): where one of several steps must come,
  whichever, one condition covers them.
* `play`: the browser goes on asking for frames (`Rounds!Update`).

### Findings

1. **`session_silence`** — `connect` writes the default times and spreads the caller's
   options over them (`websocket-transport.ts:138`). `boot` and `NetworkClient` always
   name `heartbeatMs` and `timeoutMs`, with the value undefined unless the page set
   them, and undefined replaces the defaults: pings go out at every turn of the event
   loop, and no silence is ever too long. `transport.ts:24` says the client drops a
   silent server, by default after 60 s.
2. **`relay_newest`** — one state slot per receiver. `pushState` overwrites the
   pending state whoever sent it. With three players a receiver that has drained
   everything may not know the newest position one of them sent; ADR-004 rule 1
   promises to drop intermediate positions only. With two players the property holds
   (`relay_pair`).
3. **`relay_loss`** — a refused control message is forgotten. The overflow sets
   `backpressureSince`, the next drain empties the queue and resets it, the connection
   stays open and the message is gone; ADR-004 rule 2 says control messages are lost
   only by closing the connection. At the configured capacity of 512 this takes more
   than 512 control messages between the posting of a drain and its run.
4. **`relay_ghost`** — the leave window. A member that sent leave stays in the room
   until `onClose`. A hello in between is welcomed with it, and no later leave is sent
   because `left` is set. `RosterFollowsRoom` is stated with exactly this exception.
5. **`engine_text`** — `drawText` uploads its canvas with an explicit revision; the
   flush calls `ensureTexture` with the id alone, finds the revision of an id the
   texture manager does not know different, and uploads the white placeholder over the
   text (`webgl-renderer.ts:390`).

## Deviations kept in the modules

While the modules were written, more places turned up where a comment or document
says one thing and the code does another. Each is stated at the end of its module as a
formula that quotes the text, and TLC refutes it on a small instance of that module;
they have no configuration of their own, so that the runs stay few. To see a
counterexample, name the formula in a configuration of the module or of its suite.
`Module!Formula` is `Formula` of `Module`.

| Formula | What the code does, against what it says |
|---|---|
| `RelayClient!ConnectedMeansInRoom` | nothing tells the client that the transport closed: `connected` stays true, the send timer runs on, the players freeze on the map (`network-client.ts:176`, `:139`) |
| `RelayClient!LeavesOnce` | `close` sends a leave through `send`, which does not set `leaveSent`, and `transport.close` sends another (`network-client.ts:246`) |
| `RelayClient!HandshakeIsTimed` | an empty player name or room makes `sendHello` throw before the handshake timer is armed; only the server's idle timer ends the wait of `boot` |
| `Codec!ChatIsTaken` | a chat cut to 200 UTF-16 units may have more than 200 bytes and is refused by the server; a cut surrogate pair counts as malformed and towards the closing of the connection (`protocol.cpp:168`, `ADR-004.md:187`) |
| `GameSession!DisposeIsFinal` | `handleTransfer` and `continue` test nothing after their awaits: a map that arrives after `dispose` is entered and nobody leaves it (`game.ts:227`) |
| `GameSession!OneSessionBegins` | a second choice made while the save check is pending passes the same guard (`title-screen.ts:188`) |
| `GameSession!ContinueKeepsItsWord` | `continue` reads the save twice; a save of the old scene in between makes the second read fail after the new map was entered (`game.ts:348`) |
| `GameSession!LoadAppliesWhole`, `MapScene!LoadedPositionSticks` | a load does not look whether its scene was left meanwhile, nor at the step under way: variables come without the position, or the step's end overwrites it (`map-scene.ts:636`, `:932`) |
| `SaveSlot!AckedIsDurable` | `request` resolves at the request's success, not at the transaction's completion (`indexeddb-storage.ts:171`, `storage.ts:19`) |
| `InputDevices!LastPressedWins` | the stack holds directions, not keys: the release of one of two keys for a direction removes it (`input.ts:234`) |
| `MapScene!EntersNoBody` | an NPC may walk onto the target of a step under way (`map-scene.ts:932`, `06-architecture.md:303`) |
| `MapScene!TurnsAtOnce` | a direction that changes during a step counts as held when the step ends and waits for the repeat delay (`map-scene.ts:967`) |
| `MapScene!ChoiceFreezesDialogue` | a tap on the dialogue box advances the dialogue behind an open choice (`map-scene.ts:810`, `:374`) |
| `GameLoop!StoppedRunsNothing` with `Reentrant` | an update that calls `stop` is followed by the other updates that are due and a render; `stop` and `start` inside an update leave two frame chains (`game-loop.ts:137`, `:145`) |
| `GameLoop!SimulationKeepsTime` with `ManualBack > 0` | an earlier timestamp moves `lastTimeMs` back, and the next tick counts the interval again (`game-loop.ts:130`, `:117`) |
| `EventBus!ClearedIsSkipped` | `clear` empties the map of sets, not the sets: a dispatch under way goes on calling (`event-bus.ts:73`) |
| `SceneGraph!IdsAreUnique` | `addEntity` attaches a subtree and then throws at a descendant whose id is taken (`scene-graph.ts:109`) |
| `SceneGraph!OwnerHasIt` with `Shared` | `addComponent` takes a component another entity still has (`game-object.ts:82`) |
| `TileLayers!GridIsBound` | two tilesets on one image share its texture and the grid set last (`tileset-registry.ts:44`) |
| `TileLayers!ShowsTheLayer` | the layer cache is keyed by layer id and compares no data: after a transfer to a map with a layer of the same id and size the old picture is drawn (`canvas2d-renderer.ts:290`) |
| `WebGLContext!LossIsWatched` | the watchdog runs once, from construction: a later loss is not watched, one just before is given less time (`webgl-renderer.ts:602`) |
| `WebGLContext!SwapReachesTheGame` | the swap replaces the factory's renderer, not the one the game holds (`factory.ts:113`) |
| `Camera!ChoiceAboveDialogue` | near the top edge the choice box covers the dialogue (`map-scene.ts:1149`) |
| `Camera!BackendsAgree` | for a zoom other than 1 the two backends place a world point differently (`webgl-renderer.ts:551`) |
| `Packaging!VerifiedIsWhole` | `verify-deploy` passes a folder whose copying was cut short (`verify-deploy.mjs:15`) |
| `Packaging!ServerIsCurrent` | an existing server binary is reused, although the generated README says it is built from source (`build-deploy.mjs:143`, `:228`) |

Smaller observations, without a formula: `build-www --skip-bundle` removes the bundle
it then requires (`build-www.mjs:403`, `:432`); players of other maps of the same room
are drawn at their coordinates, since `PlayerState` has no map; between packets a
shown player cuts corners; a burst that the network bunches is refused by the server
even from a client that keeps its limit, and refusals add up over the whole life of a
connection (`server.cpp:473`); disposing a texture leaves a bound tileset with a dead
id; a camera change in the middle of a frame moves quads that are already staged.

## What is proved

The proofs assume only the named assumptions on the constants (`CapacityAssumption`,
`TrafficAssumption`, `RegistryAssumption`, `RelayAssumption`, `RateLimitAssumption`,
`HeartbeatAssumption`, `ClientAssumption`, `SessionAssumption`, `SlotAssumption`,
`NoDirAssumption`, `DevicesAssumption`, `LoopAssumption`, `MapAssumption`,
`BusAssumption`, `InterpreterAssumption`, `TexturesAssumption`, `LayersAssumption`,
`ContextAssumption`, `FramesAssumption`, `CameraAssumption`, `CodecAssumption`,
`RemoteAssumption`, `SceneAssumption`): bounds are
naturals, capacity, cap, rate and durations are positive, absent values are not among
the present ones, the player of a map starts on its floor and stays on the map, pages,
tilesets and layers have the fields of their schemas, a canvas and a box have no negative
size, the root of a scene has an id of its own, a steady network's packets come before the
window of interpolation is over, and, for the heartbeat, one ping interval and two delays
are shorter than both timeouts. TLC evaluates them in the
runs. A theorem has one more hypothesis only where the list says so.

### The server

* **`TrafficProofs`** — for the queue, `QueueInv` adds to the checked properties that
  exactly the position `stateIndex` holds a state, and what the history counters have to
  do with the contents. Each of push, refuse and pop preserves it. From it:
  `SlotIsRight`, `ControlIsFifo`, `NewestStateIsKept`, and `QueueKeepsPromise`, the
  refinement of `Mailbox`: every step maps to a mailbox step or a stutter. For the two
  buckets, `HonestClientIsHeard`, for any burst, rate, delay and traffic: what a client
  under its own limit has under way and may still send finds its tokens at the server but
  for as many parts as the network held a message back; on a network that keeps the
  distances nobody is refused. The bound alone is not inductive: a tick that finds the
  server's bucket full and the client's not widens the gap. `PaidInv` adds
  `EachWasPaid`, which bounds the client's credit by the age of every message under way.
* **`RelayProofs`** — of the registry, `RInv`: unique ids need every id below the
  counter, the cap needs finite member sets. One lemma states the effect of each
  operation room by room, one that it preserves `RInv`. From it: `CapHolds`,
  `MembersAreDistinct`, `ProjectStays` (an action property). Of the relay, `SInv`: the
  registry satisfies `RInv`, every session is well typed with its queue within capacity,
  a session with an id has said hello, and a queued message of an open connection has a
  drain posted. `Kept(s, t)` is what almost every handler does to a session: it changes
  neither who the session is nor unposts a drain; enqueueing, broadcasting and counting
  are shown to do that once, and the handlers follow. From it: `RelayInvariant`,
  `DrainIsAlwaysPosted`, `RelayImplementsRegistry` (each handler is one registry
  operation or none) and, through `RInv`, `RelayRoomsAreSound` for the running server.
* The **maps of the relay** in the same module — `MInv` adds to `SInv` that the maps agree, that an entry of
  `hdlBySessionId_` leads to the session with its id, and that a room's lock is the
  project of everybody in it who declared one. `PlayersStay` deals with every handler
  that leaves all players what they are; `OpenKeepsMaps`, `GreetKeepsMaps` and
  `CloseKeepsMaps` with the three that begin and end a player. From it:
  `MapsAlwaysAgree` and `OneProjectPerRoom`.
* **`RelayViewProofs`** — what a peer is told. What a queue still holds is part of what
  its peer will know, so none of the four properties is inductive without the contents
  of the queues. `Sound(q, k, w, B, G)` says of a queue `q` with its slot at `k`, for a
  peer that knows `w`, in a world where a player `x` has sent states up to `B[x]` and the
  players `G` are gone: no message tells more than the world holds; what is told later
  of a player is not older; nothing about a player follows its departure; nothing but
  errors precedes a welcome. A step does one of four things to a peer (nothing, one
  message pushed, a drain, its end), and each keeps `Sound`, a push of a state into the
  middle of the queue, where the slot is, included: that a newer state is read earlier
  than messages queued before it is what makes `StatesNeverGoBack` worth a proof. The
  second half finds the change every handler makes, and shows that the world only grows,
  because a session id is given out once. From it: `WelcomeAlwaysComesFirst`,
  `LeaveIsAlwaysLast`, `RosterAlwaysFollowsRoom` and, as an action property,
  `StatesNeverGoBack`.
* **Rooms of two** in the same module — `RoomsOfTwoAreCurrent`: where no room takes a
  third player (`MaxPlayers <= 2`), a peer whose queue is empty and dropped nothing has
  heard the last state relayed of the other player, for any number of connections, rooms
  and messages. `PairInv` speaks of `Will`, the newest state a peer will know once its
  queue has arrived, because the moment of the drain does not matter; `Relayed` adds that
  the room's stored state is never older than the relayed one, so that a welcome brings a
  newcomer up to date. The bound is needed in one place, `NoThird` in `RelayPair`: the
  slot a state overwrites could hold only an older state of the same player. With a third
  player it may hold the state of another, which is then lost (`relay_newest`).

### The connection and the session

* **`ClientProofs`** — `ClientInvariant`: `Phases` lists the combinations of
  transport state, socket, promise and boot that occur, `ClientFollows` what the client
  may believe in each. From it: `NothingEverRunsOn` (timers, subscriptions,
  connections), `ConnectIsKept`, the refinement of `ConnectPromise`, and
  `ConnectPromiseIsKept`, the refinement together with the goodbye of a disposed game.
  `PingsAreEnough` is about the heartbeat, for any interval, delay and timeouts that
  leave room for each other: `ServerHeard` and `ClientHeard` bound how long either side
  has waited by the age of the oldest ping or pong under way; the timers are then below
  their timeouts whenever they could fire.
* The **codec** in the same module — `CodecInv`: a message on the wire is one the client's
  functions build (`Understood`, `Chatting`), an answer is one the server's build
  (`Answered`), and an open connection has not used up its errors. That the parsers take
  either is then read off their definitions. From it: `EachUnderstandsTheOther`.
* The **other players** in the same module — `RemoteInv`: of the way from where a player
  was shown to where it is, as many parts are done as time has passed of the window, each a
  whole number of units, and the unit is divided by the window once for every packet, so
  that no division rounds; on a steady network a part is no longer than a tile divided by
  the pause between packets. `PaceHolds` is the step on which this rests: a new way is what
  is left of the last and at most a tile more, and what was done of the last makes up for
  the tile. From it: `ShownAlwaysTrails`.
* **`SessionProofs`** — of the scenes, `GInv`: besides types, the scene that is entered
  is the manager's, the handle names it until dispose, nothing was switched before the
  first scene is entered (or `start` would enter a scene the handle has left behind), a
  running game has a scene, and at most one transfer loads (or releasing the lock would
  leave one in flight). `ChangeEnters` says what `SceneManager.change` does,
  `StartKeepsStage`, `SwitchKeepsStage` and `ReturnsKeepStage` use it for `start`, the
  swap and what `continue` returns; the handlers follow. From it: `OneSceneIsEntered`.
  `SaveAlwaysFollows` needs to know what the pending calls will do to the save before
  they do it: `Leads(q, doc, map)` follows a save through the queue of calls, and
  `Pending` says that it leads to the map that is played.
* The **save slot** in the same module — `SlotInv`: calls queue in the order they came
  and before anything younger, what is committed is older than everything that waits,
  the slot holds the newest commit, and an answered read holds the newest write before
  it. From it: `LoadsReadInOrder`. "Newest" is a maximum over a set of calls: that it
  exists follows from the order of the naturals being well founded
  (`NatLessThanWellFounded`, `WFMin`), without induction.
* The **scripts** in the same module — `BuildInv`: which script runs and at which step,
  what each step may rely on in `www/` (files of the revision checked out and no other, a
  bundle before it is checked, no flaw a check has looked for already), and that `deploy/`
  has files of one revision, which passed the checks, at every moment. A script that is cut
  short has no step, so that nothing relies on what it left. From it: `DeployIsAlwaysOneBuild`.

### Play

* **`PlayProofs`**, the devices — `DevicesInv`: the stack has no direction twice, the
  held one is on top, and every direction on the stack is held by a key, button or pad.
  A device releases by taking a direction out of the middle of the stack, so the module
  begins with what that does to a sequence (`RemovedPlace`, `RemovedRest`). From it:
  `HeldAlwaysFollowsHands` and `TapsHaveOneEffect`.
* The loop — `ChainInv`: inside a frame or not, a running loop has one frame asked for,
  a stopped one none; `TimeInv`: what is simulated and what is left in the accumulator
  do not exceed the time the frames brought. `LoopAlwaysKeepsTime` has the hypotheses
  `~Reentrant` and `ManualBack = 0`: updates do not call `stop` or `start` and a manual
  tick is given no earlier time. The game's own updates do neither: `game.ts` stops the
  loop in `stop` and `dispose`, which its page calls. Without the hypotheses it is false
  (see the two deviations of `GameLoop`).
* The scene — `SceneInv`: the player stands on a tile or steps to one, every device's
  input is as `Input` leaves it, a choice is at one of its options, a save is of such a
  scene, nothing is open after the exit, and `CountsHolding`. The last is why
  `WalkAlwaysFollowsHands` is no consequence of the types: the scene counts the ticks a
  direction is held in a counter of its own, the property in a history variable, and the
  two are reset on different occasions; `CountsHolding` says that the scene's count is
  never more than one behind and that its direction is the held one whenever the history
  counts. `FrameDone` is what a frame does, found by following a scene through the
  operators `Update` is composed of. From it: `PlayerAlwaysStandsRight` and
  `WalkAlwaysFollowsHands`, for any map, pages, delays and step duration.

### The engine

All of it is in **`EngineProofs`**.

* The event bus — `BusInv`: no two types have one set of handlers, and of every dispatch,
  at whatever depth of nesting, `Walked` says that the handlers of its snapshot are
  distinct, that it goes through them in order and has called those who stayed, and `Tied`
  that who stays is still in the set the dispatch began with, which is the set of its type
  unless everything in it was cleared. Without `Tied` the invariant is not inductive: that
  `off` empties a set which then leaves the map, and that `on` makes a new one, must not
  let a handler be skipped. From it: `StayersAreAlwaysCalled` and, as an action property,
  `OffIsAlwaysSkipped`.
* The interpreter — `InterpreterInv`: commands that run or are cached were built by
  factories no older than the last clearing of the cache, a page that was built whole has
  no command unknown to the registry, and what a run has logged accounts for the state.
  Each command writes the log, the bus and the state in one step; that the other entries
  are still the last of their kind is what the lemmas on `LastEffect` are for. From it:
  `RunsAreAccounted` and, as an action property, `DoneAlwaysMeansAll`.
* The scene graph — `GraphInv`: parents and children are one tree, the registry files
  objects of the scene, each under its id, and all of them unless an index has thrown, and
  an object has the components that name it. What is below an object is a least set, so its
  facts come from naming a set that is closed: `SceneGrows`, `SceneStays` and
  `SceneShrinks` say what becomes of the scene when an object is adopted in it, outside of
  it, or is destroyed. Where two objects have one id, that no two of them are filed needs
  that depth first is an order (`OneIsBefore`). From it: `IndexAlwaysFollows`, for ids and
  components that are given out twice too.
* Textures and layers — `TexturesInv`: the url index and the atlas name the same textures;
  a tileset that is bound, or whose load was answered and whose microtask is pending, is
  bound to its own image with its own grid; no tileset waits twice. `TilesInv` carries
  this to the cache and the screen. `EachIsCutByItsTileset` has the hypotheses
  `OneGridPerImage` and `OneTilesetPerLayer`: a project whose tilesets share an image only
  with one grid, and whose layers of one id have one tileset. Nothing in the code sees to
  either; without them the property is false, as the deviations `GridIsBound` and
  `ShowsTheLayer` show, and they are the two ways it can be.
* Frames — `FramesInv`: what was drawn and what is staged are together what was asked for,
  in order, all that is staged has the batch's texture and is what the atlas shows at this
  moment, and what is in the context was uploaded there, by this generation of it. `Batch`
  is that invariant in the middle of a call: a call pushes any number of quads and flushes
  whenever the batch is full, so `PushTimes`, a recursive function, is shown to keep it
  for every number. From it: `FramesAreAsAsked`. It says nothing of texts, which the
  finding `engine_text` is about.
* The camera — `ViewInv` says only that what a frame has computed is what it would compute
  until something changes. The proof is arithmetic: `ClampedCamera` and `BetweenTheSides`
  for one axis, `TilesOfTheView` that rounding down and up gives exactly the tiles that
  meet the view, `BesideTheTile` for the boxes. Products of two unknowns are
  beyond the solver; `Products` is the one law about them that is needed, and the definitions
  are kept hidden where it is used. From it: `ViewAlwaysShowsThePlay`.

Three recursive functions are proved about, `Kept`, `PushTimes` and `Power`. The library's induction
theorems take an operator as a parameter, but a property of numbers that fails somewhere
fails at a least number, and that the naturals are well founded is a theorem without such a
parameter; `CountUp` (`ListLemmas`) is induction in that form, for a set instead of an
operator.

### Only model-checked

* Liveness under fairness (`ClosedIsCleanedUp`, `QueuedIsSent`, `BootGoesOn`,
  `NewestStateIsSent`, `BothSidesNotice`, `TransfersEnd`, `EveryCallIsAnswered`,
  `PatrolGoesRound`), as the prover has neither `ENABLED` nor fairness.
* `SettledPeersAreCurrent` is proved for rooms of two (`RoomsOfTwoAreCurrent`); for three
  players there is nothing to prove, as the run `relay_newest` refutes it.

No module declares a `RECURSIVE` operator; what the code does in loops is written with
folds, functions and quantifiers.

## Not modelled

* **Relay**: `stop()`, the HTTP handler, log texts and close reasons, the counter
  `droppedStates_`. websocketpp's send buffer, into which `drain` moves the whole queue,
  is outside the repository, so what the bounded queue means for memory is not checked.
* **Static file server, server configuration and `main`**: path and argument handling
  on strings, without state that evolves.
* **Runtime support** (logging, platform detection, re-exports) and the page's entry:
  nothing that could be in a wrong state.
* **Schemas** other than the protocol's: shapes of data. `GameState.restore` and the
  validation of command parameters belong to them.
* **Map scene**: the building of entities and DOM boxes, drawing of sprites. The map
  loader is assumed to be configured in `GameSession`.
* **Renderer**: shaders, vertex data, atlas packing, the pixels of a primitive.
* **Behaviors** other than patrols only as far as the map scene applies them.
* **Scripts**: `validate.mjs` and `doc-lint.mjs`, which read and report; the icon's
  pixels. Two scripts at a time and edits while one runs.

What would add most next: a composition of `RelayClient` with `Relay` instead of the free
server both now assume.
