-------------------------------- MODULE MCEngine --------------------------------
(* The core and renderer packages, for TLC: event bus, interpreter, scene       *)
(* graph, tile layers, WebGL frames and camera.  As in MCSession a behaviour    *)
(* plays one part and the others wait.                                          *)
EXTENDS EventBus, Interpreter, SceneGraph, TileLayers, WebGLFrames, Camera, TLC

CONSTANTS h1, h2

VARIABLE part

-----------------------------------------------------------------------------
\* Bus: two handlers of one event.
OneType == {"walk"}
TwoHandlers == {h1, h2}
Symmetry == Permutations(TwoHandlers)

Plain(cmd) == [cmd |-> cmd, valid |-> TRUE]
SetLine(name, op, value) ==
  [cmd |-> "setVariable", valid |-> TRUE, name |-> name, op |-> op, value |-> value]
SwitchLine(name, value) ==
  [cmd |-> "setSwitch", valid |-> TRUE, name |-> name, value |-> value]
StepLine(cmd, target, delta) == [cmd |-> cmd, valid |-> TRUE, target |-> target, delta |-> delta]

\* A door that opens after a riddle: the last page asks, the second counts, the
\* first walks the player out and moves somebody who has left the map.
Door == <<
    [condition |-> [kind |-> "switch", switch |-> "open", value |-> TRUE],
     commands |-> <<StepLine("walk", "player", 1), SwitchLine("open", FALSE),
                    StepLine("move", "gone", 1)>>],
    [condition |-> [kind |-> "variable", variable |-> "score", op |-> "gte", value |-> 2],
     commands |-> <<SetLine("score", "add", -1), StepLine("move", "guard", 1),
                    SwitchLine("open", TRUE)>>],
    [condition |-> [kind |-> "variable", variable |-> "score", op |-> "lt", value |-> 1],
     commands |-> <<SetLine("score", "set", 1), Plain("showText"), SetLine("score", "add", 1),
                    Plain("plugin")>>]>>
Score == {"score"}
Open == {"open"}
PlayerAndGuard == {"player", "guard"}
BuiltIn == {"showText", "setVariable", "setSwitch", "walk", "move"}
WithPlugin == BuiltIn \union {"plugin"}
Written == {0, 1, 2}

\* Graph: two nodes for the tree, one that moves between them and one more with its id.
FourNodes == {"root", "npc", "hat", "copy"}
OneIdTwice == [n \in FourNodes |-> IF n = "copy" THEN "hat" ELSE n]
TwoFaces == {"face", "mask"}
BothSprites == [c \in TwoFaces |-> "sprite"]

\* Tiles: two maps, the first with a layer too large to be cached.
Layer(id, data, size) ==
  [id |-> id, data |-> data, size |-> size, opacity |-> 1, visible |-> TRUE]
ThreeImages == {"plains.png", "caves.png", "hero.png"}
TwoTilesets == <<"plains", "caves">>
Images == [plains |-> "plains.png", caves |-> "caves.png"]
Grids == [plains |-> <<8, 8>>, caves |-> <<4, 4>>]
TwoMaps == {"meadow", "cave"}
Layers == [meadow |-> {Layer("ground", "grass", 1), Layer("sky", "clouds", 3)},
           cave |-> {Layer("floor", "rock", 1)}]
TilesetsOfMaps == [meadow |-> "plains", cave |-> "caves"]

\* Frames: one image, one text, one transform. A batch of two quads takes a
\* nine-slice's four in two flushes.
OneImage == {"tiles"}
OneText == {"!"}
OneTurn == {"turned"}

At(x, y) == [x |-> x, y |-> y]
Size(w, h) == [w |-> w, h |-> h]
\* View: a wide screen, a small window, a tall phone, a canvas that is not laid out
\* yet; corners of the map, its middle, and half a step from it.
Canvases == {Size(320, 240), Size(96, 75), Size(100, 700), Size(0, 0)}
OnThePage == At(5, 7)
PlayerSpots == {At(0, 0), At(80, 64), At(32, 32), At(40, 32)}
SpeakerSpots == {At(0, 0), At(5, 4), At(2, 1), At(3, 3)}
DialogueSizes == {Size(120, 40), Size(60, 20)}
ChoiceSizes == {Size(50, 30)}

-----------------------------------------------------------------------------
vars == <<part, busVars, interpreterVars, graphVars, tileVars, glVars, viewVars>>

Init == /\ part \in {"bus", "events", "graph", "tiles", "frames", "view"}
        /\ BusInit /\ InterpreterInit /\ GraphInit /\ LayersInit /\ FramesInit /\ ViewInit
        \* A view that does not play starts in one way only.
        /\ part # "view" => canvas = Size(0, 0) /\ player = At(0, 0) /\ speaker = At(0, 0)

\* A step of one part.
BusDoes(A) == /\ part = "bus" /\ A
              /\ UNCHANGED <<part, interpreterVars, graphVars, tileVars, glVars, viewVars>>
EventsDo(A) == /\ part = "events" /\ A
               /\ UNCHANGED <<part, busVars, graphVars, tileVars, glVars, viewVars>>
GraphDoes(A) == /\ part = "graph" /\ A
                /\ UNCHANGED <<part, busVars, interpreterVars, tileVars, glVars, viewVars>>
TilesDo(A) == /\ part = "tiles" /\ A
              /\ UNCHANGED <<part, busVars, interpreterVars, graphVars, glVars, viewVars>>
FramesDo(A) == /\ part = "frames" /\ A
               /\ UNCHANGED <<part, busVars, interpreterVars, graphVars, tileVars, viewVars>>
ViewDoes(A) == /\ part = "view" /\ A
               /\ UNCHANGED <<part, busVars, interpreterVars, graphVars, tileVars, glVars>>

BusPlays ==
  \/ \E t \in Types : \/ BusDoes(Emit(t))
                      \/ \E h \in Handlers : \/ BusDoes(On(t, h)) \/ BusDoes(OnNew(t, h))
                                             \/ BusDoes(Off(t, h))
  \/ BusDoes(Clear) \/ BusDoes(Deliver) \/ BusDoes(EmitReturns)

EventsPlay ==
  \/ EventsDo(RunNothing) \/ EventsDo(RunEvent)
  \/ EventsDo(ClearCommandCache) \/ EventsDo(ExecutePublishing)
  \/ EventsDo(ExecuteSetVariable) \/ EventsDo(ExecuteSetSwitch)
  \/ EventsDo(ExecuteMove) \/ EventsDo(ExecuteMoveThrows)
  \/ \E c \in Commands : EventsDo(Register(c))
  \/ \E v \in Variables, n \in Values : EventsDo(SetVariable(v, n))

GraphPlays ==
  \/ \E n \in Node \ {Root}, p \in Node : GraphDoes(AddChild(p, n)) \/ GraphDoes(AddEntity(n, p))
  \/ \E i \in Ids : GraphDoes(RemoveEntity(i))
  \/ \E n \in Node, c \in Component : \/ GraphDoes(AddComponent(n, c))
                                      \/ GraphDoes(RemoveComponent(n, c))

TilesPlay ==
  \/ TilesDo(Background /\ UNCHANGED layerVars)
  \/ TilesDo(DrawLayers)
  \/ \E m \in Map : TilesDo(Transfer(m))

FramesPlay ==
  \/ FramesDo(BeginFrame) \/ FramesDo(EndFrame) \/ FramesDo(PopTransform)
  \/ \E t \in Turn : FramesDo(PushTransform(t))
  \/ FramesDo(AtlasChanges) \/ FramesDo(Restored) \/ FramesDo(Disposed) \/ FramesDo(Quiet)
  \/ \E t \in Image, n \in 1..MaxCalls : FramesDo(DrawImage(t, n))
  \/ \E n \in {1, 4} : FramesDo(DrawRect(n))
  \/ \E s \in Text : FramesDo(DrawText(s))

Next == BusPlays \/ EventsPlay \/ GraphPlays \/ TilesPlay \/ FramesPlay \/ ViewDoes(ViewNext)

Spec == Init /\ [][Next]_vars

-----------------------------------------------------------------------------
\* No dispatch, however nested, calls a handler that off has removed, and a page ends as
\* done only after every one of its commands was executed.
StepsKeepTheirWord == OffIsSkipped /\ DoneMeansAll
=============================================================================
