-------------------------------- MODULE Camera ------------------------------
(* What a frame of the map scene shows and where its boxes go                    *)
(* (runtime/src/map-scene.ts, renderer/src/tiles.ts): the camera follows the     *)
(* player, the dialogue box is anchored to the speaker's tile and the choice box *)
(* to the dialogue box. Boxes are laid out when they open, with the camera of    *)
(* the last frame, and again by every frame. Lengths are integers: world pixels  *)
(* times 2 zoom, and half pixels on the page.                                    *)
EXTENDS Integers, Sequences

CONSTANTS
    TileSize, MapWidth, MapHeight,  \* the map, in tiles
    Canvas,            \* sizes the canvas may take: [w, h] in pixels
    Scale, Offset,     \* the canvas on the page: CSS pixels for one of its own, and where
    PlayerSpot,        \* positions of the player, in world pixels
    SpeakerSpot,       \* tiles of the speaker
    DialogueSize, ChoiceSize  \* sizes of the boxes, in CSS pixels

ASSUME CameraAssumption ==
    /\ {TileSize, MapWidth, MapHeight, Scale} \subseteq Nat \ {0}
    /\ \A s \in Canvas \union DialogueSize : s.w \in Nat /\ s.h \in Nat
    /\ Offset.x \in Int /\ Offset.y \in Int
    /\ \A p \in PlayerSpot : /\ p.x \in 0..((MapWidth - 1) * TileSize)
                            /\ p.y \in 0..((MapHeight - 1) * TileSize)
    /\ \A s \in SpeakerSpot : s.x \in Int /\ s.y \in Int

VARIABLES
    canvas, player, speaker,
    dialogue, choice,       \* the size of the open box, or Closed
    cameraView,             \* the camera of the last frame, or NoView
    dialogueBox, choiceBox, \* where they are: [left, top], or Fallback
    drawn                   \* ghost: nothing has changed since the last frame

viewVars == <<canvas, player, speaker, dialogue, choice, cameraView, dialogueBox, choiceBox, drawn>>

Closed == << >>
NoView == << >>
Fallback == << >>      \* the style sheet's place at the bottom
Margin == 2 * 8        \* DIALOGUE_EDGE_MARGIN_PX
Gap == 2 * 8           \* DIALOGUE_ANCHOR_GAP_PX

Smaller(a, b) == IF a < b THEN a ELSE b
Larger(a, b) == IF a > b THEN a ELSE b
Clamp(v, low, high) == Smaller(Larger(v, low), high)

-----------------------------------------------------------------------------
\* computeCameraZoom.
CameraZoom(h) == Smaller(16, Larger(2, (IF h > 0 THEN h ELSE 240) \div (TileSize * 14)))

World(zoom, pixels) == 2 * zoom * pixels

\* A mutant: the camera follows the player past the edge.
ClampCameraNot(value, view, size) == value

\* clampCamera.
ClampCamera(value, view, size) ==
    IF view >= size THEN (size - view) \div 2 ELSE Clamp(value, 0, size - view)

\* computeCameraViewport: centred on the player, kept inside the map.
CameraViewport ==
    LET zoom == CameraZoom(canvas.h)
        w == IF canvas.w > 0 THEN canvas.w ELSE 320
        h == IF canvas.h > 0 THEN canvas.h ELSE 240
    IN  [zoom |-> zoom, w |-> 2 * w, h |-> 2 * h,
         x |-> ClampCamera(World(zoom, player.x) - w, 2 * w, World(zoom, MapWidth * TileSize)),
         y |-> ClampCamera(World(zoom, player.y) - h, 2 * h, World(zoom, MapHeight * TileSize))]

CeilTo(end, tile, tiles) == Clamp(-((-end) \div tile), 0, tiles)

\* computeVisibleTileRange, and the same range in drawColliders, along one axis.
VisibleRange(from, length, tile, tiles) ==
    Clamp(from \div tile, 0, tiles)..(CeilTo(from + length, tile, tiles) - 1)

VisibleTiles(v) ==
    LET tile == World(v.zoom, TileSize)
    IN  VisibleRange(v.x, v.w, tile, MapWidth) \X VisibleRange(v.y, v.h, tile, MapHeight)

-----------------------------------------------------------------------------
\* The canvas on the page, and the speaker's tile as the camera v has it there.
PageEdge(o, c) == 2 * (o + Scale * c)
OnPage(v, o, at, world) == 2 * o + Scale * (World(v.zoom, world) - at)

SpeakerRect(v) ==
    [left |-> OnPage(v, Offset.x, v.x, speaker.x * TileSize),
     right |-> OnPage(v, Offset.x, v.x, (speaker.x + 1) * TileSize),
     top |-> OnPage(v, Offset.y, v.y, speaker.y * TileSize),
     bottom |-> OnPage(v, Offset.y, v.y, (speaker.y + 1) * TileSize)]

\* The box's left edge when it is centred on the middle and kept in the canvas.
LeftFor(middle, width) ==
    LET least == 2 * Offset.x + Margin
        most == PageEdge(Offset.x, canvas.w) - 2 * width - Margin
    IN  IF most >= least THEN Clamp(middle - width, least, most) ELSE 2 * Offset.x

\* Above the tile if there is room, else below it, else as far inside as it goes.
TopFor(r, height) ==
    LET above == r.top - Gap - 2 * height
        below == r.bottom + Gap
        top == 2 * Offset.y
        bottom == PageEdge(Offset.y, canvas.h)
    IN  IF above >= top + Margin THEN above
        ELSE IF below + 2 * height + Margin <= bottom THEN below
        ELSE Smaller(Larger(above, top), Larger(top, bottom - 2 * height))

\* speakerPlacement with computeDialoguePlacement.
Placement(v, size) ==
    IF v = NoView THEN Fallback
    ELSE LET r == SpeakerRect(v)
             middle == (r.left + r.right) \div 2
         IN  IF \/ canvas.w = 0 \/ canvas.h = 0
                \/ middle < 2 * Offset.x \/ middle > PageEdge(Offset.x, canvas.w)
                \/ r.top < 2 * Offset.y \/ r.bottom > PageEdge(Offset.y, canvas.h)
             THEN Fallback
             ELSE [left |-> LeftFor(middle, size.w), top |-> TopFor(r, size.h)]

\* placeChoiceBox over an anchored dialogue.
AboveDialogue(box, of, size) ==
    [left |-> LeftFor(box.left + of.w, size.w),
     top |-> Larger(2 * Offset.y + Margin, box.top - Gap - 2 * size.h)]

\* layoutDialogueBoxes with the camera v, for the boxes now open. What is closed
\* goes back to the style sheet's place.
Layout(v, d, c) ==
    LET box == IF d = Closed THEN Fallback ELSE Placement(v, d)
    IN  /\ dialogueBox' = box
        /\ choiceBox' = IF c = Closed THEN Fallback
                        ELSE IF box # Fallback THEN AboveDialogue(box, d, c)
                        ELSE Placement(v, c)

-----------------------------------------------------------------------------
ViewInit ==
    /\ canvas \in Canvas /\ player \in PlayerSpot /\ speaker \in SpeakerSpot
    /\ dialogue = Closed /\ choice = Closed /\ cameraView = NoView
    /\ dialogueBox = Fallback /\ choiceBox = Fallback /\ drawn = FALSE

\* The page resizes the canvas; the player walks; the speaker patrols.
Resize(c) ==
    /\ c # canvas /\ canvas' = c /\ drawn' = FALSE
    /\ UNCHANGED <<player, speaker, dialogue, choice, cameraView, dialogueBox, choiceBox>>

PlayerMoves(p) ==
    /\ p # player /\ player' = p /\ drawn' = FALSE
    /\ UNCHANGED <<canvas, speaker, dialogue, choice, cameraView, dialogueBox, choiceBox>>

SpeakerMoves(s) ==
    /\ s # speaker /\ speaker' = s /\ drawn' = FALSE
    /\ UNCHANGED <<canvas, player, dialogue, choice, cameraView, dialogueBox, choiceBox>>

\* renderDialogue and renderChoice: a line or a choice opens or closes.
RenderDialogue(d) ==
    /\ d # dialogue /\ dialogue' = d /\ drawn' = FALSE
    /\ Layout(cameraView, d, choice)
    /\ UNCHANGED <<canvas, player, speaker, choice, cameraView>>

RenderChoice(c) ==
    /\ c # choice /\ choice' = c /\ drawn' = FALSE
    /\ IF c = Closed THEN UNCHANGED <<dialogueBox, choiceBox>> ELSE Layout(cameraView, dialogue, c)
    /\ UNCHANGED <<canvas, player, speaker, dialogue, cameraView>>

\* render: renderScene, then the boxes.
RenderFrame ==
    /\ cameraView' = CameraViewport /\ drawn' = TRUE
    /\ Layout(CameraViewport, dialogue, choice)
    /\ UNCHANGED <<canvas, player, speaker, dialogue, choice>>

ViewNext ==
    \/ RenderFrame
    \/ \E c \in Canvas : Resize(c)
    \/ \E p \in PlayerSpot : PlayerMoves(p)
    \/ \E s \in SpeakerSpot : SpeakerMoves(s)
    \/ \E d \in DialogueSize \union {Closed} : RenderDialogue(d)
    \/ \E c \in ChoiceSize \union {Closed} : RenderChoice(c)

ViewSpec == ViewInit /\ [][ViewNext]_viewVars

-----------------------------------------------------------------------------
\* A frame shows the whole of the player's tile, and nothing beyond the map unless
\* the map is smaller than the view; then it is centred (computeCameraViewport).
PlayerInView ==
    drawn =>
        LET v == cameraView
            tile == World(v.zoom, TileSize)
            shows(at, length, pos, size) ==
                /\ length >= 2 * tile => at <= pos /\ pos + tile <= at + length
                /\ IF length <= size THEN 0 <= at /\ at + length <= size
                   ELSE (0 - at) - (at + length - size) \in {0, 1}
        IN  /\ shows(v.x, v.w, World(v.zoom, player.x), World(v.zoom, MapWidth * TileSize))
            /\ shows(v.y, v.h, World(v.zoom, player.y), World(v.zoom, MapHeight * TileSize))

\* The tiles drawn are those that meet the view, no more and no fewer: no gap at
\* an edge, whatever fraction of a tile it cuts (computeVisibleTileRange).
DrawsWhatMeetsTheView ==
    cameraView # NoView =>
        LET v == cameraView
            tile == World(v.zoom, TileSize)
            meets(i, at, length) == i * tile < at + length /\ (i + 1) * tile > at
        IN  VisibleTiles(v) = {t \in (0..(MapWidth - 1)) \X (0..(MapHeight - 1)) :
                                  meets(t[1], v.x, v.w) /\ meets(t[2], v.y, v.h)}

Overlaps(box, size, r) ==
    /\ box.left < r.right /\ box.left + 2 * size.w > r.left
    /\ box.top < r.bottom /\ box.top + 2 * size.h > r.top

\* After a frame an anchored dialogue that fits into the canvas is inside it, and it
\* covers the speaker only when neither above nor below has room for it: however
\* the camera, the speaker and the canvas moved since it was opened.
DialogueIsReadable ==
    (drawn /\ dialogueBox # Fallback) =>
        LET r == SpeakerRect(cameraView)
            top == 2 * Offset.y
            bottom == PageEdge(Offset.y, canvas.h)
            room == 2 * dialogue.h + Gap + Margin
        IN  /\ 2 * dialogue.w + 2 * Margin <= 2 * Scale * canvas.w =>
                   /\ dialogueBox.left >= 2 * Offset.x
                   /\ dialogueBox.left + 2 * dialogue.w <= PageEdge(Offset.x, canvas.w)
            /\ 2 * dialogue.h <= 2 * Scale * canvas.h =>
                   dialogueBox.top >= top /\ dialogueBox.top + 2 * dialogue.h <= bottom
            /\ (r.top - top >= room \/ bottom - r.bottom >= room) => ~Overlaps(dialogueBox, dialogue, r)

\* The player is on the canvas, every tile that meets it is drawn, and the dialogue can
\* be read (computeCameraViewport, computeVisibleTileRange, speakerPlacement).
ViewShowsThePlay == PlayerInView /\ DrawsWhatMeetsTheView /\ DialogueIsReadable

\* map-scene.ts:1123-1124 "The choice box follows the dialogue (task 23): stacked
\* just above it": the two do not cover one another.
ChoiceAboveDialogue ==
    (drawn /\ dialogueBox # Fallback /\ choiceBox # Fallback) =>
        choiceBox.top + 2 * choice.h <= dialogueBox.top

-----------------------------------------------------------------------------
\* Where a world point is drawn, in units of 1/(2 zoom) pixels of the canvas.
\* Canvas2D: setTransform(zoom, 0, 0, zoom, -camera * zoom).
CanvasPoint(v, at, p) == v.zoom * (p - at)

\* WebGL: matrices apply from the right, and computeProjection has the scale there.
Affine(k, t) == [k |-> k, t |-> t]
Multiply(a, b) == Affine(a.k * b.k, a.k * b.t + a.t)
GLPoint(v, at, p) ==
    LET m == Multiply(Multiply(Affine(1, 0), Affine(1, 0 - at)), Affine(v.zoom, 0))
    IN  m.k * p + m.t

\* ADR-002.md:87 "Canvas2D doubles as a debug cross-check for GL correctness":
\* both backends draw the player at the same place.
BackendsAgree ==
    drawn => GLPoint(cameraView, cameraView.x, World(cameraView.zoom, player.x))
               = CanvasPoint(cameraView, cameraView.x, World(cameraView.zoom, player.x))
=============================================================================
