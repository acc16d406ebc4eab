------------------------------ MODULE MapScene ------------------------------
(* The playable map (runtime/src/map-scene.ts) with the two things its frame    *)
(* drives: grid collision (runtime/src/movement.ts) and the rule-based patrol   *)
(* of an NPC (core/src/behavior/behavior.ts). One frame is one action, Update:  *)
(* the operators below are the steps the frame takes, each from a scene to the  *)
(* next one. Between frames come the events of the page: keys and pad, a tap on *)
(* the dialogue box, the save and load keys, the answer of the storage, exit.   *)
(* A position counts Unit parts of a tile, and time counts fixed steps.         *)
EXTENDS Input, Integers, FiniteSets

CONSTANTS
    Floor,         \* tiles <<x, y>> that are inside the map and not solid
    StartTile,     \* the player's first tile
    Events,        \* the map's events in authoring order, records [at, solid, route, idle, trigger]
    Scripts,       \* what a page may do: sequences of "say", "ask" and "flip"
    Options,       \* number of options of a choice
    Devices,       \* number of Input instances: 1 keyboard, 2 with the virtual controls
    Unit,          \* parts of a tile
    Speed,         \* parts an NPC walks in a fixed step
    StepTicks,     \* stepDuration in fixed steps
    RepeatTicks,   \* REPEAT_DELAY_SECONDS in fixed steps
    MaxInputs      \* bound: key presses, taps and storage calls in a behaviour

Vector == [up |-> <<0, -1>>, down |-> <<0, 1>>, left |-> <<-1, 0>>, right |-> <<1, 0>>]

ASSUME MapAssumption ==
    /\ Dir \subseteq DOMAIN Vector /\ StartTile \in Floor /\ Devices \in 1..2
    /\ Floor \subseteq Nat \X Nat
    /\ \A script \in Scripts : script \in Seq({"say", "ask", "flip"})
    /\ {Unit, Speed, StepTicks, RepeatTicks, Options} \subseteq Nat \ {0}
    /\ MaxInputs \in Nat

VARIABLES
    s,           \* the scene
    saved,       \* the save in the storage: << >> or a one-element sequence
    loading,     \* a load waits for the storage
    inputsMade,  \* key presses, taps and storage calls so far
    heldFor      \* ghost: frames the same direction has been held, with nothing else to do

sceneVars == <<s, saved, loading, inputsMade, heldFor>>

Tile(p) == <<p[1] \div Unit, p[2] \div Unit>>
PositionOf(tile) == <<tile[1] * Unit, tile[2] * Unit>>
Plus(p, v, n) == <<p[1] + n * v[1], p[2] + n * v[2]>>
Size(n) == IF n < 0 THEN -n ELSE n
Sign(n) == IF n < 0 THEN -1 ELSE IF n = 0 THEN 0 ELSE 1

\* aabbsOverlapStrict of two bodies of one tile: touching is not overlapping.
Overlaps(p, q) == Size(p[1] - q[1]) < Unit /\ Size(p[2] - q[2]) < Unit

NewNpc(e) == [pos |-> PositionOf(e.at), target |-> 1, phase |-> "moving", left |-> 0]

SceneInit ==
    /\ s = [entered |-> TRUE, inputs |-> [i \in 1..Devices |-> NewInput],
            pos |-> PositionOf(StartTile), facing |-> "down",
            step |-> << >>, lastDir |-> NoDir, accum |-> 0,
            dialogue |-> 0, choice |-> << >>, answer |-> 0, switch |-> FALSE,
            npcs |-> [i \in DOMAIN Events |-> NewNpc(Events[i])]]
    /\ saved = << >> /\ loading = FALSE /\ inputsMade = 0 /\ heldFor = 0

-----------------------------------------------------------------------------
(* Input of the scene: the keyboard first, then the virtual controls.           *)

Holding(x) == {i \in 1..Devices : x.inputs[i].held # NoDir}
WithEdge(x) == {i \in 1..Devices : HasDirectionEdge(x.inputs[i])}
WithTap(x, a) == {i \in 1..Devices : HasQueued(x.inputs[i], a)}
First(I) == CHOOSE i \in I : \A j \in I : i <= j

CurrentDirection(x) == IF Holding(x) = {} THEN NoDir ELSE x.inputs[First(Holding(x))].held

ConsumeEdge(x) == [x EXCEPT !.inputs[First(WithEdge(x))] = ConsumeDirectionEdge(@)]
NextEdge(x) == x.inputs[First(WithEdge(x))].edges[1]
ConsumeTap(x, a) == [x EXCEPT !.inputs[First(WithTap(x, a))] = Consume(@, a)]

-----------------------------------------------------------------------------
(* The player: advanceStep, handleMovement, tryStep.                            *)

StandsFree(x, p) ==
    /\ Tile(p) \in Floor
    /\ \A i \in DOMAIN Events : Events[i].solid => ~Overlaps(p, x.npcs[i].pos)

AdvanceStep(x) ==
    IF x.step = << >> THEN x
    ELSE IF x.step[1].left > 1 THEN [x EXCEPT !.step[1].left = @ - 1]
    ELSE [x EXCEPT !.pos = x.step[1].to, !.step = << >>]

\* A mutant: the step is taken without asking checkStep.
TryStepUnchecked(x, d) ==
    [x EXCEPT !.facing = d,
              !.step = <<[to |-> Plus(x.pos, Vector[d], Unit), left |-> StepTicks]>>]

TryStep(x, d) ==
    LET to == Plus(x.pos, Vector[d], Unit)
    IN  IF StandsFree(x, to)
        THEN [x EXCEPT !.facing = d, !.step = <<[to |-> to, left |-> StepTicks]>>]
        ELSE [x EXCEPT !.facing = d]

\* A mutant: the repeat delay is waited for again before every step.
RepeatHeldSlow(x, held) ==
    LET accum == IF x.accum >= RepeatTicks THEN RepeatTicks ELSE x.accum + 1
        y == [x EXCEPT !.accum = accum]
    IN  IF y.accum >= RepeatTicks /\ y.step = << >>
        THEN TryStep([y EXCEPT !.accum = 0], held) ELSE y

\* The same direction is still held: time counts while the step animates too.
RepeatHeld(x, held) ==
    LET accum == IF x.accum >= RepeatTicks THEN RepeatTicks ELSE x.accum + 1
        y == [x EXCEPT !.accum = accum]
    IN  IF accum >= RepeatTicks /\ y.step = << >> THEN TryStep(y, held) ELSE y

TurnTo(x, d) ==
    LET y == [x EXCEPT !.accum = 0, !.lastDir = d]
    IN  IF y.step = << >> THEN TryStep(y, d) ELSE y

HandleMovement(x) ==
    LET held == CurrentDirection(x) IN
    IF x.dialogue > 0 THEN x
    ELSE IF x.step = << >> /\ WithEdge(x) # {} THEN TurnTo(ConsumeEdge(x), NextEdge(x))
    ELSE IF held = NoDir THEN [x EXCEPT !.accum = 0, !.lastDir = NoDir]
    ELSE IF held # x.lastDir THEN TurnTo(x, held)
    ELSE RepeatHeld(x, held)

-----------------------------------------------------------------------------
(* Talking: handleConfirm, handleCancel, tryInteract, and the listeners of the  *)
(* dialogue and choice events that the page's commands emit.                    *)

\* facedInteractable: the events whose live body is on the faced tile.
Faced(x) ==
    LET rounded == <<(x.pos[1] + Unit \div 2) \div Unit, (x.pos[2] + Unit \div 2) \div Unit>>
        ahead == PositionOf(Plus(rounded, Vector[x.facing], 1))
    IN  {i \in DOMAIN Events : Overlaps(ahead, x.npcs[i].pos)}

Times(script, command) == Cardinality({i \in DOMAIN script : script[i] = command})

\* The commands emit one after the other: lines queue up, a choice opens.
Emitted(x, script) ==
    [x EXCEPT !.dialogue = @ + Times(script, "say"),
              !.choice = IF Times(script, "ask") > 0 THEN <<0>> ELSE @,
              !.switch = IF Times(script, "flip") % 2 = 1 THEN ~@ ELSE @]

TryInteract(x, script) == IF Faced(x) = {} THEN x ELSE Emitted(x, script)

AdvanceDialogue(x) == IF x.dialogue = 0 THEN x ELSE [x EXCEPT !.dialogue = @ - 1]

HandleConfirm(x, script) ==
    IF WithTap(x, "confirm") = {} THEN x
    ELSE LET y == ConsumeTap(x, "confirm")
         IN  IF y.dialogue > 0 THEN AdvanceDialogue(y)
             ELSE IF y.step # << >> THEN y
             ELSE TryInteract(y, script)

HandleCancel(x) ==
    IF WithTap(x, "cancel") = {} THEN x
    ELSE [ConsumeTap(x, "cancel") EXCEPT !.dialogue = 0]

AnswerChoice(x, index) == [x EXCEPT !.choice = << >>, !.answer = index]

MoveSelection(x, edge) ==
    [x EXCEPT !.choice[1] = (@ + (IF edge = "up" THEN -1 ELSE 1) + Options) % Options]

HandleChoiceInput(x) ==
    LET edge == IF WithEdge(x) = {} THEN NoDir ELSE NextEdge(x)
        y == IF edge = NoDir THEN x ELSE ConsumeEdge(x)
    IN  IF edge \in {"up", "down"} THEN MoveSelection(y, edge)
        ELSE IF WithTap(y, "confirm") # {}
        THEN AnswerChoice(ConsumeTap(y, "confirm"), y.choice[1])
        ELSE IF WithTap(y, "cancel") # {}
        THEN AnswerChoice(ConsumeTap(y, "cancel"), -1)
        ELSE y

-----------------------------------------------------------------------------
(* RuleBasedBehavior.update and applyBehaviorDecision. Legs are axis-aligned,   *)
(* as in the sample maps: the unit vector has one component.                    *)

Arrives(p, q) == Size(p[1] - q[1]) + Size(p[2] - q[2]) <= Speed

Walk(e, n) ==
    LET goal == PositionOf(e.route[n.target])
        dir == <<Sign(goal[1] - n.pos[1]), Sign(goal[2] - n.pos[2])>>
    IN  IF Arrives(n.pos, goal)
        THEN [n EXCEPT !.pos = goal, !.phase = "idle", !.left = e.idle]
        ELSE [n EXCEPT !.pos = Plus(@, dir, Speed)]

\* A mutant: the pause ends without a next waypoint.
LeaveWaypointSame(e, n) == [n EXCEPT !.phase = "moving", !.left = 0]

LeaveWaypoint(e, n) ==
    [n EXCEPT !.phase = "moving", !.left = 0, !.target = (@ % Len(e.route)) + 1]

\* A switched NPC greets the player and stands.
Patrol(e, n, switch) ==
    CASE e.route = << >> -> n
      [] e.trigger /\ switch -> n
      [] Len(e.route) = 1 /\ n.pos = PositionOf(e.route[1]) -> n
      [] n.phase = "idle" /\ n.left > 1 -> [n EXCEPT !.left = @ - 1]
      [] n.phase = "idle" -> Walk(e, LeaveWaypoint(e, n))
      [] OTHER -> Walk(e, n)

UpdateBehaviors(x) ==
    [x EXCEPT !.npcs = [i \in DOMAIN Events |-> Patrol(Events[i], x.npcs[i], x.switch)]]

-----------------------------------------------------------------------------
Busy(x) == x.dialogue > 0 \/ x.choice # << >>

Frame(x, script) ==
    LET moved == AdvanceStep(x) IN
    UpdateBehaviors(
        IF moved.choice # << >> THEN HandleChoiceInput(moved)
        ELSE HandleCancel(HandleConfirm(HandleMovement(moved), script)))

Update ==
    /\ s.entered
    /\ \E script \in Scripts : s' = Frame(s, script)
    /\ heldFor' = IF \/ CurrentDirection(s) = NoDir \/ WithEdge(s) # {} \/ Busy(s) \/ Busy(s')
                  THEN 0
                  ELSE IF heldFor > RepeatTicks THEN heldFor ELSE heldFor + 1
    /\ UNCHANGED <<saved, loading, inputsMade>>

Spend == inputsMade < MaxInputs /\ inputsMade' = inputsMade + 1

Press(i, d) ==
    /\ s.entered /\ ~Contains(s.inputs[i].stack, d) /\ Spend
    /\ s' = [s EXCEPT !.inputs[i] = PressDirection(@, d)]
    /\ heldFor' = 0
    /\ UNCHANGED <<saved, loading>>

Release(i, d) ==
    /\ s.entered /\ Contains(s.inputs[i].stack, d)
    /\ s' = [s EXCEPT !.inputs[i] = ReleaseDirection(@, d)]
    /\ heldFor' = 0
    /\ UNCHANGED <<saved, loading, inputsMade>>

Tap(i, a) ==
    /\ s.entered /\ Spend
    /\ s' = [s EXCEPT !.inputs[i] = Queue(@, a)]
    /\ UNCHANGED <<saved, loading, heldFor>>

\* pointerdown on the dialogue box, which is shown while there is a line.
TapDialogue ==
    /\ s.entered /\ s.dialogue > 0
    /\ s' = AdvanceDialogue(s)
    /\ UNCHANGED <<saved, loading, inputsMade, heldFor>>

\* The snapshot is taken when the key goes down.
Save ==
    /\ s.entered /\ Spend
    /\ saved' = <<[pos |-> s.pos, facing |-> s.facing, answer |-> s.answer, switch |-> s.switch]>>
    /\ UNCHANGED <<s, loading, heldFor>>

Load ==
    /\ s.entered /\ ~loading /\ Spend
    /\ loading' = TRUE
    /\ UNCHANGED <<s, saved, heldFor>>

LoadAnswers ==
    /\ loading
    /\ loading' = FALSE
    /\ s' = IF saved = << >> THEN s
            ELSE [s EXCEPT !.pos = saved[1].pos, !.facing = saved[1].facing,
                           !.answer = saved[1].answer, !.switch = saved[1].switch]
    /\ UNCHANGED <<saved, inputsMade, heldFor>>

Exit ==
    /\ s.entered
    /\ s' = [s EXCEPT !.entered = FALSE, !.inputs = [i \in 1..Devices |-> NewInput],
                      !.dialogue = 0, !.choice = << >>,
                      !.step = << >>, !.lastDir = NoDir, !.accum = 0]
    /\ heldFor' = 0
    /\ UNCHANGED <<saved, loading, inputsMade>>

SceneNext ==
    \/ Update \/ TapDialogue \/ Save \/ Load \/ LoadAnswers \/ Exit
    \/ \E i \in 1..Devices :
         \/ \E d \in Dir : Press(i, d) \/ Release(i, d)
         \/ \E a \in Actions : Tap(i, a)

SceneSpec == SceneInit /\ [][SceneNext]_sceneVars

\* The game loop gives every scene its frames until it is left.
SceneFairSpec == SceneSpec /\ WF_sceneVars(Update)

-----------------------------------------------------------------------------
Blocked(x, d) == ~StandsFree(x, Plus(x.pos, Vector[d], Unit))

\* The scene keeps its types; a choice points at one of its options
\* (map-scene.ts, handleChoiceInput) and an exited scene has no overlay (exit).
SceneTypeOK ==
    /\ s.entered \in BOOLEAN /\ s.inputs \in [1..Devices -> InputState]
    /\ s.facing \in DOMAIN Vector /\ s.accum \in 0..RepeatTicks
    /\ s.lastDir \in Dir \union {NoDir} /\ s.dialogue \in Nat
    /\ s.choice = << >> \/ s.choice[1] \in 0..(Options - 1)
    /\ s.answer \in -1..(Options - 1)
    /\ s.entered \/ ~Busy(s)
    /\ loading \in BOOLEAN /\ inputsMade \in 0..MaxInputs

\* The player stands on whole tiles of the floor, whatever mixture of steps,
\* presses, frames, saves and loads brought it there (tryStep, load, advanceStep).
PlayerOnFloor ==
    /\ s.pos = PositionOf(Tile(s.pos)) /\ Tile(s.pos) \in Floor
    /\ s.step # << >> => Tile(s.step[1].to) \in Floor

\* Holding a direction past the delay walks on without a pause: the frame that
\* ends a step begins the next, unless something is in the way (handleMovement,
\* task 22). The NPCs are those the frame saw, before it moved them.
HoldWalksOn ==
    [][Update /\ heldFor' > RepeatTicks
         => s'.step # << >> \/ Blocked([s' EXCEPT !.npcs = s.npcs], s'.lastDir)]_sceneVars

\* While a line or a choice is open no step begins and the choice keeps its
\* question (update, handleMovement).
TalkHoldsPlayer ==
    [][Update /\ Busy(s) /\ s.step = << >> => s'.step = << >> /\ s'.pos = s.pos]_sceneVars

\* An NPC with a route visits every waypoint again and again while the game runs,
\* wherever the player stands (RuleBasedBehavior.update).
PatrolVisitsAll ==
    \A i \in DOMAIN Events : \A w \in DOMAIN Events[i].route :
        []<>(s.npcs[i].pos = PositionOf(Events[i].route[w]) \/ ~s.entered \/ s.switch)

\* docs/06-architecture.md:305: a player "cannot enter the NPC's tile".
EntersNoBody ==
    [][Update /\ s'.pos # s.pos
         => \A i \in DOMAIN Events : Events[i].solid => ~Overlaps(s'.pos, s.npcs[i].pos)]_sceneVars

\* map-scene.ts:632 "restore player": what a load restored is where the player is
\* until it is moved on from there.
LoadedPositionSticks ==
    [][s'.pos # s.pos /\ ~(LoadAnswers \/ Exit)
         => Size(s'.pos[1] - s.pos[1]) + Size(s'.pos[2] - s.pos[2]) = Unit]_sceneVars

\* map-scene.ts:965 "start moving in the new direction immediately": a frame that
\* leaves the player standing with a direction held past its first press has
\* found the way blocked.
TurnsAtOnce ==
    [][Update /\ s.step # << >> /\ s'.step = << >> /\ ~Busy(s) /\ ~Busy(s')
         /\ s.lastDir # NoDir /\ CurrentDirection(s) = s.lastDir
         /\ CurrentDirection(s') = s'.lastDir /\ s.facing # s'.lastDir
         => Blocked([s' EXCEPT !.npcs = s.npcs], s'.lastDir)]_sceneVars

\* map-scene.ts:375 "movement/dialogue are frozen": an open choice keeps the
\* dialogue behind it.
ChoiceFreezesDialogue ==
    [][s.choice # << >> /\ s'.choice # << >> => s'.dialogue = s.dialogue]_sceneVars
\* The player stands on whole tiles of the floor in every state of the right types
\* (tryStep, load, advanceStep).
PlayerStandsRight == SceneTypeOK /\ PlayerOnFloor

\* A direction held past the delay walks on without a pause, but no step begins
\* behind an open line or choice (handleMovement, update).
WalkFollowsHands == HoldWalksOn /\ TalkHoldsPlayer
=============================================================================
