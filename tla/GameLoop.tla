------------------------------ MODULE GameLoop ------------------------------
(* The fixed-step loop of the runtime (runtime/src/game-loop.ts): start, stop,  *)
(* and the frame the browser calls back. A frame runs a while loop of updates,  *)
(* and an update may call stop, or stop and start, on the loop that runs it: a  *)
(* frame is therefore several actions, one per update. Time counts milliseconds *)
(* of a coarse clock; the browser gives its frames in order of time.            *)
EXTENDS Integers, FiniteSets, Sequences

CONSTANTS
    FixedDt,       \* the simulation step
    MaxFrameDt,    \* the clamp of one frame
    MaxTime,       \* bound: the clock
    MaxStarts,     \* bound: calls of start
    MaxFrames,     \* bound: frames asked for
    ManualBack,    \* how far back in time a tick called by hand may lie
    Reentrant      \* updates may stop and start the loop

ASSUME LoopAssumption ==
    /\ {FixedDt, MaxFrameDt} \subseteq Nat \ {0} /\ FixedDt <= MaxFrameDt
    /\ {MaxTime, MaxStarts, MaxFrames, ManualBack} \subseteq Nat
    /\ Reentrant \in BOOLEAN

None == << >>    \* the null of lastTimeMs

VARIABLES
    running,       \* runningValue
    handle,        \* rafHandle: a frame id, 0 for null
    last,          \* lastTimeMs
    accumulator,
    asked,         \* environment: frames the browser will call
    inFrame,       \* the frame being run: 0 none, otherwise its id (-1: a manual tick)
    inUpdate,      \* an update of the running frame has been called
    clock,         \* environment: the newest time a frame was given
    nextId,        \* frame ids handed out so far
    starts,        \* calls of start so far
    updates,       \* ghost: fixed steps simulated since the last start
    since          \* ghost: clock of the first tick since the last start

loopVars == <<running, handle, last, accumulator, asked, inFrame, inUpdate, clock, nextId, starts,
          updates, since>>

LoopInit ==
    /\ running = FALSE /\ handle = 0 /\ last = None /\ accumulator = 0
    /\ asked = {} /\ inFrame = 0 /\ inUpdate = FALSE /\ clock = 0 /\ nextId = 0 /\ starts = 0
    /\ updates = 0 /\ since = None

\* raf: one more frame is asked for and its handle kept.
AskFrame ==
    /\ nextId' = nextId + 1
    /\ handle' = nextId + 1 /\ asked' = asked \union {nextId + 1}

\* Calls come from outside a frame, or from an update of the running one.
MayCall == inFrame = 0 \/ (Reentrant /\ inUpdate)

Start ==
    /\ MayCall /\ ~running /\ starts < MaxStarts
    /\ starts' = starts + 1
    /\ running' = TRUE /\ last' = None /\ accumulator' = 0
    /\ updates' = 0 /\ since' = None
    /\ AskFrame
    /\ UNCHANGED <<inFrame, inUpdate, clock>>

Stop ==
    /\ MayCall /\ running
    /\ running' = FALSE /\ handle' = 0 /\ last' = None
    /\ asked' = asked \ {handle}
    /\ UNCHANGED <<accumulator, inFrame, inUpdate, clock, nextId, starts, updates, since>>

Clamp(dt) == IF dt < 0 THEN 0 ELSE IF dt > MaxFrameDt THEN MaxFrameDt ELSE dt

\* The first half of tick: the time that has passed is added up.
TickTime(t) ==
    /\ last' = <<t>>
    /\ accumulator' = IF last = None THEN accumulator ELSE accumulator + Clamp(t - last[1])
    /\ since' = IF last = None /\ since = None THEN <<t>> ELSE since

\* The browser calls a frame it was asked for; a stopped loop ignores it.
FrameBegins(id, t) ==
    /\ inFrame = 0 /\ id \in asked /\ t >= clock /\ nextId < MaxFrames
    /\ asked' = asked \ {id} /\ clock' = t /\ inFrame' = id
    /\ IF running THEN TickTime(t) ELSE UNCHANGED <<last, accumulator, since>>
    /\ UNCHANGED <<running, handle, inUpdate, nextId, starts, updates>>

\* tick called by hand, as the tests and previews do.
ManualTick(t) ==
    /\ inFrame = 0 /\ running /\ t >= clock - ManualBack
    /\ inFrame' = -1 /\ clock' = IF t > clock THEN t ELSE clock
    /\ TickTime(t)
    /\ UNCHANGED <<running, handle, asked, inUpdate, nextId, starts, updates>>

\* One turn of the while loop: the update is called, and the step subtracted when
\* it returns, from whatever the accumulator then is.
UpdateBegins ==
    /\ inFrame # 0 /\ ~inUpdate /\ accumulator >= FixedDt
    /\ inUpdate' = TRUE /\ updates' = updates + 1
    /\ UNCHANGED <<running, handle, last, accumulator, asked, inFrame, clock, nextId, starts, since>>

\* A mutant: half of the step is kept for the next turn.
UpdateReturnsHalf ==
    /\ inUpdate
    /\ inUpdate' = FALSE /\ accumulator' = accumulator - (FixedDt \div 2)
    /\ UNCHANGED <<running, handle, last, asked, inFrame, clock, nextId, starts, updates, since>>

UpdateReturns ==
    /\ inUpdate
    /\ inUpdate' = FALSE /\ accumulator' = accumulator - FixedDt
    /\ UNCHANGED <<running, handle, last, asked, inFrame, clock, nextId, starts, updates, since>>

\* The scene is rendered and the next frame asked for.
FrameEnds ==
    /\ inFrame # 0 /\ ~inUpdate /\ accumulator < FixedDt
    /\ inFrame' = 0
    /\ IF running /\ inFrame > 0 THEN AskFrame ELSE UNCHANGED <<handle, asked, nextId>>
    /\ UNCHANGED <<running, last, accumulator, inUpdate, clock, starts, updates, since>>

LoopNext ==
    \/ Start \/ Stop \/ UpdateBegins \/ UpdateReturns \/ FrameEnds
    \/ \E t \in 0..MaxTime :
         ManualTick(t) \/ \E id \in asked : FrameBegins(id, t)

LoopSpec == LoopInit /\ [][LoopNext]_loopVars

-----------------------------------------------------------------------------
\* The variables keep their types (game-loop.ts, the fields of GameLoop).
LoopTypeOK ==
    /\ running \in BOOLEAN /\ handle \in 0..nextId /\ asked \subseteq 1..nextId
    /\ last = None \/ last[1] \in 0..MaxTime
    /\ accumulator \in -FixedDt..(FixedDt - 1 + MaxFrameDt) /\ inUpdate \in BOOLEAN /\ inFrame \in -1..nextId
    /\ clock \in 0..MaxTime /\ updates \in Nat /\ starts \in 0..MaxStarts

\* A running loop has one frame on its way, the one it can cancel, and a stopped
\* loop has none: the game never runs at twice its speed (start, stop, frame).
OneFrameChain ==
    /\ Cardinality(asked) <= 1
    /\ inFrame = 0 => asked = (IF running THEN {handle} ELSE {})

\* The simulation never runs ahead of the time the frames were given (tick).
SimulationKeepsTime ==
    updates * FixedDt <= (IF since = None THEN 0 ELSE clock - since[1])

\* game-loop.ts:51 "runs until `stop()`": a stopped loop calls no update.
StoppedRunsNothing == [][UpdateBegins => running]_loopVars
\* A running loop has one frame on its way and a stopped one none; simulated time
\* never runs ahead of the frames' clock (start, stop, frame, tick).
LoopKeepsTime == LoopTypeOK /\ OneFrameChain /\ SimulationKeepsTime
=============================================================================
