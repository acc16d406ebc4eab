---------------------------- MODULE InputDevices ----------------------------
(* The event handlers that feed Input: attachKeyboard (keydown with its repeats,*)
(* keyup, blur) and the virtual controls (addPadButton, addActionButton). The   *)
(* environment holds and lets go of keys whether or not the page has the focus: *)
(* a keyup while it is away is never delivered. pointerleave is delivered to a  *)
(* pad button no pointer pressed, as a mouse that passes over it does.          *)
EXTENDS Input, FiniteSets

CONSTANTS
    Key,         \* direction keys
    KeyDir,      \* KEY_TO_DIRECTION, a function from Key to Dir
    PadDir,      \* the directions that have a pad button: {} without virtual controls
    MaxPresses   \* bound: presses of all keys and buttons in a behaviour

ASSUME DevicesAssumption ==
    /\ KeyDir \in [Key -> Dir] /\ PadDir \subseteq Dir /\ MaxPresses \in Nat
    /\ Key \cap Actions = {}

VARIABLES
    input,      \* the Input of the page
    down,       \* environment: keys (and action names) that are down
    padDown,    \* environment: pad buttons under a pressed pointer
    focused,    \* environment: the page has the focus
    order,      \* ghost: direction keys the page saw go down and still down, oldest first
    presses,    \* ghost: presses so far
    taps,       \* ghost: presses of each action
    effects     \* ghost: confirm and cancel effects a frame has consumed

deviceVars == <<input, down, padDown, focused, order, presses, taps, effects>>

DeviceInit ==
    /\ input = NewInput
    /\ down = {} /\ padDown = {} /\ focused = TRUE
    /\ order = << >> /\ presses = 0
    /\ taps = [a \in Actions |-> 0] /\ effects = [a \in Actions |-> 0]

KeyDown(k) ==
    /\ k \notin down /\ presses < MaxPresses
    /\ presses' = presses + 1 /\ down' = down \union {k}
    /\ IF focused
       THEN input' = PressDirection(input, KeyDir[k]) /\ order' = Append(order, k)
       ELSE UNCHANGED <<input, order>>
    /\ UNCHANGED <<padDown, focused, taps, effects>>

KeyUp(k) ==
    /\ k \in down
    /\ down' = down \ {k} /\ order' = RemoveFirst(order, k)
    /\ input' = IF focused THEN ReleaseDirection(input, KeyDir[k]) ELSE input
    /\ UNCHANGED <<padDown, focused, presses, taps, effects>>

ActionDown(a) ==
    /\ a \notin down /\ presses < MaxPresses
    /\ presses' = presses + 1 /\ down' = down \union {a}
    /\ IF focused
       THEN input' = PressAction(input, a, FALSE) /\ taps' = [taps EXCEPT ![a] = @ + 1]
       ELSE UNCHANGED <<input, taps>>
    /\ UNCHANGED <<padDown, focused, order, effects>>

\* A held key repeats; only the page with the focus gets the keydown.
ActionRepeats(a) ==
    /\ a \in down /\ focused
    /\ input' = PressAction(input, a, TRUE)
    /\ UNCHANGED <<down, padDown, focused, order, presses, taps, effects>>

ActionUp(a) ==
    /\ a \in down
    /\ down' = down \ {a}
    /\ input' = IF focused THEN ReleaseAction(input, a) ELSE input
    /\ UNCHANGED <<padDown, focused, order, presses, taps, effects>>

PadPress(d) ==
    /\ d \in PadDir \ padDown /\ presses < MaxPresses
    /\ presses' = presses + 1 /\ padDown' = padDown \union {d}
    /\ input' = PressDirection(input, d)
    /\ UNCHANGED <<down, focused, order, taps, effects>>

\* pointerup, pointercancel and pointerleave.
PadRelease(d) ==
    /\ d \in PadDir
    /\ padDown' = padDown \ {d}
    /\ input' = ReleaseDirection(input, d)
    /\ UNCHANGED <<down, focused, order, presses, taps, effects>>

\* The A and B buttons of the virtual controls.
ButtonTap(a) ==
    /\ PadDir # {} /\ presses < MaxPresses
    /\ presses' = presses + 1 /\ taps' = [taps EXCEPT ![a] = @ + 1]
    /\ input' = Queue(input, a)
    /\ UNCHANGED <<down, padDown, focused, order, effects>>

\* A mutant: a page that loses the focus keeps its keys.
BlurKeepsKeys ==
    /\ focused
    /\ focused' = FALSE
    /\ UNCHANGED <<input, down, padDown, order, presses, taps, effects>>

Blur ==
    /\ focused
    /\ focused' = FALSE /\ order' = << >>
    /\ input' = Clear(input)
    /\ UNCHANGED <<down, padDown, presses, taps, effects>>

Focus ==
    /\ ~focused
    /\ focused' = TRUE
    /\ UNCHANGED <<input, down, padDown, order, presses, taps, effects>>

\* A frame takes one effect, if there is one.
FrameConsumes(a) ==
    /\ HasQueued(input, a)
    /\ input' = Consume(input, a)
    /\ effects' = [effects EXCEPT ![a] = @ + 1]
    /\ UNCHANGED <<down, padDown, focused, order, presses, taps>>

FrameTakesEdge ==
    /\ HasDirectionEdge(input)
    /\ input' = ConsumeDirectionEdge(input)
    /\ UNCHANGED <<down, padDown, focused, order, presses, taps, effects>>

DeviceNext ==
    \/ \E k \in Key : KeyDown(k) \/ KeyUp(k)
    \/ \E a \in Actions :
         ActionDown(a) \/ ActionRepeats(a) \/ ActionUp(a) \/ ButtonTap(a) \/ FrameConsumes(a)
    \/ \E d \in PadDir : PadPress(d) \/ PadRelease(d)
    \/ Blur \/ Focus \/ FrameTakesEdge

DeviceSpec == DeviceInit /\ [][DeviceNext]_deviceVars

-----------------------------------------------------------------------------
\* The state stays in its types (input.ts, the fields of Input).
DeviceTypeOK ==
    /\ input \in InputState
    /\ down \subseteq Key \union Actions /\ padDown \subseteq PadDir
    /\ focused \in BOOLEAN /\ order \in Seq(Key) /\ presses \in 0..MaxPresses
    /\ taps \in [Actions -> Nat] /\ effects \in [Actions -> Nat]

\* heldDirection is a cache: it is the newest entry of the stack, which holds a
\* direction once, after any sequence of presses, releases and clears
\* (pressDirection, releaseDirection, clear).
HeldIsNewest ==
    /\ input.held = Newest(input.stack)
    /\ IsInjective(input.stack)

\* No direction stays held with nothing holding it: the player never walks on by
\* itself, even when the keyup went to another window (onBlur).
NoStuckDirection ==
    \A d \in ToSet(input.stack) :
        d \in padDown \/ \E k \in down : k \in Key /\ KeyDir[k] = d

\* One press has at most one effect: holding the key, the repeats of the keyboard
\* and the frames between them never make a second one (consumeConfirm,
\* consumeCancel, the repeat test of onKeyDown).
OneEffectPerTap ==
    \A a \in Actions : effects[a] + input.queued[a] <= taps[a]

\* The direction that moves the player is the one of the key pressed last among
\* the keys that are held (the header of input.ts).
LastPressedWins ==
    padDown = {} =>
        input.held = IF order = << >> THEN NoDir ELSE KeyDir[Last(order)]
\* The held direction is the newest of the stack, and no direction stays held with
\* nothing holding it, after any presses, releases and losses of the focus
\* (pressDirection, releaseDirection, onBlur).
HeldFollowsHands == DeviceTypeOK /\ NoStuckDirection /\ HeldIsNewest
=============================================================================
