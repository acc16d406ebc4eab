-------------------------------- MODULE Input --------------------------------
(* The shared input state of the runtime (runtime/src/input.ts, class Input):   *)
(* the stack of held directions, the queue of fresh direction presses and the   *)
(* one-shot confirm and cancel counters. Every operator takes the state and     *)
(* returns the next one; the consume operators come as a test and an effect.    *)
EXTENDS Naturals, Sequences, SequencesExt

CONSTANTS
    Dir,     \* the movement directions
    NoDir    \* the null of heldDirection

ASSUME NoDirAssumption == NoDir \notin Dir

Actions == {"confirm", "cancel"}

InputState == [stack : Seq(Dir), edges : Seq(Dir), held : Dir \union {NoDir},
               pressed : SUBSET Actions, queued : [Actions -> Nat]]

NewInput == [stack |-> << >>, edges |-> << >>, held |-> NoDir,
             pressed |-> {}, queued |-> [a \in Actions |-> 0]]

Newest(stack) == IF stack = << >> THEN NoDir ELSE Last(stack)

\* A direction that is already held is not pressed again.
PressDirection(in, d) ==
    IF Contains(in.stack, d) THEN in
    ELSE [in EXCEPT !.stack = Append(@, d), !.edges = Append(@, d), !.held = d]

ReleaseDirection(in, d) ==
    LET rest == RemoveFirst(in.stack, d)
    IN  [in EXCEPT !.stack = rest, !.held = Newest(rest)]

HasDirectionEdge(in) == in.edges # << >>

ConsumeDirectionEdge(in) == [in EXCEPT !.edges = Tail(@)]

\* queueConfirm and queueCancel: one tap, one effect to consume.
Queue(in, a) == [in EXCEPT !.queued[a] = @ + 1]

HasQueued(in, a) == in.queued[a] > 0

Consume(in, a) == [in EXCEPT !.queued[a] = @ - 1]

\* A mutant: every keydown counts, the ones the keyboard repeats too.
PressActionEvery(in, a, repeat) ==
    [Queue(in, a) EXCEPT !.pressed = @ \union {a}]

\* keydown of a confirm or cancel key; a repeated keydown queues nothing.
PressAction(in, a, repeat) ==
    [(IF repeat THEN in ELSE Queue(in, a)) EXCEPT !.pressed = @ \union {a}]

ReleaseAction(in, a) == [in EXCEPT !.pressed = @ \ {a}]

\* clear(): on blur, on dispose.
Clear(in) == NewInput
==============================================================================
