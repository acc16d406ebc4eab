----------------------------- MODULE PlayProofs -----------------------------
(***************************************************************************)
(* What the player touches, for any keys, pads and maps and any number of  *)
(* presses.  The devices: the held direction is the newest one the page    *)
(* knows and something holds it, and a press has at most one effect.  The  *)
(* loop: one frame is on its way, and the simulation keeps the frames'     *)
(* time.  The scene: the player stands on the floor, what is held walks on *)
(* and nobody walks behind an open talk.                                   *)
(***************************************************************************)
EXTENDS InputDevices, MapScene, GameLoop, ListLemmas, FiniteSetTheorems

-----------------------------------------------------------------------------
(* The input state                                                          *)

\* The input is in its types and its stack holds a direction once; the newest is held.
InputOK(in) == in \in InputState /\ in.held = Newest(in.stack) /\ IsInjective(in.stack)

\* The newest of a stack is a direction, or none.
LEMMA NewestIsHeld ==
  ASSUME NEW q \in Seq(Dir)
  PROVE  Newest(q) \in Dir \union {NoDir}
<1>1. CASE q = << >> BY <1>1 DEF Newest
<1>2. CASE q # << >>
  <2>1. Len(q) \in DOMAIN q BY <1>2
  <2> QED BY <1>2, <2>1 DEF Newest, Last
<1> QED BY <1>1, <1>2

\* A new input is empty.
LEMMA NewInputOK == InputOK(NewInput) /\ ToSet(NewInput.stack) = {}
<1>1. << >> \in Seq(Dir) /\ \A i \in DOMAIN << >> : FALSE OBVIOUS
<1>2. [a \in Actions |-> 0] \in [Actions -> Nat] OBVIOUS
<1>3. NewInput \in InputState BY <1>1, <1>2 DEF NewInput, InputState
<1> QED BY <1>1, <1>3 DEF InputOK, NewInput, Newest, IsInjective, ToSet

\* A pressed direction is added once, and nothing is let go of.
LEMMA PressKeeps ==
  ASSUME NEW in, InputOK(in), NEW d \in Dir
  PROVE  /\ InputOK(PressDirection(in, d))
         /\ PressDirection(in, d).queued = in.queued
         /\ ToSet(PressDirection(in, d).stack) = ToSet(in.stack) \union {d}
<1>1. in \in InputState /\ in.stack \in Seq(Dir) /\ in.edges \in Seq(Dir)
      /\ DOMAIN in.stack = 1..Len(in.stack)
  BY DEF InputOK, InputState
<1>2. CASE Contains(in.stack, d)
  <2>1. d \in ToSet(in.stack) BY <1>1, <1>2 DEF Contains, ToSet
  <2> QED BY <1>2, <2>1 DEF PressDirection
<1>3. CASE ~Contains(in.stack, d)
  <2> DEFINE q == Append(in.stack, d)
             n == Len(in.stack)
  <2>1. PressDirection(in, d) = [in EXCEPT !.stack = q, !.edges = Append(in.edges, d), !.held = d]
    BY <1>3 DEF PressDirection
  <2>2. /\ q \in Seq(Dir) /\ Len(q) = n + 1 /\ n \in Nat /\ DOMAIN q = 1..(n + 1)
        /\ q[n + 1] = d /\ \A i \in 1..n : q[i] = in.stack[i]
    BY <1>1
  <2>3. \A i \in 1..n : in.stack[i] # d BY <1>3 DEF Contains
  <2>4. \A i \in 1..(n + 1) : i \in 1..n \/ i = n + 1 BY <2>2
  <2>5. \A i, j \in 1..n : in.stack[i] = in.stack[j] => i = j
    BY <1>1 DEF InputOK, IsInjective
  <2>6. Append(in.edges, d) \in Seq(Dir) BY <1>1
  <2> HIDE DEF q, n
  <2>7. IsInjective(q) BY <2>2, <2>3, <2>4, <2>5 DEF IsInjective
  <2>8. ToSet(q) = ToSet(in.stack) \union {d}
    <3>1. ToSet(q) \subseteq ToSet(in.stack) \union {d}
      BY <1>1, <2>2, <2>4 DEF ToSet, n
    <3>2. ToSet(in.stack) \subseteq ToSet(q)
      <4>1. \A i \in 1..n : i \in 1..(n + 1) BY <2>2
      <4> QED BY <1>1, <2>2, <4>1 DEF ToSet, n
    <3>3. d \in ToSet(q)
      <4>1. n + 1 \in DOMAIN q BY <2>2
      <4> QED BY <2>2, <4>1 DEF ToSet
    <3> QED BY <3>1, <3>2, <3>3
  <2>9. Newest(q) = d
    <3>1. q # << >> BY <2>2
    <3> QED BY <2>2, <3>1 DEF Newest, Last
  <2>10. PressDirection(in, d) \in InputState
    BY <1>1, <2>1, <2>2, <2>6 DEF InputState
  <2>11. /\ PressDirection(in, d).stack = q /\ PressDirection(in, d).held = d
         /\ PressDirection(in, d).queued = in.queued
    BY <1>1, <2>1 DEF InputState
  <2> QED BY <2>7, <2>8, <2>9, <2>10, <2>11 DEF InputOK
<1> QED BY <1>2, <1>3

\* A released direction is gone, and no other.
LEMMA ReleaseKeeps ==
  ASSUME NEW in, InputOK(in), NEW d
  PROVE  /\ InputOK(ReleaseDirection(in, d))
         /\ ReleaseDirection(in, d).queued = in.queued
         /\ ToSet(ReleaseDirection(in, d).stack) = ToSet(in.stack) \ {d}
<1> DEFINE rest == RemoveFirst(in.stack, d)
<1>1. in \in InputState /\ in.stack \in Seq(Dir) /\ IsInjective(in.stack)
  BY DEF InputOK, InputState
<1>2. rest \in Seq(Dir) /\ IsInjective(rest) /\ ToSet(rest) = ToSet(in.stack) \ {d}
  BY <1>1, RemovedRest
<1>3. ReleaseDirection(in, d) = [in EXCEPT !.stack = rest, !.held = Newest(rest)]
  BY DEF ReleaseDirection
<1> HIDE DEF rest
<1>4. Newest(rest) \in Dir \union {NoDir} BY <1>2, NewestIsHeld
<1>5. ReleaseDirection(in, d) \in InputState BY <1>1, <1>2, <1>3, <1>4 DEF InputState
<1>6. /\ ReleaseDirection(in, d).stack = rest /\ ReleaseDirection(in, d).held = Newest(rest)
      /\ ReleaseDirection(in, d).queued = in.queued
  BY <1>1, <1>3 DEF InputState
<1> QED BY <1>2, <1>5, <1>6 DEF InputOK

\* One more tap of an action is queued, or one less.
More(queued, a) == [queued EXCEPT ![a] = @ + 1]
Less(queued, a) == [queued EXCEPT ![a] = @ - 1]

\* Taps, repeats and what a frame takes leave the held directions alone.
LEMMA TapsKeep ==
  ASSUME NEW in, InputOK(in), NEW a \in Actions
  PROVE  /\ InputOK(Queue(in, a)) /\ Queue(in, a).stack = in.stack
         /\ Queue(in, a).queued = More(in.queued, a)
         /\ \A repeat \in BOOLEAN :
              /\ InputOK(PressAction(in, a, repeat)) /\ PressAction(in, a, repeat).stack = in.stack
              /\ PressAction(in, a, repeat).queued =
                   IF repeat THEN in.queued ELSE More(in.queued, a)
         /\ InputOK(ReleaseAction(in, a)) /\ ReleaseAction(in, a).stack = in.stack
         /\ ReleaseAction(in, a).queued = in.queued
         /\ HasQueued(in, a) =>
              /\ InputOK(Consume(in, a)) /\ Consume(in, a).stack = in.stack
              /\ Consume(in, a).queued = Less(in.queued, a)
<1>1. in \in InputState /\ in.queued \in [Actions -> Nat] /\ in.pressed \subseteq Actions
  BY DEF InputOK, InputState
<1>2. /\ More(in.queued, a) \in [Actions -> Nat]
      /\ HasQueued(in, a) => Less(in.queued, a) \in [Actions -> Nat]
      /\ in.pressed \union {a} \subseteq Actions /\ in.pressed \ {a} \subseteq Actions
  BY <1>1 DEF HasQueued, More, Less
<1> DEFINE With(q, p) == [in EXCEPT !.queued = q, !.pressed = p]
<1>3. ASSUME NEW q \in [Actions -> Nat], NEW p \in SUBSET Actions
      PROVE  InputOK(With(q, p)) /\ With(q, p).stack = in.stack /\ With(q, p).queued = q
  BY <1>1 DEF InputOK, InputState
<1>4. /\ Queue(in, a) = With(More(in.queued, a), in.pressed)
      /\ PressAction(in, a, TRUE) = With(in.queued, in.pressed \union {a})
      /\ PressAction(in, a, FALSE) =
           With(More(in.queued, a), in.pressed \union {a})
      /\ ReleaseAction(in, a) = With(in.queued, in.pressed \ {a})
      /\ Consume(in, a) = With(Less(in.queued, a), in.pressed)
  BY <1>1 DEF InputState, Queue, PressAction, ReleaseAction, Consume, More, Less
<1> HIDE DEF With
<1>5. /\ InputOK(Queue(in, a)) /\ Queue(in, a).stack = in.stack
      /\ Queue(in, a).queued = More(in.queued, a)
  BY <1>1, <1>2, <1>3, <1>4
<1>6. /\ InputOK(PressAction(in, a, TRUE)) /\ PressAction(in, a, TRUE).stack = in.stack
      /\ PressAction(in, a, TRUE).queued = in.queued
  <2>1. /\ InputOK(With(in.queued, in.pressed \union {a}))
        /\ With(in.queued, in.pressed \union {a}).stack = in.stack
        /\ With(in.queued, in.pressed \union {a}).queued = in.queued
    BY <1>1, <1>2, <1>3
  <2>2. PressAction(in, a, TRUE) = With(in.queued, in.pressed \union {a}) BY <1>4
  <2> QED BY <2>1, <2>2, Zenon
<1>7. /\ InputOK(PressAction(in, a, FALSE)) /\ PressAction(in, a, FALSE).stack = in.stack
      /\ PressAction(in, a, FALSE).queued = More(in.queued, a)
  <2>1. /\ InputOK(With(More(in.queued, a), in.pressed \union {a}))
        /\ With(More(in.queued, a), in.pressed \union {a}).stack = in.stack
        /\ With(More(in.queued, a), in.pressed \union {a}).queued = More(in.queued, a)
    BY <1>1, <1>2, <1>3
  <2>2. PressAction(in, a, FALSE) = With(More(in.queued, a), in.pressed \union {a}) BY <1>4
  <2> QED BY <2>1, <2>2, Zenon
<1>8. /\ InputOK(ReleaseAction(in, a)) /\ ReleaseAction(in, a).stack = in.stack
      /\ ReleaseAction(in, a).queued = in.queued
  BY <1>1, <1>2, <1>3, <1>4
<1>9. HasQueued(in, a) =>
        /\ InputOK(Consume(in, a)) /\ Consume(in, a).stack = in.stack
        /\ Consume(in, a).queued = Less(in.queued, a)
  BY <1>1, <1>2, <1>3, <1>4
<1>10. \A repeat \in BOOLEAN : repeat = TRUE \/ repeat = FALSE OBVIOUS
<1> QED BY <1>5, <1>6, <1>7, <1>8, <1>9, <1>10

\* A frame takes the oldest press of a direction.
LEMMA EdgeKeeps ==
  ASSUME NEW in, InputOK(in), HasDirectionEdge(in)
  PROVE  /\ InputOK(ConsumeDirectionEdge(in))
         /\ ConsumeDirectionEdge(in).stack = in.stack
         /\ ConsumeDirectionEdge(in).queued = in.queued
<1>1. in \in InputState /\ Tail(in.edges) \in Seq(Dir)
  BY DEF InputOK, InputState, HasDirectionEdge
<1> QED BY <1>1 DEF InputOK, InputState, ConsumeDirectionEdge

-----------------------------------------------------------------------------
(* The devices                                                              *)

\* The inductive invariant: without the focus only a pad holds a direction, since the
\* page lets go of its keys when it loses the focus.
DevicesInv == /\ InputOK(input)
              /\ down \subseteq Key \union Actions /\ padDown \subseteq PadDir
              /\ focused \in BOOLEAN /\ order \in Seq(Key) /\ presses \in 0..MaxPresses
              /\ taps \in [Actions -> Nat] /\ effects \in [Actions -> Nat]
              /\ NoStuckDirection
              /\ ~focused => ToSet(input.stack) \subseteq padDown
              /\ OneEffectPerTap

\* Initially nothing is held.
LEMMA DevicesStart == DeviceInit => DevicesInv
<1> SUFFICES ASSUME DeviceInit PROVE DevicesInv OBVIOUS
<1> USE DEF DeviceInit
<1>1. InputOK(input) /\ ToSet(input.stack) = {} BY NewInputOK
<1>2. /\ order \in Seq(Key) /\ presses \in 0..MaxPresses
      /\ taps \in [Actions -> Nat] /\ effects \in [Actions -> Nat]
  BY DevicesAssumption
<1>3. OneEffectPerTap BY DEF OneEffectPerTap, NewInput
<1> QED BY <1>1, <1>2, <1>3 DEF DevicesInv, NoStuckDirection

\* A step that keeps the focus: what it leaves on the stack something holds.
LEMMA HeldStep ==
  ASSUME DevicesInv, InputOK(input)', OneEffectPerTap', focused' = focused,
         taps' \in [Actions -> Nat], effects' \in [Actions -> Nat],
         down' \subseteq Key \union Actions, padDown' \subseteq PadDir,
         order' \in Seq(Key), presses' \in 0..MaxPresses,
         \A e \in ToSet(input'.stack) : e \in ToSet(input.stack) \/
            e \in padDown' \/ (focused /\ \E k \in down' : k \in Key /\ KeyDir[k] = e),
         \A e \in ToSet(input'.stack) : e \in padDown => e \in padDown',
         \A e \in ToSet(input'.stack), k \in down \cap Key :
            focused /\ KeyDir[k] = e => k \in down'
  PROVE  DevicesInv'
<1>2. NoStuckDirection /\ (~focused => ToSet(input.stack) \subseteq padDown)
      /\ focused \in BOOLEAN
  BY DEF DevicesInv
<1>3. ASSUME NEW e \in ToSet(input'.stack), ~focused PROVE e \in padDown' BY <1>2, <1>3
<1>4. ASSUME NEW e \in ToSet(input'.stack), focused
      PROVE  e \in padDown' \/ \E k \in down' : k \in Key /\ KeyDir[k] = e
  <2>1. CASE e \in ToSet(input.stack)
    <3>1. e \in padDown \/ \E k \in down : k \in Key /\ KeyDir[k] = e
      BY <1>2, <2>1 DEF NoStuckDirection
    <3> QED BY <1>4, <3>1
  <2> QED BY <1>4, <2>1
<1>5. NoStuckDirection' /\ (~focused => ToSet(input.stack) \subseteq padDown)'
  <2>1. \A e \in ToSet(input'.stack) :
          e \in padDown' \/ \E k \in down' : k \in Key /\ KeyDir[k] = e
    BY <1>2, <1>3, <1>4
  <2>2. ~focused' => ToSet(input'.stack) \subseteq padDown' BY <1>3
  <2> QED BY <2>1, <2>2 DEF NoStuckDirection
<1> QED BY <1>2, <1>5 DEF DevicesInv

\* Keys and pads press and release directions.
LEMMA DirectionSteps ==
  ASSUME DevicesInv,
         \/ \E k \in Key : KeyDown(k) \/ KeyUp(k)
         \/ \E d \in PadDir : PadPress(d) \/ PadRelease(d)
  PROVE  DevicesInv'
<1> USE DevicesAssumption
<1>1. /\ InputOK(input) /\ order \in Seq(Key) /\ presses \in 0..MaxPresses /\ focused \in BOOLEAN
      /\ down \subseteq Key \union Actions /\ padDown \subseteq PadDir
      /\ taps \in [Actions -> Nat] /\ effects \in [Actions -> Nat] /\ OneEffectPerTap
  BY DEF DevicesInv
<1>2. ASSUME input'.queued = input.queued, UNCHANGED <<taps, effects>>
      PROVE  /\ OneEffectPerTap'
             /\ taps' \in [Actions -> Nat] /\ effects' \in [Actions -> Nat]
  BY <1>1, <1>2 DEF OneEffectPerTap
<1>3. ASSUME presses < MaxPresses PROVE presses + 1 \in 0..MaxPresses BY <1>1, <1>3
<1>4. ASSUME NEW k \in Key, KeyDown(k) PROVE DevicesInv'
  <2>1. KeyDir[k] \in Dir /\ k \in down' /\ down \subseteq down' BY <1>4 DEF KeyDown
  <2>2. CASE focused
    <3>1. /\ input' = PressDirection(input, KeyDir[k]) /\ order' = Append(order, k)
          /\ down' = down \union {k} /\ presses' = presses + 1 /\ presses < MaxPresses
          /\ UNCHANGED <<padDown, focused, taps, effects>>
      BY <1>4, <2>2 DEF KeyDown
    <3>2. /\ InputOK(input') /\ input'.queued = input.queued
          /\ ToSet(input'.stack) = ToSet(input.stack) \union {KeyDir[k]}
      BY <1>1, <2>1, <3>1, PressKeeps
    <3>3. InputOK(input)' BY <3>2 DEF InputOK
    <3>4. order' \in Seq(Key) BY <1>1, <3>1
    <3> QED BY <1>1, <1>2, <1>3, <2>1, <2>2, <3>1, <3>2, <3>3, <3>4, HeldStep
  <2>3. CASE ~focused
    <3>1. /\ UNCHANGED <<input, order, padDown, focused, taps, effects>>
          /\ down' = down \union {k} /\ presses' = presses + 1 /\ presses < MaxPresses
      BY <1>4, <2>3 DEF KeyDown
    <3>2. InputOK(input)' BY <1>1, <3>1 DEF InputOK
    <3> QED BY <1>1, <1>2, <1>3, <2>1, <2>3, <3>1, <3>2, HeldStep
  <2> QED BY <1>1, <2>2, <2>3
<1>5. ASSUME NEW k \in Key, KeyUp(k) PROVE DevicesInv'
  <2>1. /\ down' = down \ {k} /\ order' = RemoveFirst(order, k)
        /\ input' = IF focused THEN ReleaseDirection(input, KeyDir[k]) ELSE input
        /\ UNCHANGED <<padDown, focused, presses, taps, effects>>
    BY <1>5 DEF KeyUp
  <2>2. order' \in Seq(Key) BY <1>1, <2>1, RemovedRest
  <2>3. CASE focused
    <3>1. /\ InputOK(input') /\ input'.queued = input.queued
          /\ ToSet(input'.stack) = ToSet(input.stack) \ {KeyDir[k]}
      BY <1>1, <2>1, <2>3, ReleaseKeeps
    <3>2. InputOK(input)' BY <3>1 DEF InputOK
    <3>3. \A e \in ToSet(input'.stack), j \in down \cap Key :
            focused /\ KeyDir[j] = e => j \in down'
      BY <2>1, <3>1
    <3> QED BY <1>1, <1>2, <2>1, <2>2, <3>1, <3>2, <3>3, HeldStep
  <2>4. CASE ~focused
    <3>1. InputOK(input)' /\ input' = input BY <1>1, <2>1, <2>4 DEF InputOK
    <3> QED BY <1>1, <1>2, <2>1, <2>2, <2>4, <3>1, HeldStep
  <2> QED BY <1>1, <2>3, <2>4
<1>6. ASSUME NEW d \in PadDir, PadPress(d) PROVE DevicesInv'
  <2>1. /\ padDown' = padDown \union {d} /\ input' = PressDirection(input, d) /\ d \in Dir
        /\ presses' = presses + 1 /\ presses < MaxPresses
        /\ UNCHANGED <<down, focused, order, taps, effects>>
    BY <1>6 DEF PadPress
  <2>2. /\ InputOK(input') /\ input'.queued = input.queued
        /\ ToSet(input'.stack) = ToSet(input.stack) \union {d}
    BY <1>1, <2>1, PressKeeps
  <2>3. InputOK(input)' BY <2>2 DEF InputOK
  <2> QED BY <1>1, <1>2, <1>3, <2>1, <2>2, <2>3, HeldStep
<1>7. ASSUME NEW d \in PadDir, PadRelease(d) PROVE DevicesInv'
  <2>1. /\ padDown' = padDown \ {d} /\ input' = ReleaseDirection(input, d)
        /\ UNCHANGED <<down, focused, order, presses, taps, effects>>
    BY <1>7 DEF PadRelease
  <2>2. /\ InputOK(input') /\ input'.queued = input.queued
        /\ ToSet(input'.stack) = ToSet(input.stack) \ {d}
    BY <1>1, <2>1, ReleaseKeeps
  <2>3. InputOK(input)' BY <2>2 DEF InputOK
  <2> QED BY <1>1, <1>2, <2>1, <2>2, <2>3, HeldStep
<1> QED BY <1>4, <1>5, <1>6, <1>7

\* Taps, their repeats, and the frames that take effects and presses.
LEMMA TapSteps ==
  ASSUME DevicesInv,
         \/ \E a \in Actions :
              ActionDown(a) \/ ActionRepeats(a) \/ ActionUp(a) \/ ButtonTap(a) \/ FrameConsumes(a)
         \/ FrameTakesEdge
  PROVE  DevicesInv'
<1> USE DevicesAssumption
<1>1. /\ InputOK(input) /\ order \in Seq(Key) /\ presses \in 0..MaxPresses /\ focused \in BOOLEAN
      /\ down \subseteq Key \union Actions /\ padDown \subseteq PadDir
      /\ taps \in [Actions -> Nat] /\ effects \in [Actions -> Nat]
      /\ \A a \in Actions : effects[a] + input.queued[a] <= taps[a]
      /\ input.queued \in [Actions -> Nat]
  BY DEF DevicesInv, OneEffectPerTap, InputOK, InputState
<1>2. ASSUME InputOK(input'), input'.stack = input.stack, UNCHANGED <<focused, order, padDown>>,
             taps' \in [Actions -> Nat], effects' \in [Actions -> Nat],
             \A a \in Actions : effects'[a] + input'.queued[a] <= taps'[a],
             down' \subseteq Key \union Actions, down \cap Key \subseteq down',
             presses' \in 0..MaxPresses
      PROVE  DevicesInv'
  <2>1. InputOK(input)' BY <1>2 DEF InputOK
  <2>2. OneEffectPerTap' BY <1>2 DEF OneEffectPerTap
  <2> QED BY <1>1, <1>2, <2>1, <2>2, HeldStep
<1>3. ASSUME presses < MaxPresses PROVE presses + 1 \in 0..MaxPresses BY <1>1, <1>3
<1>4. ASSUME NEW a \in Actions
      PROVE  /\ [taps EXCEPT ![a] = @ + 1] \in [Actions -> Nat]
             /\ [effects EXCEPT ![a] = @ + 1] \in [Actions -> Nat]
  BY <1>1
<1>5. ASSUME NEW a \in Actions, ActionDown(a) PROVE DevicesInv'
  <2>1. CASE focused
    <3>1. /\ input' = PressAction(input, a, FALSE) /\ taps' = [taps EXCEPT ![a] = @ + 1]
          /\ down' = down \union {a} /\ presses' = presses + 1 /\ presses < MaxPresses
          /\ UNCHANGED <<padDown, focused, order, effects>>
      BY <1>5, <2>1 DEF ActionDown
    <3>2. /\ InputOK(input') /\ input'.stack = input.stack
          /\ input'.queued = More(input.queued, a)
      BY <1>1, <3>1, TapsKeep
    <3>3. ASSUME NEW b \in Actions PROVE effects'[b] + input'.queued[b] <= taps'[b]
      <4>1. /\ effects[b] \in Nat /\ input.queued[b] \in Nat /\ taps[b] \in Nat
            /\ effects[b] + input.queued[b] <= taps[b]
        BY <1>1
      <4>2. input'.queued[b] = (IF b = a THEN input.queued[b] + 1 ELSE input.queued[b])
        BY <1>1, <3>2 DEF More
      <4>3. taps'[b] = (IF b = a THEN taps[b] + 1 ELSE taps[b]) /\ effects'[b] = effects[b]
        BY <1>1, <3>1
      <4> QED BY <4>1, <4>2, <4>3
    <3>4. /\ taps' \in [Actions -> Nat] /\ effects' \in [Actions -> Nat]
          /\ presses' \in 0..MaxPresses
      BY <1>1, <1>3, <1>4, <3>1
    <3> QED BY <1>1, <1>2, <3>1, <3>2, <3>3, <3>4
  <2>2. CASE ~focused
    <3>1. /\ UNCHANGED <<input, taps, padDown, focused, order, effects>>
          /\ down' = down \union {a} /\ presses' = presses + 1 /\ presses < MaxPresses
      BY <1>5, <2>2 DEF ActionDown
    <3> QED BY <1>1, <1>2, <1>3, <3>1
  <2> QED BY <1>1, <2>1, <2>2
<1>6. ASSUME NEW a \in Actions, ActionRepeats(a) PROVE DevicesInv'
  <2>1. /\ input' = PressAction(input, a, TRUE)
        /\ UNCHANGED <<down, padDown, focused, order, presses, taps, effects>>
    BY <1>6 DEF ActionRepeats
  <2>2. InputOK(input') /\ input'.stack = input.stack /\ input'.queued = input.queued
    BY <1>1, <2>1, TapsKeep
  <2> QED BY <1>1, <1>2, <2>1, <2>2
<1>7. ASSUME NEW a \in Actions, ActionUp(a) PROVE DevicesInv'
  <2>1. /\ input' = IF focused THEN ReleaseAction(input, a) ELSE input
        /\ down' = down \ {a}
        /\ UNCHANGED <<padDown, focused, order, presses, taps, effects>>
    BY <1>7 DEF ActionUp
  <2>2. InputOK(input') /\ input'.stack = input.stack /\ input'.queued = input.queued
    BY <1>1, <2>1, TapsKeep
  <2> QED BY <1>1, <1>2, <2>1, <2>2
<1>8. ASSUME NEW a \in Actions, ButtonTap(a) PROVE DevicesInv'
  <2>1. /\ input' = Queue(input, a) /\ taps' = [taps EXCEPT ![a] = @ + 1]
        /\ presses' = presses + 1 /\ presses < MaxPresses
        /\ UNCHANGED <<down, padDown, focused, order, effects>>
    BY <1>8 DEF ButtonTap
  <2>2. /\ InputOK(input') /\ input'.stack = input.stack
        /\ input'.queued = More(input.queued, a)
    BY <1>1, <2>1, TapsKeep
  <2>3. ASSUME NEW b \in Actions PROVE effects'[b] + input'.queued[b] <= taps'[b]
    <3>1. /\ effects[b] \in Nat /\ input.queued[b] \in Nat /\ taps[b] \in Nat
          /\ effects[b] + input.queued[b] <= taps[b]
      BY <1>1
    <3>2. input'.queued[b] = (IF b = a THEN input.queued[b] + 1 ELSE input.queued[b])
      BY <1>1, <2>2 DEF More
    <3>3. taps'[b] = (IF b = a THEN taps[b] + 1 ELSE taps[b]) /\ effects'[b] = effects[b]
      BY <1>1, <2>1
    <3> QED BY <3>1, <3>2, <3>3
  <2>4. /\ taps' \in [Actions -> Nat] /\ effects' \in [Actions -> Nat]
        /\ presses' \in 0..MaxPresses
    BY <1>1, <1>3, <1>4, <2>1
  <2> QED BY <1>1, <1>2, <2>1, <2>2, <2>3, <2>4
<1>9. ASSUME NEW a \in Actions, FrameConsumes(a) PROVE DevicesInv'
  <2>1. /\ HasQueued(input, a)
        /\ input' = Consume(input, a) /\ effects' = [effects EXCEPT ![a] = @ + 1]
        /\ UNCHANGED <<down, padDown, focused, order, presses, taps>>
    BY <1>9 DEF FrameConsumes
  <2>2. /\ InputOK(input') /\ input'.stack = input.stack
        /\ input'.queued = Less(input.queued, a)
    BY <1>1, <2>1, TapsKeep
  <2>3. ASSUME NEW b \in Actions PROVE effects'[b] + input'.queued[b] <= taps'[b]
    <3>1. /\ effects[b] \in Nat /\ input.queued[b] \in Nat /\ taps[b] \in Nat
          /\ effects[b] + input.queued[b] <= taps[b]
      BY <1>1
    <3>2. input'.queued[b] = (IF b = a THEN input.queued[b] - 1 ELSE input.queued[b])
      BY <1>1, <2>2 DEF Less
    <3>3. taps'[b] = taps[b] /\ effects'[b] = (IF b = a THEN effects[b] + 1 ELSE effects[b])
      BY <1>1, <2>1
    <3> QED BY <3>1, <3>2, <3>3
  <2>4. taps' \in [Actions -> Nat] /\ effects' \in [Actions -> Nat] BY <1>1, <1>4, <2>1
  <2> QED BY <1>1, <1>2, <2>1, <2>2, <2>3, <2>4
<1>10. CASE FrameTakesEdge
  <2>1. /\ HasDirectionEdge(input) /\ input' = ConsumeDirectionEdge(input)
        /\ UNCHANGED <<down, padDown, focused, order, presses, taps, effects>>
    BY <1>10 DEF FrameTakesEdge
  <2>2. InputOK(input') /\ input'.stack = input.stack /\ input'.queued = input.queued
    BY <1>1, <2>1, EdgeKeeps
  <2> QED BY <1>1, <1>2, <2>1, <2>2
<1> QED BY <1>5, <1>6, <1>7, <1>8, <1>9, <1>10

\* The page loses the focus, and its keys with it, or has it again.
LEMMA FocusSteps == ASSUME DevicesInv, Blur \/ Focus PROVE DevicesInv'
<1>1. CASE Blur
  <2>1. /\ input' = NewInput /\ focused' = FALSE /\ order' = << >>
        /\ UNCHANGED <<down, padDown, presses, taps, effects>>
    BY <1>1 DEF Blur, Clear
  <2>2. InputOK(input)' /\ ToSet(input'.stack) = {} BY <2>1, NewInputOK DEF InputOK
  <2>3. OneEffectPerTap'
    <3>1. \A a \in Actions : /\ input'.queued[a] = 0 /\ effects[a] + input.queued[a] <= taps[a]
                             /\ effects[a] \in Nat /\ input.queued[a] \in Nat /\ taps[a] \in Nat
      BY <2>1 DEF NewInput, DevicesInv, OneEffectPerTap, InputOK, InputState
    <3>2. \A a \in Actions : effects[a] + 0 <= taps[a] BY <3>1
    <3> QED BY <2>1, <3>1, <3>2 DEF OneEffectPerTap
  <2>4. NoStuckDirection' /\ (~focused => ToSet(input.stack) \subseteq padDown)'
    BY <2>2 DEF NoStuckDirection
  <2>5. order' \in Seq(Key) BY <2>1
  <2>6. focused' \in BOOLEAN BY <2>1
  <2> QED BY <2>1, <2>2, <2>3, <2>4, <2>5, <2>6 DEF DevicesInv
<1>2. CASE Focus
  BY <1>2 DEF Focus, DevicesInv, InputOK, NoStuckDirection, OneEffectPerTap
<1> QED BY <1>1, <1>2

\* The invariant holds of the devices, for any keys and pads and any number of presses.
THEOREM DevicesInvariant == DeviceSpec => []DevicesInv
<1>1. ASSUME DevicesInv, [DeviceNext]_deviceVars PROVE DevicesInv'
  <2>1. CASE UNCHANGED deviceVars
    BY <1>1, <2>1 DEF deviceVars, DevicesInv, InputOK, NoStuckDirection, OneEffectPerTap
  <2>2. CASE DeviceNext
    BY <1>1, <2>2, DirectionSteps, TapSteps, FocusSteps DEF DeviceNext
  <2> QED BY <1>1, <2>1, <2>2
<1> QED BY <1>1, DevicesStart, PTL DEF DeviceSpec

\* The held direction is the newest of the stack and something holds it: the player
\* never walks on by itself, also when a key-up went to another window (onBlur).
THEOREM HeldAlwaysFollowsHands == DeviceSpec => []HeldFollowsHands
<1>1. DevicesInv => HeldFollowsHands
  BY DEF DevicesInv, InputOK, HeldFollowsHands, DeviceTypeOK, HeldIsNewest
<1> QED BY <1>1, DevicesInvariant, PTL

\* A press has at most one effect, whatever the keyboard repeats and the frames take
\* (the repeat test of onKeyDown, consumeConfirm, consumeCancel).
THEOREM TapsHaveOneEffect == DeviceSpec => []OneEffectPerTap
<1>1. DevicesInv => OneEffectPerTap BY DEF DevicesInv
<1> QED BY <1>1, DevicesInvariant, PTL

-----------------------------------------------------------------------------
(* The game loop                                                            *)

\* The last tick is one that was given, and so is the first since the start.
Given(tick) == tick = None \/ \E t \in 0..clock : tick = <<t>>

LoopTyped == /\ running \in BOOLEAN /\ inUpdate \in BOOLEAN
             /\ nextId \in Nat /\ handle \in 0..nextId /\ asked \subseteq 1..nextId
             /\ inFrame \in -1..nextId
             /\ clock \in 0..MaxTime /\ Given(last) /\ Given(since)
             /\ accumulator \in 0..(FixedDt - 1 + MaxFrameDt)
             /\ updates \in Nat /\ starts \in 0..MaxStarts

\* One frame is on its way, the one the loop can cancel, unless it is being run.
ChainInv == /\ inFrame = 0 => asked = (IF running THEN {handle} ELSE {})
            /\ inFrame > 0 => running /\ asked = {}
            /\ inFrame < 0 => running /\ asked = {handle}

\* What was simulated and what is left to simulate is no more than the time that has
\* passed between the ticks.
Simulated == accumulator + updates * FixedDt - (IF inUpdate THEN FixedDt ELSE 0)
TimeInv == /\ inUpdate => inFrame # 0 /\ accumulator >= FixedDt
           /\ inFrame = 0 => accumulator < FixedDt
           /\ since = None => last = None /\ updates = 0 /\ accumulator = 0
           /\ running /\ last = None => since = None
           /\ since # None =>
                Simulated <= (IF last = None THEN clock ELSE last[1]) - since[1]

LoopInv == LoopTyped /\ ChainInv /\ TimeInv

\* One more step simulated.
LEMMA OneMoreStep ==
  ASSUME NEW u \in Nat, NEW f \in Nat
  PROVE  u * f \in Nat /\ (u + 1) * f = u * f + f
OBVIOUS

\* The null is no time.
LEMMA NoneIsNoTime == \A t : <<t>> # None /\ <<t>>[1] = t
<1>1. \A t : Len(<<t>>) = 1 /\ Len(<< >>) = 0 OBVIOUS
<1> QED BY <1>1 DEF None

\* The parameters of the loop are numbers.
LEMMA LoopNumbers == /\ FixedDt \in Nat /\ FixedDt >= 1 /\ MaxFrameDt \in Nat /\ MaxFrameDt >= 1
                     /\ MaxTime \in Nat /\ MaxStarts \in Nat
BY LoopAssumption

\* Initially no frame was asked for.
LEMMA LoopBegins == LoopInit => LoopInv
<1> SUFFICES ASSUME LoopInit PROVE LoopInv OBVIOUS
<1> USE LoopNumbers DEF LoopInit
<1>1. LoopTyped
  <2>1. 0 \in 0..MaxTime /\ 0 \in 0..(FixedDt - 1 + MaxFrameDt) /\ 0 \in 0..MaxStarts OBVIOUS
  <2>2. Given(last) /\ Given(since) BY DEF Given
  <2>3. 0 \in 0..nextId /\ 0 \in -1..nextId /\ {} \subseteq 1..nextId /\ nextId \in Nat OBVIOUS
  <2>4. running \in BOOLEAN /\ inUpdate \in BOOLEAN OBVIOUS
  <2> QED BY <2>1, <2>2, <2>3, <2>4 DEF LoopTyped
<1>2. ChainInv BY DEF ChainInv
<1>3. TimeInv BY DEF TimeInv
<1> QED BY <1>1, <1>2, <1>3 DEF LoopInv

\* The loop is started or stopped between two frames.
LEMMA StartStopKeep ==
  ASSUME LoopInv, ~Reentrant, Start \/ Stop
  PROVE  LoopInv'
<1> USE LoopNumbers
<1>1. /\ LoopTyped /\ inFrame = 0 /\ asked = (IF running THEN {handle} ELSE {})
      /\ accumulator \in Nat /\ accumulator < FixedDt /\ ~inUpdate /\ TimeInv
  BY DEF LoopInv, LoopTyped, ChainInv, TimeInv, Start, Stop, MayCall
<1>2. CASE Start
  <2>1. /\ starts < MaxStarts /\ starts' = starts + 1
        /\ running' = TRUE /\ last' = None /\ accumulator' = 0 /\ updates' = 0 /\ since' = None
        /\ nextId' = nextId + 1 /\ handle' = nextId + 1 /\ asked' = {nextId + 1}
        /\ UNCHANGED <<inFrame, inUpdate, clock>>
    BY <1>1, <1>2 DEF Start, AskFrame
  <2>2. LoopTyped'
    <3>1. /\ nextId' \in Nat /\ handle' \in 0..nextId' /\ asked' \subseteq 1..nextId'
          /\ inFrame' \in -1..nextId' /\ starts' \in 0..MaxStarts
          /\ accumulator' \in 0..(FixedDt - 1 + MaxFrameDt) /\ updates' \in Nat
          /\ clock' \in 0..MaxTime
      BY <1>1, <2>1 DEF LoopTyped
    <3>2. Given(last)' /\ Given(since)' BY <2>1 DEF Given
    <3>3. running' \in BOOLEAN /\ inUpdate' \in BOOLEAN BY <1>1, <2>1 DEF LoopTyped
    <3> QED BY <3>1, <3>2, <3>3 DEF LoopTyped
  <2>3. ChainInv' BY <1>1, <2>1 DEF ChainInv
  <2>4. TimeInv' BY <1>1, <2>1 DEF TimeInv
  <2> QED BY <2>2, <2>3, <2>4 DEF LoopInv
<1>3. CASE Stop
  <2>1. /\ running /\ running' = FALSE /\ handle' = 0 /\ last' = None /\ asked' = {}
        /\ UNCHANGED <<accumulator, inFrame, inUpdate, clock, nextId, starts, updates, since>>
    BY <1>1, <1>3 DEF Stop
  <2>2. LoopTyped'
    <3>1. Given(last)' /\ Given(since)' BY <1>1, <2>1 DEF Given, LoopTyped
    <3>2. handle' \in 0..nextId' /\ asked' \subseteq 1..nextId' BY <1>1, <2>1 DEF LoopTyped
    <3>3. running' \in BOOLEAN /\ inUpdate' \in BOOLEAN BY <1>1, <2>1 DEF LoopTyped
    <3> QED BY <1>1, <2>1, <3>1, <3>2, <3>3 DEF LoopTyped
  <2>3. ChainInv' BY <1>1, <2>1 DEF ChainInv
  <2>4. TimeInv'
    <3>1. ASSUME since # None PROVE Simulated <= clock - since[1]
      <4>1. CASE last = None BY <1>1, <3>1, <4>1 DEF TimeInv
      <4>2. CASE last # None
        <5>1. PICK l \in 0..clock : last = <<l>> BY <1>1, <4>2 DEF LoopTyped, Given
        <5>2. PICK f \in 0..clock : since = <<f>> BY <1>1, <3>1 DEF LoopTyped, Given
        <5>3. Simulated <= l - f BY <1>1, <3>1, <4>2, <5>1, <5>2 DEF TimeInv
        <5>4. Simulated \in Int BY <1>1, OneMoreStep DEF Simulated, LoopTyped
        <5>5. clock \in Nat BY <1>1 DEF LoopTyped
        <5> HIDE DEF Simulated
        <5> QED BY <5>1, <5>2, <5>3, <5>4, <5>5
      <4> QED BY <4>1, <4>2
    <3>2. Simulated' = Simulated BY <2>1 DEF Simulated
    <3> QED BY <1>1, <2>1, <3>1, <3>2 DEF TimeInv
  <2> QED BY <2>2, <2>3, <2>4 DEF LoopInv
<1> QED BY <1>2, <1>3

\* A tick adds the time that has passed since the last one, or less.
LEMMA TickKeeps ==
  ASSUME LoopInv, NEW t \in 0..MaxTime, t >= clock, clock' = t, running, inFrame = 0,
         TickTime(t), UNCHANGED <<updates, inUpdate>>
  PROVE  /\ Given(last)' /\ Given(since)' /\ accumulator' \in 0..(FixedDt - 1 + MaxFrameDt)
         /\ last' # None /\ since' # None /\ Simulated' <= last'[1] - since'[1]
<1> USE LoopNumbers
<1>1. /\ clock \in Nat /\ Given(last) /\ Given(since) /\ ~inUpdate
      /\ accumulator \in Nat /\ accumulator < FixedDt /\ updates \in Nat
      /\ TimeInv
  BY DEF LoopInv, LoopTyped, TimeInv
<1>2. last' = <<t>> BY DEF TickTime
<1>3. Given(last)' BY <1>2 DEF Given
<1>4. Simulated = accumulator + updates * FixedDt /\ updates * FixedDt \in Nat
  BY <1>1, OneMoreStep DEF Simulated
<1>5. Simulated' = accumulator' + updates * FixedDt BY <1>1 DEF Simulated
<1>6. CASE last = None
  <2>1. since = None /\ updates = 0 /\ accumulator = 0 BY <1>1, <1>6 DEF TimeInv
  <2>2. accumulator' = 0 /\ since' = <<t>> BY <1>6, <2>1 DEF TickTime
  <2>3. Given(since)' BY <2>2 DEF Given
  <2>4. Simulated' = 0 BY <1>5, <2>1, <2>2
  <2> QED BY <1>2, <1>3, <2>2, <2>3, <2>4, NoneIsNoTime
<1>7. CASE last # None
  <2>1. PICK l \in 0..clock : last = <<l>> BY <1>1, <1>7 DEF Given
  <2>2. since # None BY <1>1, <1>7 DEF TimeInv
  <2>3. PICK f \in 0..clock : since = <<f>> BY <1>1, <2>2 DEF Given
  <2>4. Clamp(t - l) \in 0..MaxFrameDt /\ Clamp(t - l) <= t - l
    <3>1. t - l \in Nat BY <1>1, <2>1
    <3> QED BY <3>1 DEF Clamp
  <2>5. accumulator' = accumulator + Clamp(t - l) /\ since' = since
    BY <1>7, <2>1 DEF TickTime
  <2>6. Simulated <= l - f BY <1>1, <1>7, <2>1, <2>2, <2>3 DEF TimeInv
  <2>7. Given(since)' BY <1>1, <2>3, <2>5 DEF Given
  <2>8. accumulator' \in 0..(FixedDt - 1 + MaxFrameDt) BY <1>1, <2>4, <2>5
  <2>9. Simulated' <= t - f
    <3> DEFINE done == updates * FixedDt
               passed == Clamp(t - l)
    <3>1. done \in Nat /\ passed \in Nat /\ passed <= t - l /\ accumulator + done <= l - f
      BY <1>4, <2>4, <2>6
    <3>2. Simulated' = accumulator + passed + done BY <1>5, <2>5
    <3> HIDE DEF done, passed
    <3> QED BY <1>1, <2>1, <2>3, <3>1, <3>2
  <2> QED BY <1>2, <1>3, <2>2, <2>3, <2>5, <2>7, <2>8, <2>9, NoneIsNoTime
<1> QED BY <1>6, <1>7

\* A frame begins, of the browser or by hand.
LEMMA FramesKeep ==
  ASSUME LoopInv, ManualBack = 0, NEW t \in 0..MaxTime,
         ManualTick(t) \/ \E id \in asked : FrameBegins(id, t)
  PROVE  LoopInv'
<1> USE LoopNumbers
<1>1. LoopTyped /\ ChainInv /\ TimeInv BY DEF LoopInv
<1>2. /\ inFrame = 0 /\ running /\ t >= clock /\ clock' = t /\ TickTime(t)
      /\ UNCHANGED <<running, handle, inUpdate, nextId, starts, updates>>
      /\ \/ inFrame' = -1 /\ asked' = asked
         \/ inFrame' \in asked /\ asked' = asked \ {inFrame'}
  <2>1. CASE ManualTick(t)
    <3>1. clock \in Nat /\ t >= clock - 0 BY <1>1, <2>1 DEF ManualTick, LoopTyped
    <3>2. t >= clock BY <3>1
    <3>3. clock' = t BY <2>1, <3>1, <3>2 DEF ManualTick
    <3> QED BY <2>1, <3>2, <3>3 DEF ManualTick
  <2>2. CASE \E id \in asked : FrameBegins(id, t)
    <3>1. PICK id \in asked : FrameBegins(id, t) BY <2>2
    <3>2. running BY <1>1, <3>1 DEF ChainInv, FrameBegins
    <3> QED BY <3>1, <3>2 DEF FrameBegins
  <2> QED BY <2>1, <2>2
<1>3. /\ Given(last)' /\ Given(since)' /\ accumulator' \in 0..(FixedDt - 1 + MaxFrameDt)
      /\ last' # None /\ since' # None /\ Simulated' <= last'[1] - since'[1]
  BY <1>2, TickKeeps
<1>4. asked = {handle} /\ ~inUpdate BY <1>1, <1>2 DEF ChainInv, TimeInv
<1>5. \/ inFrame' = -1 /\ asked' = {handle}
      \/ inFrame' = handle /\ asked' = {}
  BY <1>2, <1>4
<1>6. handle \in 1..nextId /\ nextId \in Nat BY <1>1, <1>4 DEF LoopTyped
<1>7. LoopTyped'
  <2>1. /\ nextId' \in Nat /\ handle' \in 0..nextId' /\ asked' \subseteq 1..nextId'
        /\ inFrame' \in -1..nextId' /\ clock' \in 0..MaxTime /\ updates' \in Nat
        /\ starts' \in 0..MaxStarts
    BY <1>1, <1>2, <1>5, <1>6 DEF LoopTyped
  <2>2. running' \in BOOLEAN /\ inUpdate' \in BOOLEAN BY <1>1, <1>2 DEF LoopTyped
  <2> QED BY <1>3, <2>1, <2>2 DEF LoopTyped
<1>8. ChainInv' BY <1>2, <1>5, <1>6 DEF ChainInv
<1>9. TimeInv'
  <2>1. inFrame' # 0 BY <1>5, <1>6
  <2> QED BY <1>2, <1>3, <1>4, <2>1 DEF TimeInv
<1> QED BY <1>7, <1>8, <1>9 DEF LoopInv

\* A frame simulates what has come together, step by step, and asks for the next one.
LEMMA TurnsKeep ==
  ASSUME LoopInv, UpdateBegins \/ UpdateReturns \/ FrameEnds
  PROVE  LoopInv'
<1> USE LoopNumbers
<1>1. LoopTyped /\ ChainInv /\ TimeInv BY DEF LoopInv
<1>2. accumulator \in Nat /\ updates \in Nat /\ inUpdate \in BOOLEAN BY <1>1 DEF LoopTyped
<1>3. CASE UpdateBegins
  <2>1. /\ inFrame # 0 /\ ~inUpdate /\ accumulator >= FixedDt
        /\ inUpdate' = TRUE /\ updates' = updates + 1
        /\ UNCHANGED <<running, handle, last, accumulator, asked, inFrame, clock, nextId,
                       starts, since>>
    BY <1>3 DEF UpdateBegins
  <2>2. Simulated' = Simulated
    <3>1. /\ updates * FixedDt \in Nat
          /\ (updates + 1) * FixedDt = updates * FixedDt + FixedDt
      BY <1>2, OneMoreStep
    <3>2. Simulated' = accumulator + (updates + 1) * FixedDt - FixedDt BY <2>1 DEF Simulated
    <3>3. Simulated = accumulator + updates * FixedDt - 0 BY <2>1 DEF Simulated
    <3> DEFINE done == updates * FixedDt
    <3>4. /\ done \in Nat /\ Simulated' = accumulator + (done + FixedDt) - FixedDt
          /\ Simulated = accumulator + done - 0
      BY <3>1, <3>2, <3>3
    <3> HIDE DEF done
    <3> QED BY <1>2, <3>4
  <2>3. LoopTyped'
    <3>1. updates' \in Nat BY <1>2, <2>1
    <3>2. Given(last)' /\ Given(since)' BY <1>1, <2>1 DEF LoopTyped, Given
    <3>3. inUpdate' \in BOOLEAN BY <2>1
    <3> QED BY <1>1, <2>1, <3>1, <3>2, <3>3 DEF LoopTyped
  <2>4. ChainInv' BY <1>1, <2>1 DEF ChainInv
  <2>5. since # None
    <3>1. accumulator # 0 BY <1>2, <2>1
    <3> QED BY <1>1, <3>1 DEF TimeInv
  <2>6. TimeInv' BY <1>1, <2>1, <2>2, <2>5 DEF TimeInv
  <2> QED BY <2>3, <2>4, <2>6 DEF LoopInv
<1>4. CASE UpdateReturns
  <2>1. /\ inUpdate /\ inUpdate' = FALSE /\ accumulator' = accumulator - FixedDt
        /\ UNCHANGED <<running, handle, last, asked, inFrame, clock, nextId, starts, updates,
                       since>>
    BY <1>4 DEF UpdateReturns
  <2>2. inFrame # 0 /\ accumulator >= FixedDt BY <1>1, <2>1 DEF TimeInv
  <2>3. accumulator' \in 0..(FixedDt - 1 + MaxFrameDt)
    <3>1. accumulator <= FixedDt - 1 + MaxFrameDt BY <1>1 DEF LoopTyped
    <3> QED BY <1>2, <2>1, <2>2, <3>1
  <2>4. Simulated' = Simulated
    <3>1. updates * FixedDt \in Nat BY <1>2, OneMoreStep
    <3>2. Simulated' = (accumulator - FixedDt) + updates * FixedDt - 0
      BY <2>1 DEF Simulated
    <3>3. Simulated = accumulator + updates * FixedDt - FixedDt BY <2>1 DEF Simulated
    <3> DEFINE done == updates * FixedDt
    <3>4. /\ done \in Nat /\ Simulated' = (accumulator - FixedDt) + done - 0
          /\ Simulated = accumulator + done - FixedDt
      BY <3>1, <3>2, <3>3
    <3> HIDE DEF done
    <3> QED BY <1>2, <3>4
  <2>5. LoopTyped'
    <3>1. Given(last)' /\ Given(since)' BY <1>1, <2>1 DEF LoopTyped, Given
    <3>2. inUpdate' \in BOOLEAN BY <2>1
    <3> QED BY <1>1, <2>1, <2>3, <3>1, <3>2 DEF LoopTyped
  <2>6. ChainInv' BY <1>1, <2>1 DEF ChainInv
  <2>7. since # None
    <3>1. accumulator # 0 BY <1>2, <2>2
    <3> QED BY <1>1, <3>1 DEF TimeInv
  <2>8. TimeInv' BY <1>1, <2>1, <2>2, <2>4, <2>7 DEF TimeInv
  <2> QED BY <2>5, <2>6, <2>8 DEF LoopInv
<1>5. CASE FrameEnds
  <2>1. /\ inFrame # 0 /\ ~inUpdate /\ accumulator < FixedDt /\ inFrame' = 0
        /\ UNCHANGED <<running, last, accumulator, inUpdate, clock, starts, updates, since>>
    BY <1>5 DEF FrameEnds
  <2>2. running /\ inFrame \in Int BY <1>1, <2>1 DEF ChainInv, LoopTyped
  <2>3. /\ asked' = {handle'} /\ handle' \in 1..nextId' /\ nextId' \in Nat
    <3>1. CASE inFrame > 0
      <4>1. asked = {} BY <1>1, <3>1 DEF ChainInv
      <4>2. nextId' = nextId + 1 /\ handle' = nextId + 1 /\ asked' = {nextId + 1}
        BY <1>5, <2>2, <3>1, <4>1 DEF FrameEnds, AskFrame
      <4> QED BY <1>1, <4>2 DEF LoopTyped
    <3>2. CASE inFrame < 0
      <4>1. asked = {handle} /\ asked \subseteq 1..nextId /\ nextId \in Nat
        BY <1>1, <3>2 DEF ChainInv, LoopTyped
      <4>2. ~(inFrame > 0) BY <2>2, <3>2
      <4>3. UNCHANGED <<handle, asked, nextId>> BY <1>5, <4>2 DEF FrameEnds
      <4> QED BY <4>1, <4>3
    <3> QED BY <2>1, <2>2, <3>1, <3>2
  <2>4. LoopTyped'
    <3>1. Given(last)' /\ Given(since)' BY <1>1, <2>1 DEF LoopTyped, Given
    <3>2. handle' \in 0..nextId' /\ asked' \subseteq 1..nextId' /\ inFrame' \in -1..nextId'
      BY <2>1, <2>3
    <3> QED BY <1>1, <2>1, <2>3, <3>1, <3>2 DEF LoopTyped
  <2>5. ChainInv' BY <2>1, <2>2, <2>3 DEF ChainInv
  <2>6. TimeInv'
    <3>1. Simulated' = Simulated BY <2>1 DEF Simulated
    <3> QED BY <1>1, <2>1, <3>1 DEF TimeInv
  <2> QED BY <2>4, <2>5, <2>6 DEF LoopInv
<1> QED BY <1>3, <1>4, <1>5

\* A running loop has one frame on its way and a stopped one none, and the simulation never
\* runs ahead of the frames' clock, for any step and clamp, while no update calls start or
\* stop and no tick is given a time that has passed (start, stop, frame, tick).
THEOREM LoopAlwaysKeepsTime ==
  ASSUME ~Reentrant, ManualBack = 0
  PROVE  LoopSpec => []LoopKeepsTime
<1>1. ASSUME LoopInv, [LoopNext]_loopVars PROVE LoopInv'
  <2>1. CASE UNCHANGED loopVars
    BY <1>1, <2>1 DEF loopVars, LoopInv, LoopTyped, Given, ChainInv, TimeInv, Simulated
  <2>2. CASE LoopNext
    BY <1>1, <2>2, StartStopKeep, FramesKeep, TurnsKeep DEF LoopNext
  <2> QED BY <1>1, <2>1, <2>2
<1>2. LoopInv => LoopKeepsTime
  <2> SUFFICES ASSUME LoopInv PROVE LoopKeepsTime OBVIOUS
  <2> USE LoopNumbers
  <2>1. LoopTyped /\ ChainInv /\ TimeInv BY DEF LoopInv
  <2>2. LoopTypeOK
    <3>1. last = None \/ last[1] \in 0..MaxTime
      <4>1. last = None \/ \E t \in 0..clock : last = <<t>> BY <2>1 DEF LoopTyped, Given
      <4>2. \A t \in 0..clock : t \in 0..MaxTime BY <2>1 DEF LoopTyped
      <4> QED BY <4>1, <4>2
    <3>2. accumulator \in -FixedDt..(FixedDt - 1 + MaxFrameDt) BY <2>1 DEF LoopTyped
    <3> QED BY <2>1, <3>1, <3>2 DEF LoopTyped, LoopTypeOK
  <2>3. OneFrameChain
    <3>1. asked = {} \/ asked = {handle} BY <2>1 DEF LoopTyped, ChainInv
    <3>2. Cardinality({}) = 0 /\ Cardinality({handle}) = 1 BY FS_EmptySet, FS_Singleton
    <3> QED BY <2>1, <3>1, <3>2 DEF OneFrameChain, ChainInv
  <2>4. SimulationKeepsTime
    <3>1. updates * FixedDt \in Nat BY <2>1, OneMoreStep DEF LoopTyped
    <3>2. CASE since = None
      <4>1. updates = 0 BY <2>1, <3>2 DEF TimeInv
      <4> QED BY <3>2, <4>1 DEF SimulationKeepsTime
    <3>3. CASE since # None
      <4>1. PICK f \in 0..clock : since = <<f>> BY <2>1, <3>3 DEF LoopTyped, Given
      <4>2. Simulated <= clock - f
        <5>1. CASE last = None BY <2>1, <3>3, <4>1, <5>1 DEF TimeInv
        <5>2. CASE last # None
          <6>1. PICK l \in 0..clock : last = <<l>> BY <2>1, <5>2 DEF LoopTyped, Given
          <6>2. Simulated <= l - f BY <2>1, <3>3, <4>1, <5>2, <6>1 DEF TimeInv
          <6>3. Simulated \in Int BY <2>1, <3>1 DEF Simulated, LoopTyped
          <6>4. clock \in Nat BY <2>1 DEF LoopTyped
          <6> HIDE DEF Simulated
          <6> QED BY <4>1, <6>1, <6>2, <6>3, <6>4
        <5> QED BY <5>1, <5>2
      <4>3. updates * FixedDt <= Simulated
        <5> DEFINE done == updates * FixedDt
        <5>1. /\ done \in Nat /\ accumulator \in Nat
              /\ Simulated = accumulator + done - (IF inUpdate THEN FixedDt ELSE 0)
              /\ inUpdate => accumulator >= FixedDt
          BY <2>1, <3>1 DEF Simulated, LoopTyped, TimeInv
        <5> HIDE DEF done
        <5>2. done <= Simulated BY <5>1
        <5> QED BY <5>2 DEF done
      <4>4. Simulated \in Int /\ clock \in Nat BY <2>1, <3>1 DEF Simulated, LoopTyped
      <4> HIDE DEF Simulated
      <4>5. updates * FixedDt <= clock - f BY <3>1, <4>1, <4>2, <4>3, <4>4
      <4> QED BY <3>3, <4>1, <4>5 DEF SimulationKeepsTime
    <3> QED BY <3>2, <3>3
  <2> QED BY <2>2, <2>3, <2>4 DEF LoopKeepsTime
<1> QED BY <1>1, <1>2, LoopBegins, PTL DEF LoopSpec

-----------------------------------------------------------------------------
(* The map scene                                                            *)

\* A place of whole tiles that is on the floor.
OnFloor(p) == \E tile \in Floor : p = PositionOf(tile)
Stepping(x) == \E to, left : x.step = <<[to |-> to, left |-> left]>> /\ OnFloor(to)

\* The fields of a scene.
Fields(x) == x = [entered |-> x.entered, inputs |-> x.inputs, pos |-> x.pos,
                  facing |-> x.facing, step |-> x.step, lastDir |-> x.lastDir,
                  accum |-> x.accum, dialogue |-> x.dialogue, choice |-> x.choice,
                  answer |-> x.answer, switch |-> x.switch, npcs |-> x.npcs]

\* The player stands on the floor, in whole tiles, and so does the end of a step.
Standing(x) == /\ OnFloor(x.pos) /\ (x.step = << >> \/ Stepping(x))
               /\ x.facing \in DOMAIN Vector
               /\ x.lastDir \in Dir \union {NoDir} /\ x.accum \in 0..RepeatTicks

\* What the player is asked and told.
Talking(x) == /\ x.dialogue \in Nat
              /\ x.choice = << >> \/ \E n \in 0..(Options - 1) : x.choice = <<n>>
              /\ x.answer \in -1..(Options - 1) /\ x.switch \in BOOLEAN

SceneOK(x) == /\ Fields(x) /\ Standing(x) /\ Talking(x) /\ x.entered \in BOOLEAN
              /\ DOMAIN x.inputs = 1..Devices /\ x.inputs = [i \in 1..Devices |-> x.inputs[i]]
              /\ \A i \in 1..Devices : InputOK(x.inputs[i])

\* From one scene to another the body stays, the talk stays, the hands stay.
SameBody(x, y) == /\ y.pos = x.pos /\ y.facing = x.facing /\ y.step = x.step
                  /\ y.lastDir = x.lastDir /\ y.accum = x.accum /\ y.entered = x.entered
SameTalk(x, y) == /\ y.dialogue = x.dialogue /\ y.choice = x.choice
                  /\ y.answer = x.answer /\ y.switch = x.switch
SameHands(x, y) == \A i \in 1..Devices : y.inputs[i].held = x.inputs[i].held

\* The parameters of the scene are numbers.
LEMMA SceneNumbers == /\ Unit \in Nat /\ Unit >= 1 /\ StepTicks \in Nat /\ StepTicks >= 1
                      /\ RepeatTicks \in Nat /\ RepeatTicks >= 1
                      /\ Options \in Nat /\ Options >= 1 /\ MaxInputs \in Nat
                      /\ Devices \in {1, 2}
<1>1. {Unit, Speed, StepTicks, RepeatTicks, Options} \subseteq Nat \ {0} /\ MaxInputs \in Nat
  BY MapAssumption
<1>2. Devices \in 1..2 BY MapAssumption
<1> QED BY <1>1, <1>2

\* The tile of a position of whole tiles.
LEMMA TileOfPosition ==
  ASSUME NEW tile \in Int \X Int
  PROVE  Tile(PositionOf(tile)) = tile
<1>1. \A k, u \in Int : u >= 1 => (k * u) \div u = k OBVIOUS
<1>2. tile[1] \in Int /\ tile[2] \in Int /\ tile = <<tile[1], tile[2]>> OBVIOUS
<1>3. (tile[1] * Unit) \div Unit = tile[1] /\ (tile[2] * Unit) \div Unit = tile[2]
  BY <1>1, <1>2, SceneNumbers
<1> QED BY <1>2, <1>3 DEF Tile, PositionOf

\* One step from a place of whole tiles leads to one: if it is free it is on the floor.
LEMMA StepIsWhole ==
  ASSUME NEW x, OnFloor(x.pos), NEW d \in Dir, StandsFree(x, Plus(x.pos, Vector[d], Unit))
  PROVE  OnFloor(Plus(x.pos, Vector[d], Unit))
<1>1. PICK tile \in Floor : x.pos = PositionOf(tile) BY DEF OnFloor
<1>2. tile[1] \in Int /\ tile[2] \in Int BY MapAssumption
<1>3. d \in {"up", "down", "left", "right"} BY MapAssumption DEF Vector
<1>4. PICK v \in Int \X Int : Vector[d] = v
  <2>1. /\ Vector["up"] = <<0, -1>> /\ Vector["down"] = <<0, 1>>
        /\ Vector["left"] = <<-1, 0>> /\ Vector["right"] = <<1, 0>>
    BY DEF Vector
  <2>2. /\ <<0, -1>> \in Int \X Int /\ <<0, 1>> \in Int \X Int
        /\ <<-1, 0>> \in Int \X Int /\ <<1, 0>> \in Int \X Int
    OBVIOUS
  <2>3. Vector[d] \in Int \X Int BY <1>3, <2>1, <2>2
  <2> QED BY <2>3
<1>5. <<tile[1] + v[1], tile[2] + v[2]>> \in Int \X Int BY <1>2, <1>4
<1> DEFINE next == <<tile[1] + v[1], tile[2] + v[2]>>
<1>6. Plus(x.pos, v, Unit) = PositionOf(next)
  <2>1. \A a, b, u \in Int : a * u + u * b = (a + b) * u OBVIOUS
  <2>2. v[1] \in Int /\ v[2] \in Int /\ Unit \in Int BY <1>4, SceneNumbers
  <2>3. /\ tile[1] * Unit + Unit * v[1] = (tile[1] + v[1]) * Unit
        /\ tile[2] * Unit + Unit * v[2] = (tile[2] + v[2]) * Unit
    BY <1>2, <2>1, <2>2
  <2> QED BY <1>1, <2>3 DEF Plus, PositionOf
<1>7. Tile(PositionOf(next)) = next BY <1>5, TileOfPosition
<1>8. Tile(Plus(x.pos, v, Unit)) \in Floor BY <1>4 DEF StandsFree
<1> HIDE DEF next
<1>9. next \in Floor BY <1>6, <1>7, <1>8
<1> QED BY <1>4, <1>6, <1>9 DEF OnFloor

-----------------------------------------------------------------------------
(* What the scene reads of its devices                                      *)

\* The first of some devices is one of them.
LEMMA FirstIsOne ==
  ASSUME NEW I, I \subseteq 1..Devices, I # {}
  PROVE  First(I) \in I
<1>1. Devices \in {1, 2} BY SceneNumbers
<1>2. \A i \in I : i = 1 \/ i = 2 BY <1>1
<1>3. \E i \in I : \A j \in I : i <= j
  <2>1. CASE 1 \in I BY <1>2, <2>1
  <2>2. CASE 1 \notin I
    <3>1. PICK i \in I : TRUE OBVIOUS
    <3>2. \A j \in I : j = 2 BY <1>2, <2>2
    <3>3. i = 2 /\ \A j \in I : i <= j BY <3>2
    <3> QED BY <3>3
  <2> QED BY <2>1, <2>2
<1> QED BY <1>3 DEF First

\* The same hands hold the same direction.
LEMMA SameHandsHold ==
  ASSUME NEW x, NEW y, SameHands(x, y)
  PROVE  CurrentDirection(y) = CurrentDirection(x)
<1>1. Holding(y) = Holding(x) BY DEF Holding, SameHands
<1>2. CASE Holding(x) = {} BY <1>1, <1>2 DEF CurrentDirection
<1>3. CASE Holding(x) # {}
  <2>1. First(Holding(x)) \in 1..Devices
    <3>1. Holding(x) \subseteq 1..Devices BY DEF Holding
    <3> QED BY <1>3, <3>1, FirstIsOne
  <2> QED BY <1>1, <1>3, <2>1 DEF CurrentDirection, SameHands
<1> QED BY <1>2, <1>3

\* What is held is a direction.
LEMMA HeldIsDirection ==
  ASSUME NEW x, SceneOK(x)
  PROVE  CurrentDirection(x) \in Dir \union {NoDir}
<1>1. CASE Holding(x) = {} BY <1>1 DEF CurrentDirection
<1>2. CASE Holding(x) # {}
  <2>1. Holding(x) \subseteq 1..Devices BY DEF Holding
  <2>2. First(Holding(x)) \in 1..Devices BY <1>2, <2>1, FirstIsOne
  <2>3. x.inputs[First(Holding(x))] \in InputState BY <2>2 DEF SceneOK, InputOK
  <2> QED BY <1>2, <2>3 DEF CurrentDirection, InputState
<1> QED BY <1>1, <1>2

\* A scene whose inputs are others of the right kind.
LEMMA OtherInput ==
  ASSUME NEW x, SceneOK(x), NEW i \in 1..Devices, NEW in, InputOK(in)
  PROVE  LET y == [x EXCEPT !.inputs[i] = in]
         IN  /\ SceneOK(y) /\ SameBody(x, y) /\ SameTalk(x, y) /\ y.npcs = x.npcs
             /\ in.held = x.inputs[i].held => SameHands(x, y)
<1> DEFINE all == [x.inputs EXCEPT ![i] = in]
           y == [x EXCEPT !.inputs = all]
<1>1. /\ DOMAIN all = 1..Devices /\ all = [j \in 1..Devices |-> all[j]]
      /\ \A j \in 1..Devices : all[j] = IF j = i THEN in ELSE x.inputs[j]
  BY DEF SceneOK
<1>2. [x EXCEPT !.inputs[i] = in] = y OBVIOUS
<1> HIDE DEF all
<1>3. /\ Fields(y) /\ SameBody(x, y) /\ SameTalk(x, y) /\ y.npcs = x.npcs /\ y.inputs = all
  BY DEF SceneOK, Fields, SameBody, SameTalk
<1> HIDE DEF y
<1>4. Standing(y) /\ Talking(y) /\ y.entered \in BOOLEAN
  BY <1>3 DEF SceneOK, SameBody, SameTalk, Standing, Stepping, Talking
<1>5. SceneOK(y) BY <1>1, <1>3, <1>4 DEF SceneOK
<1>6. in.held = x.inputs[i].held => SameHands(x, y) BY <1>1, <1>3 DEF SameHands
<1> QED BY <1>2, <1>3, <1>5, <1>6

\* A frame takes a fresh direction: only the press goes.
LEMMA EdgeIsTaken ==
  ASSUME NEW x, SceneOK(x), WithEdge(x) # {}
  PROVE  /\ SceneOK(ConsumeEdge(x)) /\ SameBody(x, ConsumeEdge(x))
         /\ SameTalk(x, ConsumeEdge(x)) /\ SameHands(x, ConsumeEdge(x))
         /\ ConsumeEdge(x).npcs = x.npcs
         /\ NextEdge(x) \in Dir
<1> DEFINE i == First(WithEdge(x))
<1>1. i \in WithEdge(x)
  <2>1. WithEdge(x) \subseteq 1..Devices BY DEF WithEdge
  <2> QED BY <2>1, FirstIsOne
<1>2. i \in 1..Devices /\ HasDirectionEdge(x.inputs[i]) BY <1>1 DEF WithEdge
<1>3. ConsumeEdge(x) = [x EXCEPT !.inputs[i] = ConsumeDirectionEdge(x.inputs[i])]
  BY DEF ConsumeEdge
<1> HIDE DEF i
<1>4. InputOK(x.inputs[i]) BY <1>2 DEF SceneOK
<1>5. /\ InputOK(ConsumeDirectionEdge(x.inputs[i]))
      /\ ConsumeDirectionEdge(x.inputs[i]).stack = x.inputs[i].stack
  BY <1>2, <1>4, EdgeKeeps
<1>6. ConsumeDirectionEdge(x.inputs[i]).held = x.inputs[i].held BY <1>4, <1>5 DEF InputOK
<1>7. NextEdge(x) \in Dir
  <2>1. x.inputs[i].edges \in Seq(Dir) /\ x.inputs[i].edges # << >>
    BY <1>2, <1>4 DEF InputOK, InputState, HasDirectionEdge
  <2>2. x.inputs[i].edges[1] \in Dir BY <2>1
  <2> QED BY <2>2 DEF NextEdge, i
<1> QED BY <1>2, <1>3, <1>5, <1>6, <1>7, OtherInput

\* A frame takes a tap: only the tap goes.
LEMMA TapIsTaken ==
  ASSUME NEW x, SceneOK(x), NEW a \in Actions, WithTap(x, a) # {}
  PROVE  /\ SceneOK(ConsumeTap(x, a)) /\ SameBody(x, ConsumeTap(x, a))
         /\ SameTalk(x, ConsumeTap(x, a)) /\ SameHands(x, ConsumeTap(x, a))
         /\ ConsumeTap(x, a).npcs = x.npcs
<1> DEFINE i == First(WithTap(x, a))
<1>1. i \in WithTap(x, a)
  <2>1. WithTap(x, a) \subseteq 1..Devices BY DEF WithTap
  <2> QED BY <2>1, FirstIsOne
<1>2. i \in 1..Devices /\ HasQueued(x.inputs[i], a) BY <1>1 DEF WithTap
<1>3. ConsumeTap(x, a) = [x EXCEPT !.inputs[i] = Consume(x.inputs[i], a)]
  BY DEF ConsumeTap
<1> HIDE DEF i
<1>4. InputOK(x.inputs[i]) BY <1>2 DEF SceneOK
<1>5. InputOK(Consume(x.inputs[i], a)) /\ Consume(x.inputs[i], a).stack = x.inputs[i].stack
  BY <1>2, <1>4, TapsKeep
<1>6. Consume(x.inputs[i], a).held = x.inputs[i].held BY <1>4, <1>5 DEF InputOK
<1> QED BY <1>2, <1>3, <1>5, <1>6, OtherInput

-----------------------------------------------------------------------------
(* The frame, one operator after the other                                  *)

\* Two fields of a scene changed: it has the fields of a scene.
LEMMA TwoFields ==
  ASSUME NEW x, Fields(x), NEW v, NEW w
  PROVE  /\ Fields([x EXCEPT !.pos = v, !.step = w])
         /\ Fields([x EXCEPT !.facing = v, !.step = w])
         /\ Fields([x EXCEPT !.accum = v, !.lastDir = w])
         /\ Fields([x EXCEPT !.choice = v, !.answer = w])
<1>1. /\ Fields([x EXCEPT !.pos = v]) /\ Fields([x EXCEPT !.facing = v])
      /\ Fields([x EXCEPT !.accum = v]) /\ Fields([x EXCEPT !.choice = v])
  BY DEF Fields
<1>2. \A y : Fields(y) => /\ Fields([y EXCEPT !.step = w]) /\ Fields([y EXCEPT !.lastDir = w])
                          /\ Fields([y EXCEPT !.answer = w])
  BY DEF Fields
<1>3. /\ [x EXCEPT !.pos = v, !.step = w] = [[x EXCEPT !.pos = v] EXCEPT !.step = w]
      /\ [x EXCEPT !.facing = v, !.step = w] = [[x EXCEPT !.facing = v] EXCEPT !.step = w]
      /\ [x EXCEPT !.accum = v, !.lastDir = w] = [[x EXCEPT !.accum = v] EXCEPT !.lastDir = w]
      /\ [x EXCEPT !.choice = v, !.answer = w] = [[x EXCEPT !.choice = v] EXCEPT !.answer = w]
  OBVIOUS
<1> QED BY <1>1, <1>2, <1>3

\* The player with another body on the floor is a scene still.
LEMMA OtherBody ==
  ASSUME NEW x, SceneOK(x), NEW y, Fields(y), Standing(y), SameTalk(x, y),
         y.entered = x.entered, y.inputs = x.inputs
  PROVE  SceneOK(y) /\ SameHands(x, y)
BY DEF SceneOK, SameTalk, SameHands, Talking

\* Animating a step ends on the floor where the step led.
LEMMA AdvanceKeeps ==
  ASSUME NEW x, SceneOK(x)
  PROVE  /\ SceneOK(AdvanceStep(x)) /\ SameTalk(x, AdvanceStep(x))
         /\ SameHands(x, AdvanceStep(x)) /\ AdvanceStep(x).inputs = x.inputs
         /\ AdvanceStep(x).npcs = x.npcs /\ AdvanceStep(x).entered = x.entered
         /\ AdvanceStep(x).lastDir = x.lastDir /\ AdvanceStep(x).accum = x.accum
         /\ x.step = << >> => AdvanceStep(x) = x
<1>1. Fields(x) /\ Standing(x) BY DEF SceneOK
<1>2. CASE x.step = << >> BY <1>2 DEF AdvanceStep, SameTalk, SameHands
<1>3. CASE x.step # << >>
  <2>1. PICK to, left : x.step = <<[to |-> to, left |-> left]>> /\ OnFloor(to)
    BY <1>1, <1>3 DEF Standing, Stepping
  <2>2. CASE x.step[1].left > 1
    <3> DEFINE step == <<[to |-> to, left |-> left - 1]>>
               y == [x EXCEPT !.step = step]
    <3>1. [x.step EXCEPT ![1].left = @ - 1] = step BY <2>1
    <3>2. AdvanceStep(x) = y BY <1>3, <2>2, <3>1 DEF AdvanceStep
    <3> HIDE DEF step
    <3>3. /\ Fields(y) /\ y.pos = x.pos /\ y.facing = x.facing /\ y.step = step
          /\ y.lastDir = x.lastDir /\ y.accum = x.accum /\ y.entered = x.entered
          /\ y.inputs = x.inputs /\ y.npcs = x.npcs /\ SameTalk(x, y)
      BY <1>1 DEF Fields, SameTalk
    <3> HIDE DEF y
    <3>4. Stepping(y) BY <2>1, <3>3 DEF Stepping, step
    <3>5. Standing(y) BY <1>1, <3>3, <3>4 DEF Standing
    <3> QED BY <1>3, <3>2, <3>3, <3>5, OtherBody
  <2>3. CASE ~(x.step[1].left > 1)
    <3> DEFINE y == [x EXCEPT !.pos = to, !.step = << >>]
    <3>1. AdvanceStep(x) = y
      <4>1. x.step[1].to = to BY <2>1
      <4> QED BY <1>3, <2>3, <4>1 DEF AdvanceStep
    <3>2. Fields(y) BY <1>1, TwoFields
    <3>3. /\ y.pos = to /\ y.facing = x.facing /\ y.step = << >>
          /\ y.lastDir = x.lastDir /\ y.accum = x.accum /\ y.entered = x.entered
          /\ y.inputs = x.inputs /\ y.npcs = x.npcs /\ SameTalk(x, y)
      BY <1>1 DEF Fields, SameTalk
    <3> HIDE DEF y
    <3>4. Standing(y) BY <1>1, <2>1, <3>3 DEF Standing
    <3> QED BY <1>3, <3>1, <3>3, <3>4, <3>2, OtherBody
  <2> QED BY <2>2, <2>3
<1> QED BY <1>2, <1>3

\* A step is tried: it begins where the way is free, and only then.
LEMMA TryKeeps ==
  ASSUME NEW x, SceneOK(x), NEW d \in Dir
  PROVE  /\ SceneOK(TryStep(x, d)) /\ SameTalk(x, TryStep(x, d)) /\ SameHands(x, TryStep(x, d))
         /\ TryStep(x, d).npcs = x.npcs /\ TryStep(x, d).entered = x.entered
         /\ TryStep(x, d).pos = x.pos
         /\ TryStep(x, d).lastDir = x.lastDir /\ TryStep(x, d).accum = x.accum
         /\ x.step = << >> => TryStep(x, d).step # << >> \/ Blocked(x, d)
<1> DEFINE to == Plus(x.pos, Vector[d], Unit)
           step == <<[to |-> to, left |-> StepTicks]>>
<1>1. Fields(x) /\ Standing(x) BY DEF SceneOK
<1>2. d \in DOMAIN Vector BY MapAssumption
<1>3. CASE StandsFree(x, to)
  <2> DEFINE y == [x EXCEPT !.facing = d, !.step = step]
  <2>1. TryStep(x, d) = y BY <1>3 DEF TryStep
  <2>2. step # << >> /\ \E at, left : step = <<[to |-> at, left |-> left]>> /\ OnFloor(at)
    <3>1. OnFloor(to) BY <1>1, <1>3, StepIsWhole DEF Standing
    <3> HIDE DEF to
    <3> QED BY <3>1
  <2> HIDE DEF step, to
  <2>3. Fields(y) BY <1>1, TwoFields
  <2>4. /\ y.pos = x.pos /\ y.facing = d /\ y.step = step
        /\ y.lastDir = x.lastDir /\ y.accum = x.accum /\ y.entered = x.entered
        /\ y.inputs = x.inputs /\ y.npcs = x.npcs /\ SameTalk(x, y)
    BY <1>1 DEF Fields, SameTalk
  <2> HIDE DEF y
  <2>5. Standing(y) BY <1>1, <1>2, <2>2, <2>4 DEF Standing, Stepping
  <2> QED BY <2>1, <2>2, <2>4, <2>5, <2>3, OtherBody
<1>4. CASE ~StandsFree(x, to)
  <2> DEFINE y == [x EXCEPT !.facing = d]
  <2>1. TryStep(x, d) = y BY <1>4 DEF TryStep
  <2>2. /\ Fields(y) /\ y.pos = x.pos /\ y.facing = d /\ y.step = x.step
        /\ y.lastDir = x.lastDir /\ y.accum = x.accum /\ y.entered = x.entered
        /\ y.inputs = x.inputs /\ y.npcs = x.npcs /\ SameTalk(x, y)
    BY <1>1 DEF Fields, SameTalk
  <2>3. Blocked(x, d) BY <1>4 DEF Blocked
  <2> HIDE DEF y, to
  <2>4. Standing(y) BY <1>1, <1>2, <2>2 DEF Standing, Stepping
  <2> QED BY <2>1, <2>2, <2>3, <2>4, OtherBody
<1> QED BY <1>3, <1>4

\* The scene that has counted a direction for some time.
Counted(x, a, d) == [x EXCEPT !.accum = a, !.lastDir = d]

\* A scene with another direction counted.
LEMMA OtherCount ==
  ASSUME NEW x, SceneOK(x), NEW a \in 0..RepeatTicks, NEW d \in Dir \union {NoDir},
         NEW y, y = Counted(x, a, d)
  PROVE  /\ SceneOK(y) /\ SameTalk(x, y) /\ SameHands(x, y) /\ y.pos = x.pos
         /\ y.step = x.step /\ y.npcs = x.npcs /\ y.entered = x.entered
         /\ y.lastDir = d /\ y.accum = a
<1>1. Fields(x) /\ Standing(x) BY DEF SceneOK
<1>2. Fields(y) BY <1>1, TwoFields DEF Counted
<1>3. /\ y.pos = x.pos /\ y.facing = x.facing /\ y.step = x.step
      /\ y.lastDir = d /\ y.accum = a /\ y.entered = x.entered
      /\ y.inputs = x.inputs /\ y.npcs = x.npcs /\ SameTalk(x, y)
  BY <1>1 DEF Fields, SameTalk, Counted
<1>4. Standing(y) BY <1>1, <1>3 DEF Standing, Stepping
<1>5. SceneOK(y) /\ SameHands(x, y) BY <1>3, <1>4, <1>2, OtherBody
<1> QED BY <1>3, <1>5

\* Turning to a direction remembers it and tries a step.
LEMMA TurnKeeps ==
  ASSUME NEW x, SceneOK(x), NEW d \in Dir
  PROVE  /\ SceneOK(TurnTo(x, d)) /\ SameTalk(x, TurnTo(x, d)) /\ SameHands(x, TurnTo(x, d))
         /\ TurnTo(x, d).npcs = x.npcs /\ TurnTo(x, d).entered = x.entered
         /\ TurnTo(x, d).pos = x.pos /\ TurnTo(x, d).lastDir = d /\ TurnTo(x, d).accum = 0
<1> PICK y : y = Counted(x, 0, d) OBVIOUS
<1>1. /\ SceneOK(y) /\ SameTalk(x, y) /\ SameHands(x, y) /\ y.pos = x.pos
      /\ y.step = x.step /\ y.npcs = x.npcs /\ y.entered = x.entered
      /\ y.lastDir = d /\ y.accum = 0
  <2>1. 0 \in 0..RepeatTicks /\ d \in Dir \union {NoDir} BY SceneNumbers
  <2> QED BY <2>1, OtherCount
<1>2. TurnTo(x, d) = IF y.step = << >> THEN TryStep(y, d) ELSE y BY DEF TurnTo, Counted
<1>3. CASE y.step = << >>
  <2>1. /\ SceneOK(TryStep(y, d)) /\ SameTalk(y, TryStep(y, d)) /\ SameHands(y, TryStep(y, d))
        /\ TryStep(y, d).npcs = y.npcs /\ TryStep(y, d).entered = y.entered
        /\ TryStep(y, d).pos = y.pos
        /\ TryStep(y, d).lastDir = y.lastDir /\ TryStep(y, d).accum = y.accum
    BY <1>1, TryKeeps
  <2> QED BY <1>1, <1>2, <1>3, <2>1 DEF SameTalk, SameHands
<1>4. CASE y.step # << >> BY <1>1, <1>2, <1>4
<1> QED BY <1>3, <1>4

\* A direction held on counts the time, and past the delay it steps on or is blocked.
LEMMA RepeatKeeps ==
  ASSUME NEW x, SceneOK(x), NEW d \in Dir
  PROVE  LET z == RepeatHeld(x, d)
         IN  /\ SceneOK(z) /\ SameTalk(x, z) /\ SameHands(x, z)
             /\ z.npcs = x.npcs /\ z.entered = x.entered
             /\ z.pos = x.pos /\ z.lastDir = x.lastDir
             /\ z.accum = IF x.accum >= RepeatTicks THEN RepeatTicks ELSE x.accum + 1
             /\ z.accum >= RepeatTicks => z.step # << >> \/ Blocked(x, d)
             /\ z.accum < RepeatTicks => z.step = x.step
<1> PICK a : a = IF x.accum >= RepeatTicks THEN RepeatTicks ELSE x.accum + 1 OBVIOUS
<1> PICK y : y = [x EXCEPT !.accum = a] OBVIOUS
<1>1. x.accum \in 0..RepeatTicks /\ x.lastDir \in Dir \union {NoDir} /\ Fields(x)
  BY DEF SceneOK, Standing
<1>2. a \in 0..RepeatTicks BY <1>1, SceneNumbers
<1>3. y = Counted(x, a, x.lastDir)
  <2>1. Fields(y) /\ y.lastDir = x.lastDir BY <1>1 DEF Fields
  <2>2. [y EXCEPT !.lastDir = y.lastDir] = y BY <2>1 DEF Fields
  <2>3. Counted(x, a, x.lastDir) = [y EXCEPT !.lastDir = x.lastDir]
    BY DEF Counted
  <2> QED BY <2>1, <2>2, <2>3
<1>4. /\ SceneOK(y) /\ SameTalk(x, y) /\ SameHands(x, y) /\ y.pos = x.pos
      /\ y.step = x.step /\ y.npcs = x.npcs /\ y.entered = x.entered
      /\ y.lastDir = x.lastDir /\ y.accum = a
  BY <1>1, <1>2, <1>3, OtherCount
<1> PICK z : z = RepeatHeld(x, d) OBVIOUS
<1>5. z = IF a >= RepeatTicks /\ y.step = << >> THEN TryStep(y, d) ELSE y
  BY DEF RepeatHeld
<1>6. Blocked(y, d) => Blocked(x, d)
  BY <1>4 DEF Blocked, StandsFree
<1>7. CASE a >= RepeatTicks /\ y.step = << >>
  <2>1. /\ SceneOK(TryStep(y, d)) /\ SameTalk(y, TryStep(y, d)) /\ SameHands(y, TryStep(y, d))
        /\ TryStep(y, d).npcs = y.npcs /\ TryStep(y, d).entered = y.entered
        /\ TryStep(y, d).pos = y.pos
        /\ TryStep(y, d).lastDir = y.lastDir /\ TryStep(y, d).accum = y.accum
        /\ TryStep(y, d).step # << >> \/ Blocked(y, d)
    BY <1>4, <1>7, TryKeeps
  <2>2. z = TryStep(y, d) BY <1>5, <1>7
  <2>3. /\ SceneOK(z) /\ SameTalk(x, z) /\ SameHands(x, z)
        /\ z.npcs = x.npcs /\ z.entered = x.entered
        /\ z.pos = x.pos /\ z.lastDir = x.lastDir /\ z.accum = a
        /\ z.step # << >> \/ Blocked(x, d)
    BY <1>4, <1>6, <2>1, <2>2 DEF SameTalk, SameHands
  <2>4. ~(a < RepeatTicks) BY <1>2, <1>7, SceneNumbers
  <2> QED BY <2>3, <2>4
<1>8. CASE ~(a >= RepeatTicks /\ y.step = << >>)
  <2>1. z = y BY <1>5, <1>8
  <2> QED BY <1>4, <1>8, <2>1
<1> QED BY <1>7, <1>8

\* Movement: nothing moves while a line is open; otherwise a hand that goes on holding the
\* same direction counts, and past the delay it steps on or is blocked.
LEMMA MovementKeeps ==
  ASSUME NEW x, SceneOK(x)
  PROVE  LET z == HandleMovement(x)
             held == CurrentDirection(x)
         IN  /\ SceneOK(z) /\ SameTalk(x, z) /\ SameHands(x, z)
             /\ z.npcs = x.npcs /\ z.entered = x.entered /\ z.pos = x.pos
             /\ x.dialogue > 0 => z = x
             /\ x.dialogue = 0 /\ WithEdge(x) = {} /\ held # NoDir =>
                  /\ z.lastDir = held
                  /\ x.lastDir = held =>
                       /\ z.accum = IF x.accum >= RepeatTicks THEN RepeatTicks ELSE x.accum + 1
                       /\ z.accum >= RepeatTicks => z.step # << >> \/ Blocked(x, held)
<1> PICK z : z = HandleMovement(x) OBVIOUS
<1> PICK held : held = CurrentDirection(x) OBVIOUS
<1>1. held \in Dir \union {NoDir} BY HeldIsDirection
<1>2. x.dialogue \in Nat BY DEF SceneOK, Talking
<1>3. CASE x.dialogue > 0
  <2>1. z = x BY <1>3 DEF HandleMovement
  <2>2. x.dialogue # 0 BY <1>3
  <2>3. SameTalk(x, x) /\ SameHands(x, x) BY DEF SameTalk, SameHands
  <2> QED BY <2>1, <2>2, <2>3
<1>4. CASE ~(x.dialogue > 0)
  <2>1. CASE x.step = << >> /\ WithEdge(x) # {}
    <3>1. z = TurnTo(ConsumeEdge(x), NextEdge(x)) BY <1>4, <2>1 DEF HandleMovement
    <3>2. /\ SceneOK(ConsumeEdge(x)) /\ SameBody(x, ConsumeEdge(x))
          /\ SameTalk(x, ConsumeEdge(x)) /\ SameHands(x, ConsumeEdge(x))
          /\ ConsumeEdge(x).npcs = x.npcs /\ NextEdge(x) \in Dir
      BY <2>1, EdgeIsTaken
    <3>3. PICK y : y = ConsumeEdge(x) OBVIOUS
    <3>4. /\ SceneOK(z) /\ SameTalk(y, z) /\ SameHands(y, z) /\ z.npcs = y.npcs
          /\ z.entered = y.entered /\ z.pos = y.pos
      BY <3>1, <3>2, <3>3, TurnKeeps
    <3>5. /\ SceneOK(z) /\ SameTalk(x, z) /\ SameHands(x, z)
          /\ z.npcs = x.npcs /\ z.entered = x.entered /\ z.pos = x.pos
      BY <3>2, <3>3, <3>4 DEF SameTalk, SameHands, SameBody
    <3> QED BY <1>4, <2>1, <3>5
  <2>2. CASE ~(x.step = << >> /\ WithEdge(x) # {}) /\ held = NoDir
    <3>1. z = Counted(x, 0, NoDir) BY <1>4, <2>2 DEF HandleMovement, Counted
    <3>2. 0 \in 0..RepeatTicks BY SceneNumbers
    <3>3. /\ SceneOK(z) /\ SameTalk(x, z) /\ SameHands(x, z)
          /\ z.npcs = x.npcs /\ z.entered = x.entered /\ z.pos = x.pos
      BY <3>1, <3>2, OtherCount
    <3> QED BY <1>4, <2>2, <3>3
  <2>3. CASE ~(x.step = << >> /\ WithEdge(x) # {}) /\ held # NoDir /\ held # x.lastDir
    <3>1. z = TurnTo(x, held) BY <1>4, <2>3 DEF HandleMovement
    <3>2. /\ SceneOK(z) /\ SameTalk(x, z) /\ SameHands(x, z)
          /\ z.npcs = x.npcs /\ z.entered = x.entered /\ z.pos = x.pos /\ z.lastDir = held
      BY <1>1, <2>3, <3>1, TurnKeeps
    <3> QED BY <1>4, <2>3, <3>2
  <2>4. CASE ~(x.step = << >> /\ WithEdge(x) # {}) /\ held # NoDir /\ held = x.lastDir
    <3>1. z = RepeatHeld(x, held) BY <1>4, <2>4 DEF HandleMovement
    <3>2. /\ SceneOK(z) /\ SameTalk(x, z) /\ SameHands(x, z)
          /\ z.npcs = x.npcs /\ z.entered = x.entered /\ z.pos = x.pos
          /\ z.lastDir = x.lastDir
          /\ z.accum = IF x.accum >= RepeatTicks THEN RepeatTicks ELSE x.accum + 1
          /\ z.accum >= RepeatTicks => z.step # << >> \/ Blocked(x, held)
      BY <1>1, <2>4, <3>1, RepeatKeeps
    <3> QED BY <1>4, <2>4, <3>2
  <2> QED BY <2>1, <2>2, <2>3, <2>4
<1> QED BY <1>3, <1>4

\* A scene that is told something else is a scene still.
LEMMA OtherTalk ==
  ASSUME NEW x, SceneOK(x), NEW y, Fields(y), Talking(y), SameBody(x, y), y.inputs = x.inputs
  PROVE  SceneOK(y) /\ SameHands(x, y)
BY DEF SceneOK, SameBody, SameHands, Standing, Stepping

\* A page says a number of lines and asks a number of questions.
LEMMA TimesIsNumber ==
  ASSUME NEW script \in Scripts, NEW command
  PROVE  Times(script, command) \in Nat
<1> DEFINE places == {i \in DOMAIN script : script[i] = command}
<1>1. script \in Seq({"say", "ask", "flip"}) BY MapAssumption
<1>2. DOMAIN script = 1..Len(script) /\ Len(script) \in Int BY <1>1
<1>3. IsFiniteSet(1..Len(script)) BY <1>2, FS_Interval
<1>4. places \subseteq 1..Len(script) BY <1>2
<1> HIDE DEF places
<1>5. IsFiniteSet(places) BY <1>3, <1>4, FS_Subset
<1>6. Cardinality(places) \in Nat BY <1>5, FS_CardinalityType
<1> QED BY <1>6 DEF Times, places

\* What a page emits changes the talk alone.
LEMMA EmittedKeeps ==
  ASSUME NEW x, SceneOK(x), NEW script \in Scripts
  PROVE  /\ SceneOK(Emitted(x, script)) /\ SameBody(x, Emitted(x, script))
         /\ SameHands(x, Emitted(x, script)) /\ Emitted(x, script).npcs = x.npcs
<1> PICK lines : lines = x.dialogue + Times(script, "say") OBVIOUS
<1> PICK question : question = IF Times(script, "ask") > 0 THEN <<0>> ELSE x.choice OBVIOUS
<1> PICK switch : switch = IF Times(script, "flip") % 2 = 1 THEN ~x.switch ELSE x.switch
  OBVIOUS
<1> PICK y : y = [x EXCEPT !.dialogue = lines, !.choice = question, !.switch = switch] OBVIOUS
<1>1. Fields(x) /\ Talking(x) BY DEF SceneOK
<1>2. y = Emitted(x, script) BY DEF Emitted
<1>3. lines \in Nat BY <1>1, TimesIsNumber DEF Talking
<1>4. question = << >> \/ \E n \in 0..(Options - 1) : question = <<n>>
  <2>1. 0 \in 0..(Options - 1) BY SceneNumbers
  <2> QED BY <1>1, <2>1 DEF Talking
<1>5. switch \in BOOLEAN
  <2>1. x.switch \in BOOLEAN BY <1>1 DEF Talking
  <2> QED BY <2>1, Zenon
<1>6. Fields(y)
  <2> PICK y1 : y1 = [x EXCEPT !.dialogue = lines] OBVIOUS
  <2> PICK y2 : y2 = [y1 EXCEPT !.choice = question] OBVIOUS
  <2>1. y = [y2 EXCEPT !.switch = switch] OBVIOUS
  <2>2. Fields(y1) BY <1>1 DEF Fields
  <2>3. Fields(y2) BY <2>2 DEF Fields
  <2> QED BY <2>1, <2>3 DEF Fields
<1>7. /\ y.pos = x.pos /\ y.facing = x.facing /\ y.step = x.step
      /\ y.lastDir = x.lastDir /\ y.accum = x.accum /\ y.entered = x.entered
      /\ y.inputs = x.inputs /\ y.npcs = x.npcs
      /\ y.dialogue = lines /\ y.choice = question /\ y.answer = x.answer /\ y.switch = switch
  BY <1>1 DEF Fields
<1>8. Talking(y)
  <2>1. y.dialogue \in Nat BY <1>3, <1>7
  <2>2. y.choice = << >> \/ \E n \in 0..(Options - 1) : y.choice = <<n>> BY <1>4, <1>7
  <2>3. y.answer \in -1..(Options - 1) BY <1>1, <1>7 DEF Talking
  <2>4. y.switch \in BOOLEAN BY <1>5, <1>7
  <2> QED BY <2>1, <2>2, <2>3, <2>4 DEF Talking
<1>9. SameBody(x, y) BY <1>7 DEF SameBody
<1>10. SceneOK(y) /\ SameHands(x, y) BY <1>6, <1>7, <1>8, <1>9, OtherTalk
<1> QED BY <1>2, <1>7, <1>9, <1>10

\* Fewer lines are open.
Told(x, n) == [x EXCEPT !.dialogue = n]

\* A scene with other lines to read.
LEMMA OtherLines ==
  ASSUME NEW x, SceneOK(x), NEW n \in Nat, NEW y, y = Told(x, n)
  PROVE  /\ SceneOK(y) /\ SameBody(x, y) /\ SameHands(x, y) /\ y.npcs = x.npcs
         /\ y.dialogue = n /\ y.choice = x.choice
<1>1. Fields(x) /\ Talking(x) BY DEF SceneOK
<1>2. Fields(y) /\ y.pos = x.pos /\ y.facing = x.facing /\ y.step = x.step
  BY <1>1 DEF Fields, Told
<1>3. /\ y.lastDir = x.lastDir /\ y.accum = x.accum /\ y.entered = x.entered
      /\ y.inputs = x.inputs /\ y.npcs = x.npcs
      /\ y.dialogue = n /\ y.choice = x.choice /\ y.answer = x.answer /\ y.switch = x.switch
  BY <1>1 DEF Fields, Told
<1>4. Talking(y) BY <1>1, <1>3 DEF Talking
<1>5. SameBody(x, y) BY <1>2, <1>3 DEF SameBody
<1> QED BY <1>2, <1>3, <1>4, <1>5, OtherTalk

\* Closing a line: at the last one the box closes.
LEMMA AdvanceDialogueKeeps ==
  ASSUME NEW x, SceneOK(x)
  PROVE  /\ SceneOK(AdvanceDialogue(x)) /\ SameBody(x, AdvanceDialogue(x))
         /\ SameHands(x, AdvanceDialogue(x)) /\ AdvanceDialogue(x).npcs = x.npcs
<1>1. x.dialogue \in Nat BY DEF SceneOK, Talking
<1>2. CASE x.dialogue = 0 BY <1>2 DEF AdvanceDialogue, SameBody, SameHands
<1>3. CASE x.dialogue # 0
  <2>1. x.dialogue - 1 \in Nat BY <1>1, <1>3
  <2>2. AdvanceDialogue(x) = Told(x, x.dialogue - 1) BY <1>3 DEF AdvanceDialogue, Told
  <2> QED BY <2>1, <2>2, OtherLines
<1> QED BY <1>2, <1>3

\* Confirming closes a line or talks to whom the player faces; nobody moves.
LEMMA ConfirmKeeps ==
  ASSUME NEW x, SceneOK(x), NEW script \in Scripts
  PROVE  LET z == HandleConfirm(x, script)
         IN  SceneOK(z) /\ SameBody(x, z) /\ SameHands(x, z) /\ z.npcs = x.npcs
<1> PICK z : z = HandleConfirm(x, script) OBVIOUS
<1>1. CASE WithTap(x, "confirm") = {}
  <2>1. z = x BY <1>1 DEF HandleConfirm
  <2> QED BY <2>1 DEF SameBody, SameHands
<1>2. CASE WithTap(x, "confirm") # {}
  <2> PICK y : y = ConsumeTap(x, "confirm") OBVIOUS
  <2>1. SceneOK(y) /\ SameBody(x, y) /\ SameHands(x, y) /\ y.npcs = x.npcs
    <3>1. "confirm" \in Actions BY DEF Actions
    <3> QED BY <1>2, <3>1, TapIsTaken
  <2>2. z = IF y.dialogue > 0 THEN AdvanceDialogue(y)
            ELSE IF y.step # << >> THEN y ELSE TryInteract(y, script)
    BY <1>2 DEF HandleConfirm
  <2>3. z = AdvanceDialogue(y) \/ z = y \/ z = Emitted(y, script)
    BY <2>2 DEF TryInteract
  <2>4. SceneOK(z) /\ SameBody(y, z) /\ SameHands(y, z) /\ z.npcs = y.npcs
    <3>1. SameBody(y, y) /\ SameHands(y, y) BY DEF SameBody, SameHands
    <3> QED BY <2>1, <2>3, <3>1, AdvanceDialogueKeeps, EmittedKeeps
  <2> QED BY <2>1, <2>4 DEF SameBody, SameHands
<1> QED BY <1>1, <1>2

\* Cancelling closes every line; nobody moves.
LEMMA CancelKeeps ==
  ASSUME NEW x, SceneOK(x)
  PROVE  LET z == HandleCancel(x)
         IN  SceneOK(z) /\ SameBody(x, z) /\ SameHands(x, z) /\ z.npcs = x.npcs
<1> PICK z : z = HandleCancel(x) OBVIOUS
<1>1. CASE WithTap(x, "cancel") = {}
  <2>1. z = x BY <1>1 DEF HandleCancel
  <2> QED BY <2>1 DEF SameBody, SameHands
<1>2. CASE WithTap(x, "cancel") # {}
  <2> PICK y : y = ConsumeTap(x, "cancel") OBVIOUS
  <2>1. SceneOK(y) /\ SameBody(x, y) /\ SameHands(x, y) /\ y.npcs = x.npcs
    <3>1. "cancel" \in Actions BY DEF Actions
    <3> QED BY <1>2, <3>1, TapIsTaken
  <2>2. z = Told(y, 0) BY <1>2 DEF HandleCancel, Told
  <2>3. SceneOK(z) /\ SameBody(y, z) /\ SameHands(y, z) /\ z.npcs = y.npcs
    BY <2>1, <2>2, OtherLines
  <2> QED BY <2>1, <2>3 DEF SameBody, SameHands
<1> QED BY <1>1, <1>2

\* No choice, or one at an option.
AnOption(c) == c = << >> \/ \E n \in 0..(Options - 1) : c = <<n>>

\* The choice and the answer that are left.
Chosen(x, choice, answer) == [x EXCEPT !.choice = choice, !.answer = answer]

\* A scene with another choice or answer.
LEMMA OtherChoice ==
  ASSUME NEW x, SceneOK(x), NEW c, AnOption(c),
         NEW a \in -1..(Options - 1), NEW y, y = Chosen(x, c, a)
  PROVE  SceneOK(y) /\ SameBody(x, y) /\ SameHands(x, y) /\ y.npcs = x.npcs
<1>1. Fields(x) /\ Talking(x) BY DEF SceneOK
<1>2. Fields(y) BY <1>1, TwoFields DEF Chosen
<1>3. /\ y.pos = x.pos /\ y.facing = x.facing /\ y.step = x.step
      /\ y.lastDir = x.lastDir /\ y.accum = x.accum /\ y.entered = x.entered
      /\ y.inputs = x.inputs /\ y.npcs = x.npcs
      /\ y.dialogue = x.dialogue /\ y.choice = c /\ y.answer = a /\ y.switch = x.switch
  BY <1>1 DEF Fields, Chosen
<1>4. Talking(y) BY <1>1, <1>3 DEF Talking, AnOption
<1>5. SameBody(x, y) BY <1>3 DEF SameBody
<1> QED BY <1>2, <1>3, <1>4, <1>5, OtherTalk

\* The cursor goes round the options and the answer is one of them, or none; nobody moves.
LEMMA ChoiceKeeps ==
  ASSUME NEW x, SceneOK(x), x.choice # << >>
  PROVE  LET z == HandleChoiceInput(x)
         IN  SceneOK(z) /\ SameBody(x, z) /\ SameHands(x, z) /\ z.npcs = x.npcs
<1> PICK z : z = HandleChoiceInput(x) OBVIOUS
<1> PICK edge : edge = IF WithEdge(x) = {} THEN NoDir ELSE NextEdge(x) OBVIOUS
<1> PICK y : y = IF edge = NoDir THEN x ELSE ConsumeEdge(x) OBVIOUS
<1>1. SceneOK(y) /\ SameBody(x, y) /\ SameTalk(x, y) /\ SameHands(x, y) /\ y.npcs = x.npcs
  <2>1. CASE edge = NoDir BY <2>1 DEF SameBody, SameTalk, SameHands
  <2>2. CASE edge # NoDir BY <2>2, EdgeIsTaken
  <2> QED BY <2>1, <2>2
<1>2. PICK n \in 0..(Options - 1) : y.choice = <<n>>
  BY <1>1 DEF SceneOK, Talking, SameTalk
<1>3. y.answer \in -1..(Options - 1) /\ Fields(y) BY <1>1 DEF SceneOK, Talking
<1>4. z = IF edge \in {"up", "down"} THEN MoveSelection(y, edge)
          ELSE IF WithTap(y, "confirm") # {}
          THEN AnswerChoice(ConsumeTap(y, "confirm"), y.choice[1])
          ELSE IF WithTap(y, "cancel") # {}
          THEN AnswerChoice(ConsumeTap(y, "cancel"), -1)
          ELSE y
  BY DEF HandleChoiceInput
<1>5. CASE edge \in {"up", "down"}
  <2> PICK m : m = (n + (IF edge = "up" THEN -1 ELSE 1) + Options) % Options OBVIOUS
  <2>1. m \in 0..(Options - 1)
    <3>1. \A k, o \in Int : o >= 1 => k % o \in 0..(o - 1) OBVIOUS
    <3>2. n + (IF edge = "up" THEN -1 ELSE 1) + Options \in Int /\ Options \in Int
      BY <1>2, SceneNumbers
    <3> QED BY <3>1, <3>2, SceneNumbers
  <2>2. z = [y EXCEPT !.choice = <<m>>]
    <3>1. [y.choice EXCEPT ![1] = m] = <<m>> /\ y.choice[1] = n BY <1>2
    <3>2. z = [y EXCEPT !.choice[1] = m] BY <1>4, <1>5, <3>1 DEF MoveSelection
    <3> QED BY <3>1, <3>2
  <2>3. z = Chosen(y, <<m>>, y.answer)
    <3> PICK w : w = [y EXCEPT !.choice = <<m>>] OBVIOUS
    <3>1. Fields(w) /\ w.answer = y.answer BY <1>3 DEF Fields
    <3>2. [w EXCEPT !.answer = w.answer] = w BY <3>1 DEF Fields
    <3>3. Chosen(y, <<m>>, y.answer) = [w EXCEPT !.answer = y.answer] BY DEF Chosen
    <3> QED BY <2>2, <3>1, <3>2, <3>3
  <2>4. SceneOK(z) /\ SameBody(y, z) /\ SameHands(y, z) /\ z.npcs = y.npcs
    <3> PICK c : c = <<m>> OBVIOUS
    <3> PICK a \in -1..(Options - 1) : a = y.answer BY <1>3
    <3>1. AnOption(c) BY <2>1 DEF AnOption
    <3>2. z = Chosen(y, c, a) BY <2>3
    <3>3. SceneOK(y) BY <1>1
    <3> QED BY <3>1, <3>2, <3>3, OtherChoice
  <2> QED BY <1>1, <2>4 DEF SameBody, SameHands
<1>6. ASSUME NEW a \in Actions, NEW index \in -1..(Options - 1), WithTap(y, a) # {},
             z = AnswerChoice(ConsumeTap(y, a), index)
      PROVE  SceneOK(z) /\ SameBody(x, z) /\ SameHands(x, z) /\ z.npcs = x.npcs
  <2> PICK w : w = ConsumeTap(y, a) OBVIOUS
  <2>1. SceneOK(w) /\ SameBody(y, w) /\ SameHands(y, w) /\ w.npcs = y.npcs
    BY <1>1, <1>6, TapIsTaken
  <2>2. z = Chosen(w, << >>, index) BY <1>6 DEF AnswerChoice, Chosen
  <2>3. AnOption(<< >>) BY DEF AnOption
  <2>4. SceneOK(z) /\ SameBody(w, z) /\ SameHands(w, z) /\ z.npcs = w.npcs
    BY <1>6, <2>1, <2>2, <2>3, OtherChoice
  <2> QED BY <1>1, <2>1, <2>4 DEF SameBody, SameHands
<1>7. CASE edge \notin {"up", "down"} /\ WithTap(y, "confirm") # {}
  <2>1. "confirm" \in Actions /\ y.choice[1] \in -1..(Options - 1)
    BY <1>2, SceneNumbers DEF Actions
  <2> QED BY <1>4, <1>6, <1>7, <2>1
<1>8. CASE edge \notin {"up", "down"} /\ WithTap(y, "confirm") = {} /\ WithTap(y, "cancel") # {}
  <2>1. "cancel" \in Actions /\ -1 \in -1..(Options - 1) BY SceneNumbers DEF Actions
  <2> QED BY <1>4, <1>6, <1>8, <2>1
<1>9. CASE edge \notin {"up", "down"} /\ WithTap(y, "confirm") = {} /\ WithTap(y, "cancel") = {}
  BY <1>1, <1>4, <1>9
<1> QED BY <1>5, <1>7, <1>8, <1>9

\* The NPCs walk or stand; the player's side of the scene stays.
LEMMA BehaviorsKeep ==
  ASSUME NEW x, SceneOK(x)
  PROVE  LET z == UpdateBehaviors(x)
         IN  SceneOK(z) /\ SameBody(x, z) /\ SameHands(x, z) /\ SameTalk(x, z)
<1> PICK npcs : npcs = [i \in DOMAIN Events |-> Patrol(Events[i], x.npcs[i], x.switch)] OBVIOUS
<1> PICK z : z = [x EXCEPT !.npcs = npcs] OBVIOUS
<1>1. Fields(x) /\ Talking(x) BY DEF SceneOK
<1>2. z = UpdateBehaviors(x) BY DEF UpdateBehaviors
<1>3. /\ Fields(z) /\ z.pos = x.pos /\ z.facing = x.facing /\ z.step = x.step
      /\ z.lastDir = x.lastDir /\ z.accum = x.accum /\ z.entered = x.entered
      /\ z.inputs = x.inputs
  BY <1>1 DEF Fields
<1>4. SameTalk(x, z) BY <1>1 DEF Fields, SameTalk
<1>5. Talking(z) /\ SameBody(x, z) BY <1>1, <1>3, <1>4 DEF Talking, SameTalk, SameBody
<1>6. SceneOK(z) /\ SameHands(x, z) BY <1>3, <1>5, OtherTalk
<1> QED BY <1>2, <1>4, <1>5, <1>6

\* A frame: what it does to the scene, whatever the page under the player says.
FrameDone(x, z) ==
  /\ SceneOK(z) /\ SameHands(x, z) /\ z.entered = x.entered
  /\ Busy(x) /\ x.step = << >> => z.step = << >> /\ z.pos = x.pos
  /\ ~Busy(x) /\ WithEdge(x) = {} /\ CurrentDirection(x) # NoDir =>
       /\ z.lastDir = CurrentDirection(x)
       /\ x.lastDir = CurrentDirection(x) =>
            /\ z.accum = IF x.accum >= RepeatTicks THEN RepeatTicks ELSE x.accum + 1
            /\ z.accum >= RepeatTicks =>
                 z.step # << >> \/ Blocked([z EXCEPT !.npcs = x.npcs], z.lastDir)

\* A frame keeps the scene right; behind a talk nobody moves, and what is held walks on.
LEMMA FrameKeeps ==
  ASSUME NEW x, SceneOK(x), NEW script \in Scripts
  PROVE  FrameDone(x, Frame(x, script))
<1> PICK z : z = Frame(x, script) OBVIOUS
<1> PICK moved : moved = AdvanceStep(x) OBVIOUS
<1>1. /\ SceneOK(moved) /\ SameTalk(x, moved) /\ SameHands(x, moved)
      /\ moved.inputs = x.inputs /\ moved.npcs = x.npcs /\ moved.entered = x.entered
      /\ moved.lastDir = x.lastDir /\ moved.accum = x.accum
      /\ x.step = << >> => moved = x
  BY AdvanceKeeps
<1>2. CASE moved.choice # << >>
  <2> PICK y : y = HandleChoiceInput(moved) OBVIOUS
  <2>1. z = UpdateBehaviors(y) BY <1>2 DEF Frame
  <2>2. SceneOK(y) /\ SameBody(moved, y) /\ SameHands(moved, y) BY <1>1, <1>2, ChoiceKeeps
  <2>3. SceneOK(z) /\ SameBody(y, z) /\ SameHands(y, z) BY <2>1, <2>2, BehaviorsKeep
  <2>4. Busy(x) BY <1>1, <1>2 DEF Busy, SameTalk
  <2>5. SceneOK(z) /\ SameHands(x, z) /\ z.entered = x.entered
    BY <1>1, <2>2, <2>3 DEF SameHands, SameBody
  <2>6. x.step = << >> => z.step = << >> /\ z.pos = x.pos
    BY <1>1, <2>2, <2>3 DEF SameBody
  <2> QED BY <2>4, <2>5, <2>6 DEF FrameDone
<1>3. CASE moved.choice = << >>
  <2> PICK y : y = HandleMovement(moved) OBVIOUS
  <2> PICK w : w = HandleConfirm(y, script) OBVIOUS
  <2> PICK v : v = HandleCancel(w) OBVIOUS
  <2>1. z = UpdateBehaviors(v) BY <1>3 DEF Frame
  <2> PICK held : held = CurrentDirection(moved) OBVIOUS
  <2>2. /\ SceneOK(y) /\ SameTalk(moved, y) /\ SameHands(moved, y)
        /\ y.npcs = moved.npcs /\ y.entered = moved.entered /\ y.pos = moved.pos
        /\ moved.dialogue > 0 => y = moved
        /\ moved.dialogue = 0 /\ WithEdge(moved) = {} /\ held # NoDir =>
             /\ y.lastDir = held
             /\ moved.lastDir = held =>
                  /\ y.accum = IF moved.accum >= RepeatTicks THEN RepeatTicks ELSE moved.accum + 1
                  /\ y.accum >= RepeatTicks => y.step # << >> \/ Blocked(moved, held)
    BY <1>1, MovementKeeps
  <2>3. SceneOK(w) /\ SameBody(y, w) /\ SameHands(y, w) BY <2>2, ConfirmKeeps
  <2>4. SceneOK(v) /\ SameBody(w, v) /\ SameHands(w, v) BY <2>3, CancelKeeps
  <2>5. SceneOK(z) /\ SameBody(v, z) /\ SameHands(v, z) BY <2>1, <2>4, BehaviorsKeep
  <2>6. SameBody(y, z) BY <2>3, <2>4, <2>5 DEF SameBody
  <2>7. SceneOK(z) /\ SameHands(x, z) /\ z.entered = x.entered
    BY <1>1, <2>2, <2>3, <2>4, <2>5, <2>6 DEF SameHands, SameBody
  <2>8. x.dialogue \in Nat BY DEF SceneOK, Talking
  <2>9. Busy(x) /\ x.step = << >> => z.step = << >> /\ z.pos = x.pos
    <3> SUFFICES ASSUME Busy(x), x.step = << >> PROVE z.step = << >> /\ z.pos = x.pos OBVIOUS
    <3>1. moved = x BY <1>1
    <3>2. x.dialogue > 0 BY <1>3, <3>1 DEF Busy
    <3>3. y = x BY <2>2, <3>1, <3>2
    <3> QED BY <2>6, <3>3 DEF SameBody
  <2>10. ASSUME ~Busy(x), WithEdge(x) = {}, CurrentDirection(x) # NoDir
         PROVE  /\ z.lastDir = CurrentDirection(x)
                /\ x.lastDir = CurrentDirection(x) =>
                     /\ z.accum = IF x.accum >= RepeatTicks THEN RepeatTicks ELSE x.accum + 1
                     /\ z.accum >= RepeatTicks =>
                          z.step # << >> \/ Blocked([z EXCEPT !.npcs = x.npcs], z.lastDir)
    <3>1. moved.dialogue = 0 /\ WithEdge(moved) = {} /\ held = CurrentDirection(x)
      <4>1. x.dialogue = 0 BY <2>8, <2>10 DEF Busy
      <4>2. WithEdge(moved) = WithEdge(x) BY <1>1 DEF WithEdge
      <4>3. held = CurrentDirection(x) BY <1>1, SameHandsHold
      <4> QED BY <1>1, <2>10, <4>1, <4>2, <4>3 DEF SameTalk
    <3>2. y.lastDir = held BY <2>2, <2>10, <3>1
    <3>3. z.lastDir = CurrentDirection(x) BY <2>6, <3>1, <3>2 DEF SameBody
    <3>4. ASSUME x.lastDir = CurrentDirection(x)
          PROVE  /\ z.accum = IF x.accum >= RepeatTicks THEN RepeatTicks ELSE x.accum + 1
                 /\ z.accum >= RepeatTicks =>
                      z.step # << >> \/ Blocked([z EXCEPT !.npcs = x.npcs], z.lastDir)
      <4>1. moved.lastDir = held BY <1>1, <3>1, <3>4
      <4>2. /\ y.accum = IF x.accum >= RepeatTicks THEN RepeatTicks ELSE x.accum + 1
            /\ y.accum >= RepeatTicks => y.step # << >> \/ Blocked(moved, held)
        BY <1>1, <2>2, <2>10, <3>1, <4>1
      <4>3. z.accum = y.accum /\ z.step = y.step /\ z.pos = moved.pos /\ z.lastDir = held
        BY <2>2, <2>6, <3>2 DEF SameBody
      <4>4. Blocked(moved, held) => Blocked([z EXCEPT !.npcs = x.npcs], held)
        <5> PICK u : u = [z EXCEPT !.npcs = x.npcs] OBVIOUS
        <5>1. Fields(z) BY <2>7 DEF SceneOK
        <5>2. u.pos = z.pos /\ u.npcs = x.npcs BY <5>1 DEF Fields
        <5>3. u.pos = moved.pos /\ u.npcs = moved.npcs BY <1>1, <4>3, <5>2
        <5>4. Blocked(moved, held) => Blocked(u, held) BY <5>3 DEF Blocked, StandsFree
        <5> QED BY <5>4
      <4> QED BY <4>2, <4>3, <4>4
    <3> QED BY <3>3, <3>4
  <2> QED BY <2>7, <2>9, <2>10 DEF FrameDone
<1> QED BY <1>2, <1>3

-----------------------------------------------------------------------------
(* The scene from frame to frame                                            *)

\* What a save may hold: a place on the floor and what the player had answered.
SaveOK(record) ==
  \E p, f, a, w : /\ record = [pos |-> p, facing |-> f, answer |-> a, switch |-> w]
                  /\ OnFloor(p) /\ f \in DOMAIN Vector
                  /\ a \in -1..(Options - 1) /\ w \in BOOLEAN

\* The direction held on is the one the scene counts, and it has counted every frame.
CountsHolding == /\ heldFor \in 0..(RepeatTicks + 1)
                 /\ heldFor > 0 => /\ s.lastDir = CurrentDirection(s)
                                   /\ s.accum >= heldFor - 1

\* The inductive invariant: the player and the save stand on the floor, an exited scene
\* has no overlay, and what is held on is counted.
SceneInv == /\ SceneOK(s) /\ (s.entered \/ ~Busy(s))
            /\ saved = << >> \/ \E record : saved = <<record>> /\ SaveOK(record)
            /\ loading \in BOOLEAN /\ inputsMade \in 0..MaxInputs
            /\ CountsHolding

\* Initially the player stands on its tile.
LEMMA SceneStarts == SceneInit => SceneInv
<1> SUFFICES ASSUME SceneInit PROVE SceneInv OBVIOUS
<1> USE SceneNumbers
<1>1. Fields(s) BY DEF SceneInit, Fields
<1>2. /\ s.pos = PositionOf(StartTile) /\ s.facing = "down" /\ s.step = << >>
      /\ s.lastDir = NoDir /\ s.accum = 0 /\ s.dialogue = 0 /\ s.choice = << >>
      /\ s.answer = 0 /\ s.switch = FALSE /\ s.entered = TRUE
      /\ s.inputs = [i \in 1..Devices |-> NewInput]
  BY DEF SceneInit
<1>3. OnFloor(s.pos) BY <1>2, MapAssumption DEF OnFloor
<1>4. s.facing \in DOMAIN Vector BY <1>2 DEF Vector
<1>5. Standing(s) BY <1>2, <1>3, <1>4 DEF Standing
<1>6. Talking(s)
  <2>1. 0 \in Nat /\ 0 \in -1..(Options - 1) /\ FALSE \in BOOLEAN OBVIOUS
  <2> QED BY <1>2, <2>1 DEF Talking
<1>7. SceneOK(s) BY <1>1, <1>2, <1>5, <1>6, NewInputOK DEF SceneOK
<1>8. saved = << >> /\ loading = FALSE /\ inputsMade = 0 /\ heldFor = 0 BY DEF SceneInit
<1>9. CountsHolding BY <1>8 DEF CountsHolding
<1>10. s.entered /\ loading \in BOOLEAN BY <1>2, <1>8
<1>11. inputsMade \in 0..MaxInputs BY <1>8
<1> QED BY <1>7, <1>8, <1>9, <1>10, <1>11 DEF SceneInv

\* A frame keeps the invariant.
LEMMA UpdateSteps ==
  ASSUME SceneInv, Update
  PROVE  /\ SceneInv'
         /\ heldFor' > RepeatTicks =>
              s'.step # << >> \/ Blocked([s' EXCEPT !.npcs = s.npcs], s'.lastDir)
         /\ Busy(s) /\ s.step = << >> => s'.step = << >> /\ s'.pos = s.pos
<1> USE SceneNumbers
<1>1. PICK script \in Scripts : s' = Frame(s, script) BY DEF Update
<1>2. SceneOK(s) BY DEF SceneInv
<1>3. FrameDone(s, s') BY <1>1, <1>2, FrameKeeps
<1>4. /\ s.entered /\ UNCHANGED <<saved, loading, inputsMade>>
      /\ heldFor' = IF \/ CurrentDirection(s) = NoDir \/ WithEdge(s) # {} \/ Busy(s) \/ Busy(s')
                    THEN 0
                    ELSE IF heldFor > RepeatTicks THEN heldFor ELSE heldFor + 1
  BY DEF Update
<1>5. SceneOK(s') /\ s'.entered = s.entered /\ CurrentDirection(s') = CurrentDirection(s)
  BY <1>3, SameHandsHold DEF FrameDone
<1>6. heldFor \in 0..(RepeatTicks + 1) /\ CountsHolding BY DEF SceneInv, CountsHolding
<1>7. s.accum \in 0..RepeatTicks BY <1>2 DEF SceneOK, Standing
<1>8. CASE heldFor' = 0
  <2>1. CountsHolding' BY <1>8 DEF CountsHolding
  <2>2. SceneInv' BY <1>4, <1>5, <2>1 DEF SceneInv
  <2>3. ~(heldFor' > RepeatTicks) BY <1>8
  <2> QED BY <1>3, <2>2, <2>3 DEF FrameDone
<1>9. CASE heldFor' # 0
  <2>1. /\ CurrentDirection(s) # NoDir /\ WithEdge(s) = {} /\ ~Busy(s)
        /\ heldFor' = IF heldFor > RepeatTicks THEN heldFor ELSE heldFor + 1
    BY <1>4, <1>9
  <2>2. /\ s'.lastDir = CurrentDirection(s)
        /\ s.lastDir = CurrentDirection(s) =>
             /\ s'.accum = IF s.accum >= RepeatTicks THEN RepeatTicks ELSE s.accum + 1
             /\ s'.accum >= RepeatTicks =>
                  s'.step # << >> \/ Blocked([s' EXCEPT !.npcs = s.npcs], s'.lastDir)
    BY <1>3, <2>1 DEF FrameDone
  <2>3. heldFor' \in 0..(RepeatTicks + 1) BY <1>6, <2>1
  <2>4. s'.accum \in 0..RepeatTicks BY <1>5 DEF SceneOK, Standing
  <2>5. s'.accum >= heldFor' - 1
    <3>1. CASE heldFor > 0
      <4>1. s.lastDir = CurrentDirection(s) /\ s.accum >= heldFor - 1
        BY <1>6, <3>1 DEF CountsHolding
      <4>2. s'.accum = IF s.accum >= RepeatTicks THEN RepeatTicks ELSE s.accum + 1
        BY <2>2, <4>1
      <4> QED BY <1>6, <1>7, <2>1, <4>1, <4>2
    <3>2. CASE ~(heldFor > 0) BY <1>6, <2>1, <2>4, <3>2
    <3> QED BY <3>1, <3>2
  <2>6. CountsHolding' BY <1>5, <2>2, <2>3, <2>5 DEF CountsHolding
  <2>7. SceneInv' BY <1>4, <1>5, <2>6 DEF SceneInv
  <2>8. heldFor' > RepeatTicks =>
          s'.step # << >> \/ Blocked([s' EXCEPT !.npcs = s.npcs], s'.lastDir)
    <3> SUFFICES ASSUME heldFor' > RepeatTicks
                 PROVE  s'.step # << >> \/ Blocked([s' EXCEPT !.npcs = s.npcs], s'.lastDir)
      OBVIOUS
    <3>1. heldFor > 0 BY <1>6, <2>1
    <3>2. s.lastDir = CurrentDirection(s) BY <1>6, <3>1 DEF CountsHolding
    <3>3. s'.accum >= RepeatTicks BY <2>4, <2>3, <2>5
    <3> QED BY <2>2, <3>2, <3>3
  <2> QED BY <1>3, <2>7, <2>8 DEF FrameDone
<1> QED BY <1>8, <1>9

\* Keys, pads and taps keep the invariant.
LEMMA HandSteps ==
  ASSUME SceneInv, NEW i \in 1..Devices,
         \/ \E d \in Dir : Press(i, d) \/ Release(i, d)
         \/ \E a \in Actions : Tap(i, a)
  PROVE  SceneInv'
<1> USE SceneNumbers
<1>1. SceneOK(s) /\ InputOK(s.inputs[i]) /\ s.entered \in BOOLEAN
  BY DEF SceneInv, SceneOK
<1>2. ASSUME NEW in, InputOK(in), s' = [s EXCEPT !.inputs[i] = in], s.entered,
             heldFor' = 0 \/ (heldFor' = heldFor /\ in.held = s.inputs[i].held),
             inputsMade' \in 0..MaxInputs, UNCHANGED <<saved, loading>>
      PROVE  SceneInv'
  <2>1. /\ SceneOK(s') /\ SameBody(s, s') /\ SameTalk(s, s')
        /\ in.held = s.inputs[i].held => SameHands(s, s')
    BY <1>1, <1>2, OtherInput
  <2>2. CountsHolding'
    <3>1. CASE heldFor' = 0 BY <3>1 DEF CountsHolding
    <3>2. CASE heldFor' = heldFor /\ in.held = s.inputs[i].held
      <4>1. CurrentDirection(s') = CurrentDirection(s) BY <2>1, <3>2, SameHandsHold
      <4>2. CountsHolding BY DEF SceneInv
      <4> QED BY <2>1, <3>2, <4>1, <4>2 DEF CountsHolding, SameBody
    <3> QED BY <1>2, <3>1, <3>2
  <2>3. s'.entered BY <1>2, <2>1 DEF SameBody
  <2> QED BY <1>2, <2>1, <2>2, <2>3 DEF SceneInv
<1>3. inputsMade \in 0..MaxInputs BY DEF SceneInv
<1>4. ASSUME NEW d \in Dir, Press(i, d) PROVE SceneInv'
  <2>1. InputOK(PressDirection(s.inputs[i], d)) BY <1>1, PressKeeps
  <2>2. /\ s' = [s EXCEPT !.inputs[i] = PressDirection(s.inputs[i], d)] /\ s.entered
        /\ heldFor' = 0 /\ UNCHANGED <<saved, loading>> /\ inputsMade' \in 0..MaxInputs
    BY <1>3, <1>4 DEF Press, Spend
  <2> QED BY <1>2, <2>1, <2>2
<1>5. ASSUME NEW d \in Dir, Release(i, d) PROVE SceneInv'
  <2>1. InputOK(ReleaseDirection(s.inputs[i], d)) BY <1>1, ReleaseKeeps
  <2>2. /\ s' = [s EXCEPT !.inputs[i] = ReleaseDirection(s.inputs[i], d)] /\ s.entered
        /\ heldFor' = 0 /\ UNCHANGED <<saved, loading>> /\ inputsMade' \in 0..MaxInputs
    BY <1>3, <1>5 DEF Release
  <2> QED BY <1>2, <2>1, <2>2
<1>6. ASSUME NEW a \in Actions, Tap(i, a) PROVE SceneInv'
  <2>1. InputOK(Queue(s.inputs[i], a)) /\ Queue(s.inputs[i], a).stack = s.inputs[i].stack
    BY <1>1, TapsKeep
  <2>2. Queue(s.inputs[i], a).held = s.inputs[i].held BY <1>1, <2>1 DEF InputOK
  <2>3. /\ s' = [s EXCEPT !.inputs[i] = Queue(s.inputs[i], a)] /\ s.entered
        /\ heldFor' = heldFor /\ UNCHANGED <<saved, loading>> /\ inputsMade' \in 0..MaxInputs
    BY <1>3, <1>6 DEF Tap, Spend
  <2> QED BY <1>2, <2>1, <2>2, <2>3
<1> QED BY <1>4, <1>5, <1>6

\* A tap on the dialogue box, a save and the call of a load keep the invariant.
LEMMA PageSteps ==
  ASSUME SceneInv, TapDialogue \/ Save \/ Load
  PROVE  SceneInv'
<1> USE SceneNumbers
<1>1. SceneOK(s) /\ CountsHolding /\ inputsMade \in 0..MaxInputs BY DEF SceneInv
<1>2. CASE TapDialogue
  <2>1. /\ s' = AdvanceDialogue(s) /\ s.entered
        /\ UNCHANGED <<saved, loading, inputsMade, heldFor>>
    BY <1>2 DEF TapDialogue
  <2>2. SceneOK(s') /\ SameBody(s, s') /\ SameHands(s, s')
    BY <1>1, <2>1, AdvanceDialogueKeeps
  <2>3. CurrentDirection(s') = CurrentDirection(s) BY <2>2, SameHandsHold
  <2>4. CountsHolding' /\ s'.entered BY <1>1, <2>1, <2>2, <2>3 DEF CountsHolding, SameBody
  <2> QED BY <2>1, <2>2, <2>4 DEF SceneInv
<1>3. CASE Save
  <2>1. /\ saved' = <<[pos |-> s.pos, facing |-> s.facing, answer |-> s.answer,
                       switch |-> s.switch]>>
        /\ UNCHANGED <<s, loading, heldFor>> /\ inputsMade' \in 0..MaxInputs
    BY <1>1, <1>3 DEF Save, Spend
  <2>2. /\ OnFloor(s.pos) /\ s.facing \in DOMAIN Vector
        /\ s.answer \in -1..(Options - 1) /\ s.switch \in BOOLEAN
    BY <1>1 DEF SceneOK, Standing, Talking
  <2>3. SaveOK([pos |-> s.pos, facing |-> s.facing, answer |-> s.answer, switch |-> s.switch])
    BY <2>2 DEF SaveOK
  <2>4. CountsHolding' BY <1>1, <2>1 DEF CountsHolding
  <2> QED BY <2>1, <2>3, <2>4 DEF SceneInv
<1>4. CASE Load
  <2>1. loading' = TRUE /\ UNCHANGED <<s, saved, heldFor>> /\ inputsMade' \in 0..MaxInputs
    BY <1>1, <1>4 DEF Load, Spend
  <2>2. CountsHolding' BY <1>1, <2>1 DEF CountsHolding
  <2> QED BY <2>1, <2>2 DEF SceneInv
<1> QED BY <1>2, <1>3, <1>4

\* The answer of the storage puts the player where it was saved.
LEMMA LoadSteps == ASSUME SceneInv, LoadAnswers PROVE SceneInv'
<1>1. SceneOK(s) /\ CountsHolding /\ Fields(s) /\ Talking(s) /\ Standing(s)
  BY DEF SceneInv, SceneOK
<1>2. loading' = FALSE /\ UNCHANGED <<saved, inputsMade, heldFor>> BY DEF LoadAnswers
<1>3. CASE saved = << >>
  <2>1. s' = s BY <1>3 DEF LoadAnswers
  <2>2. CountsHolding' BY <1>1, <1>2, <2>1 DEF CountsHolding
  <2> QED BY <1>2, <2>1, <2>2 DEF SceneInv
<1>4. CASE saved # << >>
  <2>1. PICK record : saved = <<record>> /\ SaveOK(record) BY <1>4 DEF SceneInv
  <2>2. PICK p, f, a, w : /\ record = [pos |-> p, facing |-> f, answer |-> a, switch |-> w]
                          /\ OnFloor(p) /\ f \in DOMAIN Vector
                          /\ a \in -1..(Options - 1) /\ w \in BOOLEAN
    BY <2>1 DEF SaveOK
  <2>3. s' = [s EXCEPT !.pos = p, !.facing = f, !.answer = a, !.switch = w]
    <3>1. saved[1] = record BY <2>1
    <3> QED BY <1>4, <2>2, <3>1 DEF LoadAnswers
  <2>4. Fields(s')
    <3> PICK y1 : y1 = [s EXCEPT !.pos = p] OBVIOUS
    <3> PICK y2 : y2 = [y1 EXCEPT !.facing = f] OBVIOUS
    <3> PICK y3 : y3 = [y2 EXCEPT !.answer = a] OBVIOUS
    <3>1. s' = [y3 EXCEPT !.switch = w] BY <2>3
    <3>2. Fields(y1) BY <1>1 DEF Fields
    <3>3. Fields(y2) BY <3>2 DEF Fields
    <3>4. Fields(y3) BY <3>3 DEF Fields
    <3> QED BY <3>1, <3>4 DEF Fields
  <2>5. /\ s'.pos = p /\ s'.facing = f /\ s'.step = s.step
        /\ s'.lastDir = s.lastDir /\ s'.accum = s.accum /\ s'.entered = s.entered
        /\ s'.inputs = s.inputs /\ s'.npcs = s.npcs
        /\ s'.dialogue = s.dialogue /\ s'.choice = s.choice /\ s'.answer = a /\ s'.switch = w
    BY <1>1, <2>3 DEF Fields
  <2>6. Standing(s') BY <1>1, <2>2, <2>5 DEF Standing, Stepping
  <2>7. Talking(s') BY <1>1, <2>2, <2>5 DEF Talking
  <2>8. SceneOK(s') BY <1>1, <2>4, <2>5, <2>6, <2>7 DEF SceneOK
  <2>9. CountsHolding'
    <3>1. CurrentDirection(s') = CurrentDirection(s)
      BY <2>5, SameHandsHold DEF SameHands
    <3> QED BY <1>1, <1>2, <2>5, <3>1 DEF CountsHolding
  <2>10. s'.entered \/ ~Busy(s') BY <2>5 DEF SceneInv, Busy
  <2> QED BY <1>2, <2>8, <2>9, <2>10 DEF SceneInv
<1> QED BY <1>3, <1>4

\* Leaving the scene closes what is open and lets go of every key.
LEMMA ExitSteps == ASSUME SceneInv, Exit PROVE SceneInv'
<1> USE SceneNumbers
<1>1. SceneOK(s) /\ Fields(s) /\ Talking(s) /\ Standing(s) BY DEF SceneInv, SceneOK
<1> PICK none : none = [i \in 1..Devices |-> NewInput] OBVIOUS
<1>2. /\ s' = [s EXCEPT !.entered = FALSE, !.inputs = none, !.dialogue = 0, !.choice = << >>,
                        !.step = << >>, !.lastDir = NoDir, !.accum = 0]
      /\ heldFor' = 0 /\ UNCHANGED <<saved, loading, inputsMade>>
  BY DEF Exit
<1>3. Fields(s')
  <2> PICK y1 : y1 = [s EXCEPT !.entered = FALSE] OBVIOUS
  <2> PICK y2 : y2 = [y1 EXCEPT !.inputs = none] OBVIOUS
  <2> PICK y3 : y3 = [y2 EXCEPT !.dialogue = 0] OBVIOUS
  <2> PICK y4 : y4 = [y3 EXCEPT !.choice = << >>] OBVIOUS
  <2> PICK y5 : y5 = [y4 EXCEPT !.step = << >>] OBVIOUS
  <2> PICK y6 : y6 = [y5 EXCEPT !.lastDir = NoDir] OBVIOUS
  <2>1. s' = [y6 EXCEPT !.accum = 0] BY <1>2
  <2>2. Fields(y1) BY <1>1 DEF Fields
  <2>3. Fields(y2) BY <2>2 DEF Fields
  <2>4. Fields(y3) BY <2>3 DEF Fields
  <2>5. Fields(y4) BY <2>4 DEF Fields
  <2>6. Fields(y5) BY <2>5 DEF Fields
  <2>7. Fields(y6) BY <2>6 DEF Fields
  <2> QED BY <2>1, <2>7 DEF Fields
<1>4. /\ s'.pos = s.pos /\ s'.facing = s.facing /\ s'.step = << >>
      /\ s'.lastDir = NoDir /\ s'.accum = 0 /\ s'.entered = FALSE
      /\ s'.inputs = none /\ s'.dialogue = 0 /\ s'.choice = << >>
      /\ s'.answer = s.answer /\ s'.switch = s.switch
  BY <1>1, <1>2 DEF Fields
<1>5. Standing(s') BY <1>1, <1>4 DEF Standing
<1>6. Talking(s') BY <1>1, <1>4 DEF Talking
<1>7. SceneOK(s') BY <1>3, <1>4, <1>5, <1>6, NewInputOK DEF SceneOK
<1>8. CountsHolding' BY <1>2 DEF CountsHolding
<1>9. ~Busy(s') BY <1>4 DEF Busy
<1> QED BY <1>2, <1>7, <1>8, <1>9 DEF SceneInv

\* The inductive invariant of the scene always holds.
THEOREM SceneInvariant == SceneSpec => []SceneInv
<1>1. ASSUME SceneInv, [SceneNext]_sceneVars PROVE SceneInv'
  <2>1. CASE UNCHANGED sceneVars
    BY <1>1, <2>1 DEF sceneVars, SceneInv, CountsHolding
  <2>2. CASE Update BY <1>1, <2>2, UpdateSteps
  <2>3. CASE TapDialogue \/ Save \/ Load BY <1>1, <2>3, PageSteps
  <2>4. CASE LoadAnswers BY <1>1, <2>4, LoadSteps
  <2>5. CASE Exit BY <1>1, <2>5, ExitSteps
  <2>6. CASE \E i \in 1..Devices :
               \/ \E d \in Dir : Press(i, d) \/ Release(i, d)
               \/ \E a \in Actions : Tap(i, a)
    <3>1. PICK i \in 1..Devices : \/ \E d \in Dir : Press(i, d) \/ Release(i, d)
                                  \/ \E a \in Actions : Tap(i, a)
      BY <2>6
    <3> QED BY <1>1, <3>1, HandSteps
  <2> QED BY <1>1, <2>1, <2>2, <2>3, <2>4, <2>5, <2>6, Zenon DEF SceneNext
<1> QED BY <1>1, SceneStarts, PTL DEF SceneSpec

\* The player stands on whole tiles of the floor, whatever mixture of steps, presses,
\* frames, saves and loads brought it there, on any map (tryStep, load, advanceStep).
THEOREM PlayerAlwaysStandsRight == SceneSpec => []PlayerStandsRight
<1>1. SceneInv => PlayerStandsRight
  <2> SUFFICES ASSUME SceneInv PROVE PlayerStandsRight OBVIOUS
  <2> USE SceneNumbers
  <2>1. SceneOK(s) /\ Standing(s) /\ Talking(s) BY DEF SceneInv, SceneOK
  <2>2. ASSUME NEW p, OnFloor(p) PROVE p = PositionOf(Tile(p)) /\ Tile(p) \in Floor
    <3>1. PICK tile \in Floor : p = PositionOf(tile) BY <2>2 DEF OnFloor
    <3>2. tile \in Int \X Int BY MapAssumption
    <3> QED BY <3>1, <3>2, TileOfPosition
  <2>3. PlayerOnFloor
    <3>1. ASSUME s.step # << >> PROVE OnFloor(s.step[1].to)
      <4>1. PICK to, left : s.step = <<[to |-> to, left |-> left]>> /\ OnFloor(to)
        BY <2>1, <3>1 DEF Standing, Stepping
      <4>2. s.step[1].to = to BY <4>1
      <4> QED BY <4>1, <4>2
    <3> QED BY <2>1, <2>2, <3>1 DEF PlayerOnFloor, Standing
  <2>4. s.inputs \in [1..Devices -> InputState] BY <2>1 DEF SceneOK, InputOK
  <2>5. s.choice = << >> \/ s.choice[1] \in 0..(Options - 1) BY <2>1 DEF Talking
  <2>6. SceneTypeOK
    BY <2>1, <2>4, <2>5 DEF SceneTypeOK, SceneInv, SceneOK, Standing, Talking
  <2> QED BY <2>3, <2>6 DEF PlayerStandsRight
<1> QED BY <1>1, SceneInvariant, PTL

\* A direction held past the delay walks on or is blocked, and no step begins behind an
\* open line or choice (handleMovement, update).
THEOREM WalkAlwaysFollowsHands == SceneSpec => WalkFollowsHands
<1>1. ASSUME SceneInv, [SceneNext]_sceneVars
      PROVE  [Update /\ heldFor' > RepeatTicks
                => s'.step # << >> \/ Blocked([s' EXCEPT !.npcs = s.npcs], s'.lastDir)]_sceneVars
  BY <1>1, UpdateSteps, Zenon
<1>2. ASSUME SceneInv, [SceneNext]_sceneVars
      PROVE  [Update /\ Busy(s) /\ s.step = << >>
                => s'.step = << >> /\ s'.pos = s.pos]_sceneVars
  BY <1>2, UpdateSteps
<1> QED BY <1>1, <1>2, SceneInvariant, PTL
      DEF SceneSpec, WalkFollowsHands, HoldWalksOn, TalkHoldsPlayer
=============================================================================
