---------------------------- MODULE TrafficProofs -----------------------------
(***************************************************************************)
(* What the server holds for a client and what it takes from one.          *)
(*                                                                         *)
(* The outbound queue, for every capacity and every sequence of calls:     *)
(* Bounded and SlotTracksState need only the types; ControlFifo and        *)
(* NewestIsKept need the slot too, so the inductive invariant is the       *)
(* conjunction QueueInv of all of them.                                    *)
(*                                                                         *)
(* The two token buckets, for every burst, rate and delay: PaidInv says of *)
(* every message under way what its sender has left.                       *)
(***************************************************************************)
EXTENDS QueueTraffic, RateLimit, SequenceTheorems, TLAPS

QueueInv == TrafficTypeOK /\ Bounded /\ SlotTracksState /\ ControlFifo /\ NewestIsKept

-----------------------------------------------------------------------------
(* The effect of each operator on the messages, position by position. *)

\* popFront shifts every message one position forward and the index with it.
LEMMA PopShifts ==
  ASSUME NEW q \in [messages : Seq(Message), stateIndex : Nat],
         q.messages # << >>
  PROVE  /\ PopFront(q) \in [messages : Seq(Message), stateIndex : Nat]
         /\ Len(PopFront(q).messages) = Len(q.messages) - 1
         /\ \A i \in 1..(Len(q.messages) - 1) :
               PopFront(q).messages[i] = q.messages[i + 1]
         /\ PopFront(q).stateIndex =
               IF q.stateIndex = 0 THEN 0 ELSE q.stateIndex - 1
         /\ FrontMessage(q) = q.messages[1]
         /\ FrontMessage(q) \in Message
         /\ Len(q.messages) \in Nat \ {0}
<1>1. /\ Tail(q.messages) \in Seq(Message)
      /\ Len(Tail(q.messages)) = Len(q.messages) - 1
      /\ \A i \in 1..(Len(q.messages) - 1) : Tail(q.messages)[i] = q.messages[i + 1]
      /\ Head(q.messages) = q.messages[1]
      /\ Head(q.messages) \in Message
      /\ Len(q.messages) \in Nat \ {0}
  OBVIOUS
<1> QED
  BY <1>1 DEF PopFront, FrontMessage

\* pushControl on a queue with room appends and leaves the index alone.
LEMMA ControlAppends ==
  ASSUME NEW q \in [messages : Seq(Message), stateIndex : Nat],
         NEW m \in Message, ~Full(q)
  PROVE  /\ PushControl(q, m) \in [messages : Seq(Message), stateIndex : Nat]
         /\ Len(PushControl(q, m).messages) = Len(q.messages) + 1
         /\ \A i \in 1..Len(q.messages) : PushControl(q, m).messages[i] = q.messages[i]
         /\ PushControl(q, m).messages[Len(q.messages) + 1] = m
         /\ PushControl(q, m).stateIndex = q.stateIndex
         /\ Len(q.messages) \in Nat
<1>1. /\ Append(q.messages, m) \in Seq(Message)
      /\ Len(Append(q.messages, m)) = Len(q.messages) + 1
      /\ \A i \in 1..Len(q.messages) : Append(q.messages, m)[i] = q.messages[i]
      /\ Append(q.messages, m)[Len(q.messages) + 1] = m
      /\ Len(q.messages) \in Nat
  OBVIOUS
<1> QED
  BY <1>1 DEF PushControl

\* pushState with a pending state replaces it where it stands.
LEMMA StateReplaces ==
  ASSUME NEW q \in [messages : Seq(Message), stateIndex : Nat],
         NEW m \in Message,
         q.stateIndex # 0, q.stateIndex <= Len(q.messages)
  PROVE  /\ PushState(q, m) \in [messages : Seq(Message), stateIndex : Nat]
         /\ Len(PushState(q, m).messages) = Len(q.messages)
         /\ \A i \in 1..Len(q.messages) :
               PushState(q, m).messages[i] = IF i = q.stateIndex THEN m ELSE q.messages[i]
         /\ PushState(q, m).stateIndex = q.stateIndex
         /\ Len(q.messages) \in Nat
<1>1. q.stateIndex \in 1..Len(q.messages)
  OBVIOUS
<1>2. /\ [q.messages EXCEPT ![q.stateIndex] = m] \in Seq(Message)
      /\ Len([q.messages EXCEPT ![q.stateIndex] = m]) = Len(q.messages)
      /\ \A i \in 1..Len(q.messages) :
           [q.messages EXCEPT ![q.stateIndex] = m][i]
             = IF i = q.stateIndex THEN m ELSE q.messages[i]
      /\ Len(q.messages) \in Nat
  BY <1>1, ExceptSeq
<1> QED
  BY <1>2 DEF PushState

\* pushState without one appends, and the index names the new message.
LEMMA StateAppends ==
  ASSUME NEW q \in [messages : Seq(Message), stateIndex : Nat],
         NEW m \in Message,
         q.stateIndex = 0, ~Full(q)
  PROVE  /\ PushState(q, m) \in [messages : Seq(Message), stateIndex : Nat]
         /\ Len(PushState(q, m).messages) = Len(q.messages) + 1
         /\ \A i \in 1..Len(q.messages) : PushState(q, m).messages[i] = q.messages[i]
         /\ PushState(q, m).messages[Len(q.messages) + 1] = m
         /\ PushState(q, m).stateIndex = Len(q.messages) + 1
         /\ Len(q.messages) \in Nat
<1>1. /\ Append(q.messages, m) \in Seq(Message)
      /\ Len(Append(q.messages, m)) = Len(q.messages) + 1
      /\ \A i \in 1..Len(q.messages) : Append(q.messages, m)[i] = q.messages[i]
      /\ Append(q.messages, m)[Len(q.messages) + 1] = m
      /\ Len(q.messages) \in Nat
  OBVIOUS
<1> QED
  BY <1>1 DEF PushState

-----------------------------------------------------------------------------
\* An empty queue has no state and no slot.
THEOREM InitQueueInv == TrafficInit => QueueInv
<1> USE CapacityAssumption
<1>1. EmptyQueue \in [messages : Seq(Message), stateIndex : Nat]
  BY DEF EmptyQueue
<1>2. Len(EmptyQueue.messages) = 0 /\ EmptyQueue.stateIndex = 0
  BY DEF EmptyQueue
<1> QED
  BY <1>1, <1>2 DEF TrafficInit, QueueInv, TrafficTypeOK, Bounded, SlotTracksState, ControlFifo,
                    NewestIsKept, Slots, SlotsBefore

\* pushState: a coalesced state keeps its slot, a new one is the last.
LEMMA OfferStateKeepsQueueInv == QueueInv /\ OfferState => QueueInv'
<1> SUFFICES ASSUME QueueInv, OfferState PROVE QueueInv'
  OBVIOUS
<1> USE CapacityAssumption DEF QueueInv, TrafficTypeOK
<1>m. State(offered + 1) \in Message /\ State(offered + 1).kind = "state"
      /\ State(offered + 1).n = offered + 1
  BY DEF State, Message
<1>1. CASE outbox.stateIndex # 0
  <2>1. outbox' = PushState(outbox, State(offered + 1)) /\ newest' = offered + 1
        /\ offered' = offered + 1 /\ UNCHANGED <<accepted, taken, shown>>
    BY <1>1 DEF OfferState, StateDropped
  <2>2. outbox.stateIndex <= Len(outbox.messages)
    BY DEF SlotTracksState
  <2>3. /\ outbox' \in [messages : Seq(Message), stateIndex : Nat]
        /\ Len(outbox'.messages) = Len(outbox.messages)
        /\ \A i \in 1..Len(outbox.messages) :
              outbox'.messages[i] = IF i = outbox.stateIndex THEN State(offered + 1)
                                                           ELSE outbox.messages[i]
        /\ outbox'.stateIndex = outbox.stateIndex
        /\ Len(outbox.messages) \in Nat
    <3> HIDE DEF QueueInv, TrafficTypeOK
    <3> DEFINE m == State(offered + 1)
    <3>1. outbox \in [messages : Seq(Message), stateIndex : Nat] /\ m \in Message
      BY <1>m DEF QueueInv, TrafficTypeOK
    <3>2. outbox' = PushState(outbox, m)
      BY <2>1
    <3> HIDE DEF m
    <3> QED
      BY <1>1, <2>2, <3>1, <3>2, StateReplaces DEF m
  <2>4. TrafficTypeOK' /\ Bounded'
    BY <2>1, <2>3 DEF Bounded
  <2>5. SlotTracksState'
    BY <1>m, <2>3 DEF SlotTracksState
  <2>6. ControlFifo'
    BY <1>m, <2>1, <2>3 DEF ControlFifo, Slots, SlotsBefore
  <2>7. NewestIsKept'
    BY <1>1, <1>m, <2>1, <2>2, <2>3 DEF NewestIsKept
  <2> QED
    BY <2>4, <2>5, <2>6, <2>7
<1>2. CASE outbox.stateIndex = 0 /\ Full(outbox)
  <2>1. outbox' = outbox /\ newest' = newest /\ offered' = offered + 1
        /\ UNCHANGED <<accepted, taken, shown>>
    BY <1>2 DEF OfferState, StateDropped, PushState
  <2> QED
    BY <2>1 DEF Bounded, SlotTracksState, ControlFifo, NewestIsKept, Slots, SlotsBefore
<1>3. CASE outbox.stateIndex = 0 /\ ~Full(outbox)
  <2>1. outbox' = PushState(outbox, State(offered + 1)) /\ newest' = offered + 1
        /\ offered' = offered + 1 /\ UNCHANGED <<accepted, taken, shown>>
    BY <1>3 DEF OfferState, StateDropped
  <2>2. /\ outbox' \in [messages : Seq(Message), stateIndex : Nat]
        /\ Len(outbox'.messages) = Len(outbox.messages) + 1
        /\ \A i \in 1..Len(outbox.messages) : outbox'.messages[i] = outbox.messages[i]
        /\ outbox'.messages[Len(outbox.messages) + 1] = State(offered + 1)
        /\ outbox'.stateIndex = Len(outbox.messages) + 1
        /\ Len(outbox.messages) \in Nat
    <3> HIDE DEF QueueInv, TrafficTypeOK
    <3> DEFINE m == State(offered + 1)
    <3>1. outbox \in [messages : Seq(Message), stateIndex : Nat] /\ m \in Message
      BY <1>m DEF QueueInv, TrafficTypeOK
    <3>2. outbox' = PushState(outbox, m)
      BY <2>1
    <3> HIDE DEF m
    <3>3. outbox.stateIndex = 0 /\ ~Full(outbox) BY <1>3
    <3>4. /\ outbox' \in [messages : Seq(Message), stateIndex : Nat]
          /\ Len(outbox'.messages) = Len(outbox.messages) + 1
          /\ \A i \in 1..Len(outbox.messages) : outbox'.messages[i] = outbox.messages[i]
          /\ outbox'.messages[Len(outbox.messages) + 1] = m
          /\ outbox'.stateIndex = Len(outbox.messages) + 1
          /\ Len(outbox.messages) \in Nat
      BY <3>1, <3>2, <3>3, StateAppends
    <3> QED
      BY <3>4 DEF m
  <2>3. TrafficTypeOK' /\ Bounded'
    BY <1>3, <2>1, <2>2 DEF Bounded, Full
  <2>4. SlotTracksState'
    BY <1>3, <1>m, <2>2 DEF SlotTracksState
  <2>5. ControlFifo'
    BY <1>3, <1>m, <2>1, <2>2 DEF ControlFifo, Slots, SlotsBefore
  <2>6. NewestIsKept'
    BY <1>3, <1>m, <2>1, <2>2 DEF NewestIsKept
  <2> QED
    BY <2>3, <2>4, <2>5, <2>6
<1> QED
  BY <1>1, <1>2, <1>3

\* pushControl: appending moves no state.
LEMMA OfferControlKeepsQueueInv == QueueInv /\ OfferControl => QueueInv'
<1> SUFFICES ASSUME QueueInv, OfferControl PROVE QueueInv'
  OBVIOUS
<1> USE CapacityAssumption DEF QueueInv, TrafficTypeOK
<1>1. Control(accepted + 1) \in Message /\ Control(accepted + 1).kind = "control"
      /\ Control(accepted + 1).n = accepted + 1
  BY DEF Control, Message
<1>2. /\ outbox' \in [messages : Seq(Message), stateIndex : Nat]
      /\ Len(outbox'.messages) = Len(outbox.messages) + 1
      /\ \A i \in 1..Len(outbox.messages) : outbox'.messages[i] = outbox.messages[i]
      /\ outbox'.messages[Len(outbox.messages) + 1] = Control(accepted + 1)
      /\ outbox'.stateIndex = outbox.stateIndex
      /\ Len(outbox.messages) \in Nat
      /\ ~Full(outbox)
  <2> HIDE DEF QueueInv, TrafficTypeOK
  <2> DEFINE m == Control(accepted + 1)
  <2>1. outbox \in [messages : Seq(Message), stateIndex : Nat] /\ m \in Message
    BY <1>1 DEF QueueInv, TrafficTypeOK
  <2>2. outbox' = PushControl(outbox, m) /\ ~Full(outbox)
    BY DEF OfferControl
  <2>3. outbox' = PushControl(outbox, m)
    BY <2>2
  <2> HIDE DEF m
  <2>4. /\ PushControl(outbox, m) \in [messages : Seq(Message), stateIndex : Nat]
        /\ Len(PushControl(outbox, m).messages) = Len(outbox.messages) + 1
        /\ \A i \in 1..Len(outbox.messages) :
              PushControl(outbox, m).messages[i] = outbox.messages[i]
        /\ PushControl(outbox, m).messages[Len(outbox.messages) + 1] = m
        /\ PushControl(outbox, m).stateIndex = outbox.stateIndex
        /\ Len(outbox.messages) \in Nat
    BY <2>1, <2>2, ControlAppends
  <2> QED
    BY <2>2, <2>3, <2>4 DEF m
<1>3. accepted' = accepted + 1 /\ UNCHANGED <<offered, taken, newest, shown>>
  BY DEF OfferControl
<1>4. TrafficTypeOK' /\ Bounded'
  BY <1>2, <1>3 DEF Bounded, Full
<1>5. SlotTracksState'
  BY <1>1, <1>2 DEF SlotTracksState
<1>6. ControlFifo'
  <2>1. (accepted + Slots = taken + Len(outbox.messages))'
    BY <1>2, <1>3 DEF ControlFifo, Slots
  <2>2. ASSUME NEW i \in 1..Len(outbox'.messages), outbox'.messages[i].kind = "control"
        PROVE  outbox'.messages[i].n + SlotsBefore(i)' = taken' + i
    <3>1. CASE i \in 1..Len(outbox.messages)
      BY <1>2, <1>3, <2>2, <3>1 DEF ControlFifo, SlotsBefore
    <3>2. CASE i = Len(outbox.messages) + 1
      <4>1. outbox'.messages[i].n = accepted + 1
        BY <1>1, <1>2, <3>2
      <4>2. SlotsBefore(i)' = Slots
        BY <1>2, <3>2 DEF SlotsBefore, Slots, SlotTracksState
      <4> QED
        BY <1>2, <1>3, <3>2, <4>1, <4>2 DEF ControlFifo, Slots
    <3> QED
      BY <1>2, <3>1, <3>2
  <2> QED
    BY <2>1, <2>2 DEF ControlFifo
<1>7. NewestIsKept'
  BY <1>2, <1>3 DEF NewestIsKept, SlotTracksState
<1> QED
  BY <1>4, <1>5, <1>6, <1>7

\* What the popped message is: the state if the index is 1, else the control
\* message with the next ticket.
LEMMA FrontIsNext ==
  ASSUME QueueInv, outbox.messages # << >>
  PROVE  /\ outbox.stateIndex = 1 =>
              FrontMessage(outbox).kind = "state" /\ FrontMessage(outbox).n = newest
         /\ outbox.stateIndex # 1 =>
              FrontMessage(outbox).kind = "control" /\ FrontMessage(outbox).n = taken + 1
<1> USE DEF QueueInv, TrafficTypeOK
<1>1. /\ FrontMessage(outbox) = outbox.messages[1]
      /\ FrontMessage(outbox) \in Message
      /\ Len(outbox.messages) \in Nat \ {0}
  BY PopShifts
<1>2. 1 \in 1..Len(outbox.messages)
  BY <1>1
<1>3. FrontMessage(outbox).kind = "state" <=> outbox.stateIndex = 1
  BY <1>1, <1>2 DEF SlotTracksState
<1>4. outbox.stateIndex = 1 => FrontMessage(outbox).n = newest
  BY <1>1 DEF NewestIsKept
<1>5. FrontMessage(outbox).kind = "control" => FrontMessage(outbox).n = taken + 1
  BY <1>1, <1>2 DEF ControlFifo, SlotsBefore, Message
<1> QED
  BY <1>1, <1>3, <1>4, <1>5 DEF Message

\* pop: every index moves down by one, the slot with its state.
LEMMA PopKeepsQueueInv == QueueInv /\ Pop => QueueInv'
<1> SUFFICES ASSUME QueueInv, Pop PROVE QueueInv'
  OBVIOUS
<1> USE CapacityAssumption DEF QueueInv, TrafficTypeOK
<1>1. /\ outbox' \in [messages : Seq(Message), stateIndex : Nat]
      /\ Len(outbox'.messages) = Len(outbox.messages) - 1
      /\ \A i \in 1..(Len(outbox.messages) - 1) : outbox'.messages[i] = outbox.messages[i + 1]
      /\ outbox'.stateIndex = IF outbox.stateIndex = 0 THEN 0 ELSE outbox.stateIndex - 1
      /\ Len(outbox.messages) \in Nat \ {0}
  BY PopShifts DEF Pop
<1>2. UNCHANGED <<offered, accepted, newest>>
  BY DEF Pop
<1>3. /\ outbox.stateIndex = 1 => taken' = taken /\ shown' = newest
      /\ outbox.stateIndex # 1 => taken' = taken + 1 /\ shown' = shown
  BY FrontIsNext DEF Pop
<1>4. TrafficTypeOK' /\ Bounded'
  BY <1>1, <1>2, <1>3 DEF Bounded
<1>5. SlotTracksState'
  <2> SUFFICES ASSUME NEW i \in 1..Len(outbox'.messages)
               PROVE  outbox'.messages[i].kind = "state" <=> i = outbox'.stateIndex
    BY <1>1 DEF SlotTracksState
  <2>1. outbox.messages[i + 1].kind = "state" <=> i + 1 = outbox.stateIndex
    BY <1>1 DEF SlotTracksState
  <2> QED
    BY <1>1, <2>1
<1>6. ControlFifo'
  <2>1. (accepted + Slots = taken + Len(outbox.messages))'
    BY <1>1, <1>2, <1>3 DEF ControlFifo, Slots
  <2>2. ASSUME NEW i \in 1..Len(outbox'.messages), outbox'.messages[i].kind = "control"
        PROVE  outbox'.messages[i].n + SlotsBefore(i)' = taken' + i
    <3>1. outbox.messages[i + 1].n + SlotsBefore(i + 1) = taken + (i + 1)
      BY <1>1, <2>2 DEF ControlFifo
    <3>2. outbox.messages[i + 1] \in Message
      BY <1>1, ElementOfSeq
    <3>3. outbox'.messages[i] = outbox.messages[i + 1] /\ outbox.messages[i + 1].n \in Nat
      BY <1>1, <3>2 DEF Message
    <3>4. CASE outbox.stateIndex = 0
      BY <1>1, <1>3, <3>1, <3>3, <3>4 DEF SlotsBefore
    <3>5. CASE outbox.stateIndex = 1
      <4>1. SlotsBefore(i + 1) = 1 /\ SlotsBefore(i)' = 0
        BY <1>1, <3>5 DEF SlotsBefore
      <4>2. taken' = taken
        BY <1>3, <3>5
      <4>3. i \in Nat /\ taken \in Nat
        BY <1>1
      <4>4. outbox.messages[i + 1].n + 1 = taken + (i + 1)
        BY <3>1, <4>1
      <4>5. outbox.messages[i + 1].n = taken + i
        BY <3>3, <4>3, <4>4
      <4> QED
        BY <3>3, <4>1, <4>2, <4>3, <4>5
    <3>6. CASE outbox.stateIndex \notin {0, 1}
      BY <1>1, <1>3, <3>1, <3>3, <3>6 DEF SlotsBefore
    <3> QED
      BY <3>4, <3>5, <3>6
  <2> QED
    BY <2>1, <2>2 DEF ControlFifo
<1>7. NewestIsKept'
  BY <1>1, <1>2, <1>3 DEF NewestIsKept, SlotTracksState
<1> QED
  BY <1>4, <1>5, <1>6, <1>7

\* Every step keeps the invariant.
LEMMA StepKeepsQueueInv == QueueInv /\ [TrafficNext]_trafficVars => QueueInv'
<1> SUFFICES ASSUME QueueInv, [TrafficNext]_trafficVars PROVE QueueInv'
  OBVIOUS
<1>1. CASE OfferState
  BY <1>1, OfferStateKeepsQueueInv
<1>2. CASE OfferControl
  BY <1>2, OfferControlKeepsQueueInv
<1>3. CASE RefuseControl
  BY <1>3 DEF RefuseControl, PushControl, QueueInv, TrafficTypeOK, Bounded, SlotTracksState,
              ControlFifo, NewestIsKept, Slots, SlotsBefore
<1>4. CASE Pop
  BY <1>4, PopKeepsQueueInv
<1>5. CASE UNCHANGED trafficVars
  BY <1>5 DEF trafficVars, QueueInv, TrafficTypeOK, Bounded, SlotTracksState,
              ControlFifo, NewestIsKept, Slots, SlotsBefore
<1> QED
  BY <1>1, <1>2, <1>3, <1>4, <1>5 DEF TrafficNext

\* Every reachable queue satisfies all five parts of the invariant.
THEOREM QueueInvariant == TrafficSpec => []QueueInv
  BY InitQueueInv, StepKeepsQueueInv, PTL DEF TrafficSpec

-----------------------------------------------------------------------------
(* The parts, as the runs check them. *)

\* The types, the cap and the slot index are right after any calls.
THEOREM SlotIsRight == TrafficSpec => [](TrafficTypeOK /\ Bounded /\ SlotTracksState)
<1>1. QueueInv => TrafficTypeOK /\ Bounded /\ SlotTracksState
  BY DEF QueueInv
<1> QED
  BY <1>1, QueueInvariant, PTL

\* Accepted control messages are neither lost nor reordered by coalescing.
THEOREM ControlIsFifo == TrafficSpec => []ControlFifo
<1>1. QueueInv => ControlFifo
  BY DEF QueueInv
<1> QED
  BY <1>1, QueueInvariant, PTL

\* The state that is pending, or was handed out last, is the newest accepted.
THEOREM NewestStateIsKept == TrafficSpec => []NewestIsKept
<1>1. QueueInv => NewestIsKept
  BY DEF QueueInv
<1> QED
  BY <1>1, QueueInvariant, PTL

-----------------------------------------------------------------------------
\* The bounded, coalescing queue implements the mailbox: every call is one of
\* the mailbox's steps, or changes nothing the mailbox shows.
THEOREM QueueKeepsPromise == TrafficSpec => KeepsPromise
<1>1. TrafficInit => Promise!MailInit
  BY DEF TrafficInit, Promise!MailInit
<1>2. ASSUME QueueInv, [TrafficNext]_trafficVars
      PROVE  [Promise!MailNext]_(Promise!mailVars)
  <2> USE DEF QueueInv, TrafficTypeOK, Promise!MailNext, Promise!mailVars
  <2>1. CASE OfferState
    BY <2>1, <1>2 DEF OfferState, Promise!AcceptState, NewestIsKept
  <2>2. CASE OfferControl
    BY <2>2, <1>2 DEF OfferControl, Promise!AcceptControl
  <2>3. CASE RefuseControl
    BY <2>3 DEF RefuseControl
  <2>4. CASE Pop
    <3>1. UNCHANGED <<accepted, newest>>
      BY <2>4 DEF Pop
    <3>2. CASE outbox.stateIndex = 1
      <4>1. taken' = taken /\ shown' = newest
        BY <1>2, <2>4, <3>2, FrontIsNext DEF Pop
      <4>2. shown < newest
        BY <1>2, <3>2 DEF NewestIsKept
      <4> QED
        BY <3>1, <4>1, <4>2 DEF Promise!TakeState
    <3>3. CASE outbox.stateIndex # 1
      <4>1. taken' = taken + 1 /\ shown' = shown
        BY <1>2, <2>4, <3>3, FrontIsNext DEF Pop
      <4>2. Len(outbox.messages) \in Nat \ {0}
        BY <1>2, <2>4, PopShifts DEF Pop
      <4>3. taken < accepted
        BY <1>2, <3>3, <4>2 DEF ControlFifo, SlotTracksState, Slots
      <4> QED
        BY <3>1, <4>1, <4>3 DEF Promise!TakeControl
    <3> QED
      BY <3>2, <3>3
  <2>5. CASE UNCHANGED trafficVars
    BY <2>5 DEF trafficVars
  <2> QED
    BY <1>2, <2>1, <2>2, <2>3, <2>4, <2>5 DEF TrafficNext
<1> QED
  BY <1>1, <1>2, QueueInvariant, PTL DEF TrafficSpec, KeepsPromise, Promise!MailSpec

-----------------------------------------------------------------------------
(* The two token buckets.                                                   *)

\* Each message left a bucket that was at most full, and since then the client's has
\* gained one part for each tick of the message's age: so long as messages are under
\* way, the parts they took and those that are left exceed a full bucket by no more.
EachWasPaid ==
    \A i \in DOMAIN flight :
        credit + PerToken * (Len(flight) - i + 1) <= FullBucket + flight[i]

\* The inductive invariant: ShortByTheDelay alone is not, because a tick that finds
\* the server's bucket full and the client's not widens the gap by a part.
PaidInv == LimitTypeOK /\ EachWasPaid /\ ShortByTheDelay /\ (hits > 0 => late > 0)

\* The constants are natural numbers.
LEMMA ConstantsAreNat ==
  /\ Burst \in Nat /\ PerToken \in Nat /\ MaxHits \in Nat
  /\ MaxHold \in Nat /\ MaxFlight \in Nat /\ PerToken > 0 /\ Burst > 0
  BY RateLimitAssumption

\* The capacity is one, and holds a token at least.
LEMMA CapacityIsNat == FullBucket \in Nat /\ FullBucket >= PerToken
  <1>1. \A b, p \in Nat : b > 0 => b * p \in Nat /\ b * p >= p
    OBVIOUS
  <1> QED BY <1>1, ConstantsAreNat DEF FullBucket

\* Both buckets begin full (TokenBucket's constructors).
LEMMA InitIsPaid == LimitInit => PaidInv
  BY ConstantsAreNat, CapacityIsNat DEF LimitInit, PaidInv, LimitTypeOK, EachWasPaid, ShortByTheDelay, Held

\* One message more weighs one token more.
LEMMA OneMore == \A p, n \in Nat : p * n \in Nat /\ p * (n + 1) = p * n + p
  OBVIOUS

\* What a tick does to the ages.
LEMMA AgesGrow ==
  ASSUME NEW s, s \in Seq(0..MaxHold), MaxHold \in Nat,
         \A i \in DOMAIN s : s[i] < MaxHold
  PROVE  LET t == [i \in DOMAIN s |-> s[i] + 1]
         IN  /\ t \in Seq(0..MaxHold) /\ Len(t) = Len(s)
             /\ DOMAIN t = 1..Len(s) /\ DOMAIN s = 1..Len(s) /\ Len(s) \in Nat
             /\ \A i \in 1..Len(s) : s[i] \in Nat /\ t[i] = s[i] + 1
<1> DEFINE t == [i \in DOMAIN s |-> s[i] + 1]
<1>1. DOMAIN s = 1..Len(s) /\ Len(s) \in Nat /\ \A i \in 1..Len(s) : s[i] \in 0..MaxHold
  OBVIOUS
<1>2. t \in [1..Len(s) -> 0..MaxHold]
  BY <1>1
<1>3. t \in Seq(0..MaxHold) /\ Len(t) = Len(s)
  BY <1>1, <1>2
<1> QED BY <1>1, <1>3

\* LimitTypeOK is kept by every step.
LEMMA TypeIsKept ==
  ASSUME LimitTypeOK, LimitNext
  PROVE  LimitTypeOK'
<1> USE ConstantsAreNat, CapacityIsNat
<1>1. CASE TimePasses
  <2>1. flight' \in Seq(0..MaxHold) /\ Len(flight') = Len(flight)
    BY <1>1, AgesGrow DEF TimePasses, LimitTypeOK
  <2> QED BY <1>1, <2>1 DEF TimePasses, LimitTypeOK, Refill
<1>2. CASE TryTake
  <2>1. flight' \in Seq(0..MaxHold) /\ Len(flight') = Len(flight) + 1
    BY <1>2 DEF TryTake, LimitTypeOK
  <2> QED BY <1>2, <2>1 DEF TryTake, LimitTypeOK
<1>3. ASSUME Arrives
      PROVE  /\ flight' \in Seq(0..MaxHold) /\ Len(flight') <= MaxFlight
             /\ late' \in 0..MaxHold /\ credit' \in 0..FullBucket
  BY <1>3 DEF Arrives, Max2, LimitTypeOK
<1>4. CASE TryConsume BY <1>3, <1>4 DEF TryConsume, LimitTypeOK
<1>5. CASE ChatIsRefused BY <1>3, <1>5 DEF ChatIsRefused, Arrives, LimitTypeOK
<1> QED BY <1>1, <1>2, <1>4, <1>5 DEF LimitNext

\* What the invariant says of the types, for the steps below.
LEMMA PlainFacts ==
  ASSUME PaidInv
  PROVE  /\ PerToken \in Nat /\ FullBucket \in Nat /\ MaxHold \in Nat
         /\ credit \in Nat /\ credit <= FullBucket /\ allowance \in Nat /\ late \in Nat
         /\ flight \in Seq(0..MaxHold) /\ Len(flight) \in Nat
         /\ DOMAIN flight = 1..Len(flight)
         /\ \A i \in 1..Len(flight) : flight[i] \in Nat
<1>1. /\ flight \in Seq(0..MaxHold) /\ credit \in 0..FullBucket
      /\ allowance \in 0..FullBucket /\ late \in 0..MaxHold
  BY DEF PaidInv, LimitTypeOK
<1>2. MaxHold \in Nat /\ PerToken \in Nat /\ FullBucket \in Nat
  BY ConstantsAreNat, CapacityIsNat
<1>3. /\ Len(flight) \in Nat /\ DOMAIN flight = 1..Len(flight)
      /\ \A i \in 1..Len(flight) : flight[i] \in 0..MaxHold
  BY <1>1, <1>2
<1> QED BY <1>1, <1>2, <1>3

\* One tick more: the bucket gains a part at most and every message ages by one.
LEMMA TickIsPaid ==
  ASSUME PaidInv, TimePasses
  PROVE  EachWasPaid' /\ ShortByTheDelay'
<1> USE ConstantsAreNat, CapacityIsNat
<1>1. /\ credit \in Nat /\ allowance \in Nat /\ late \in Nat
      /\ flight \in Seq(0..MaxHold) /\ flight' \in Seq(0..MaxHold) /\ late' = late
      /\ Len(flight') = Len(flight) /\ Len(flight) \in Nat
      /\ DOMAIN flight' = 1..Len(flight) /\ DOMAIN flight = 1..Len(flight)
      /\ \A i \in 1..Len(flight) : flight[i] \in Nat /\ flight'[i] = flight[i] + 1
  <2>1. /\ flight \in Seq(0..MaxHold) /\ \A i \in DOMAIN flight : flight[i] < MaxHold
        /\ credit \in Nat /\ allowance \in Nat /\ late \in Nat /\ late' = late
        /\ flight' = [i \in DOMAIN flight |-> flight[i] + 1]
    BY DEF PaidInv, LimitTypeOK, TimePasses
  <2>2. MaxHold \in Nat OBVIOUS
  <2> QED BY <2>1, <2>2, AgesGrow
<1>2. credit' \in Nat /\ credit' <= credit + 1 /\ credit' <= FullBucket
  BY DEF PaidInv, LimitTypeOK, TimePasses, Refill
<1>3. \A n \in Nat : PerToken * n \in Nat
  BY OneMore
<1>4. EachWasPaid'
  <2> SUFFICES ASSUME NEW i \in DOMAIN flight'
               PROVE  credit' + PerToken * (Len(flight') - i + 1) <= FullBucket + flight'[i]
    BY DEF EachWasPaid
  <2>1. i \in 1..Len(flight) /\ Len(flight) - i + 1 \in Nat /\ flight[i] \in Nat
    BY <1>1
  <2>2. credit + PerToken * (Len(flight) - i + 1) <= FullBucket + flight[i]
    BY <1>1, <2>1 DEF PaidInv, EachWasPaid
  <2>3. flight'[i] = flight[i] + 1 BY <1>1, <2>1
  <2> DEFINE toll == PerToken * (Len(flight) - i + 1)
  <2>4. toll \in Nat BY <1>3, <2>1
  <2> HIDE DEF toll
  <2>5. credit + toll <= FullBucket + flight[i] BY <2>2 DEF toll
  <2>6. credit' + toll <= FullBucket + flight'[i]
    <3> HIDE ConstantsAreNat
    <3>1. credit \in Nat /\ flight[i] \in Nat /\ FullBucket \in Nat /\ credit' \in Nat
      BY <1>1, <1>2, <2>1, CapacityIsNat
    <3> QED BY <1>2, <2>3, <2>4, <2>5, <3>1
  <2> QED BY <1>1, <2>6 DEF toll
<1>5. ShortByTheDelay'
  <2> DEFINE tolls == PerToken * Len(flight)
  <2>1. tolls \in Nat BY <1>1, <1>3
  <2>2. PerToken * Len(flight') = tolls BY <1>1
  <2>3. credit + tolls <= allowance + Held BY DEF PaidInv, ShortByTheDelay
  <2> HIDE DEF tolls
  <2>4. CASE flight = << >>
    <3>1. tolls = 0 BY <2>4, ConstantsAreNat DEF tolls
    <3>2. Held = late /\ Held' = late BY <1>1, <2>4 DEF Held
    <3>3. credit' + tolls <= allowance' + Held'
      BY <1>1, <1>2, <2>3, <3>1, <3>2 DEF PaidInv, LimitTypeOK, TimePasses, Refill
    <3> QED BY <2>2, <3>3 DEF ShortByTheDelay
  <2>5. CASE flight # << >>
    <3>1. 1 \in DOMAIN flight /\ Head(flight) = flight[1] /\ Head(flight') = flight'[1]
          /\ flight' # << >> /\ flight[1] \in Nat
      BY <1>1, <2>5
    <3>2. Held' = Max2(late, flight[1] + 1) /\ Held = Max2(late, flight[1])
      BY <1>1, <2>5, <3>1 DEF Held
    <3>3. Held' >= Held /\ Held' >= flight[1] + 1 /\ Held \in Nat /\ Held' \in Nat
      BY <1>1, <3>1, <3>2 DEF Max2
    <3>4. credit + tolls <= FullBucket + flight[1]
      <4>1. Len(flight) - 1 + 1 = Len(flight) BY <1>1
      <4>2. credit + PerToken * (Len(flight) - 1 + 1) <= FullBucket + flight[1]
        BY <3>1 DEF PaidInv, EachWasPaid
      <4> QED BY <4>1, <4>2 DEF tolls
    <3>5. CASE allowance = FullBucket
      <4>1. allowance' = FullBucket BY <3>5 DEF TimePasses, Refill
      <4>2. credit' + tolls <= allowance' + Held'
        <5>1. credit \in Nat /\ FullBucket \in Nat BY <1>1, CapacityIsNat
        <5>2. \A c, d, t, cap, f, h \in Nat :
                 d <= c + 1 /\ c + t <= cap + f /\ h >= f + 1 => d + t <= cap + h
          OBVIOUS
        <5>3. credit' \in Nat /\ flight[1] \in Nat /\ Held' \in Nat BY <1>2, <3>1, <3>3
        <5>4. credit' + tolls <= FullBucket + Held'
          BY <5>1, <5>2, <5>3, <1>2, <2>1, <3>3, <3>4
        <5> QED BY <5>4, <4>1
      <4> QED BY <2>2, <4>2 DEF ShortByTheDelay
    <3>6. CASE allowance # FullBucket
      <4>1. allowance' = allowance + 1 BY <3>6 DEF PaidInv, LimitTypeOK, TimePasses, Refill
      <4> QED BY <1>1, <1>2, <2>1, <2>2, <2>3, <3>3, <4>1 DEF ShortByTheDelay
    <3> QED BY <3>5, <3>6
  <2> QED BY <2>4, <2>5
<1> QED BY <1>4, <1>5

\* A message sent takes from the bucket what its place in the flight counts.
LEMMA TakeIsPaid ==
  ASSUME PaidInv, TryTake
  PROVE  EachWasPaid' /\ ShortByTheDelay'
<1> DEFINE n == Len(flight)
<1>1. /\ PerToken \in Nat /\ FullBucket \in Nat /\ n \in Nat /\ DOMAIN flight = 1..n
      /\ credit \in Nat /\ allowance \in Nat /\ late \in Nat /\ credit <= FullBucket
      /\ credit >= PerToken /\ credit' = credit - PerToken
      /\ allowance' = allowance /\ late' = late
      /\ \A i \in 1..n : flight[i] \in Nat
  BY PlainFacts DEF TryTake
<1>2. /\ Len(flight') = n + 1 /\ DOMAIN flight' = 1..(n + 1) /\ flight'[n + 1] = 0
      /\ \A i \in 1..n : flight'[i] = flight[i]
      /\ Head(flight') = IF flight = << >> THEN 0 ELSE Head(flight)
      /\ flight' # << >>
  BY PlainFacts DEF TryTake
<1>3. \A k \in Nat : PerToken * k \in Nat /\ PerToken * (k + 1) = PerToken * k + PerToken
  BY <1>1, OneMore
<1>4. EachWasPaid'
  <2> SUFFICES ASSUME NEW i \in 1..(n + 1)
               PROVE  credit' + PerToken * (n + 1 - i + 1) <= FullBucket + flight'[i]
    BY <1>2 DEF EachWasPaid
  <2>1. n + 1 - i \in Nat BY <1>1
  <2>2. PerToken * (n + 1 - i + 1) = PerToken * (n + 1 - i) + PerToken
        /\ PerToken * (n + 1 - i) \in Nat
    BY <1>3, <2>1
  <2>3. CASE i = n + 1
    <3>1. PerToken * (n + 1 - i) = 0 BY <1>1, <2>3
    <3> QED BY <1>1, <1>2, <2>2, <2>3, <3>1
  <2>4. CASE i \in 1..n
    <3>1. credit + PerToken * (n - i + 1) <= FullBucket + flight[i]
      BY <1>1, <2>4 DEF PaidInv, EachWasPaid
    <3>2. n - i + 1 = n + 1 - i BY <1>1, <2>4
    <3>3. credit + PerToken * (n + 1 - i) <= FullBucket + flight[i] BY <3>1, <3>2
    <3>4. flight'[i] = flight[i] /\ flight[i] \in Nat BY <1>1, <1>2, <2>4
    <3> QED BY <1>1, <2>2, <3>3, <3>4
  <2> QED BY <1>1, <2>3, <2>4
<1>5. ShortByTheDelay'
  <2>1. credit + PerToken * n <= allowance + Held BY DEF PaidInv, ShortByTheDelay
  <2>2. Held \in Nat /\ Held' = Held
    BY <1>1, <1>2 DEF Held, Max2
  <2>3. PerToken * (n + 1) = PerToken * n + PerToken /\ PerToken * n \in Nat BY <1>1, <1>3
  <2>4. credit' + PerToken * (n + 1) <= allowance' + Held' BY <1>1, <2>1, <2>2, <2>3
  <2> QED BY <1>2, <2>4 DEF ShortByTheDelay
<1> QED BY <1>4, <1>5

\* What arrives leaves the flight, and what it was held for is remembered.
LEMMA ArrivalIsPaid ==
  ASSUME PaidInv, Arrives,
         allowance' \in Nat, allowance' >= allowance - PerToken
  PROVE  EachWasPaid' /\ ShortByTheDelay'
<1> DEFINE n == Len(flight)
<1>1. /\ PerToken \in Nat /\ FullBucket \in Nat /\ n \in Nat /\ DOMAIN flight = 1..n
      /\ credit \in Nat /\ allowance \in Nat /\ late \in Nat
      /\ credit' = credit /\ late' = Max2(late, Head(flight)) /\ n > 0
      /\ \A i \in 1..n : flight[i] \in Nat
      /\ Head(flight) = flight[1] /\ flight # << >>
  BY PlainFacts DEF Arrives
<1>2. /\ Len(flight') = n - 1 /\ DOMAIN flight' = 1..(n - 1)
      /\ \A i \in 1..(n - 1) : flight'[i] = flight[i + 1]
      /\ (flight' # << >> => n - 1 > 0 /\ Head(flight') = flight[2] /\ flight[2] \in Nat)
  BY <1>1, PlainFacts DEF Arrives
<1>3. EachWasPaid'
  <2> SUFFICES ASSUME NEW i \in 1..(n - 1)
               PROVE  credit' + PerToken * (n - 1 - i + 1) <= FullBucket + flight'[i]
    BY <1>2 DEF EachWasPaid
  <2>1. i + 1 \in 1..n /\ n - (i + 1) + 1 = n - 1 - i + 1 BY <1>1
  <2>2. credit + PerToken * (n - (i + 1) + 1) <= FullBucket + flight[i + 1]
    BY <1>1, <2>1 DEF PaidInv, EachWasPaid
  <2> QED BY <1>1, <1>2, <2>1, <2>2
<1>4. ShortByTheDelay'
  <2>1. credit + PerToken * n <= allowance + Held BY DEF PaidInv, ShortByTheDelay
  <2>2. Held = late' /\ late' \in Nat /\ Held' \in Nat /\ Held' >= late'
    BY <1>1, <1>2 DEF Held, Max2
  <2>3. n - 1 \in Nat /\ n - 1 + 1 = n BY <1>1
  <2>4. PerToken * n = PerToken * (n - 1) + PerToken /\ PerToken * (n - 1) \in Nat
    BY <1>1, <2>3, OneMore
  <2>5. credit' + PerToken * (n - 1) <= allowance' + Held' BY <1>1, <2>1, <2>2, <2>4
  <2> QED BY <1>2, <2>5 DEF ShortByTheDelay
<1> QED BY <1>3, <1>4

\* A message is refused only if it was held back: it was paid for, so that its token
\* is there but for the parts of a delay.
LEMMA RefusedWasHeld ==
  ASSUME PaidInv, ChatIsRefused
  PROVE  late' > 0
<1> DEFINE n == Len(flight)
<1>1. /\ PerToken \in Nat /\ n \in Nat /\ n > 0 /\ credit \in Nat /\ allowance \in Nat
      /\ allowance < PerToken /\ late' = Held /\ late' \in Nat
  BY PlainFacts DEF ChatIsRefused, Arrives, Held, Max2
<1>2. credit + PerToken * n <= allowance + Held BY DEF PaidInv, ShortByTheDelay
<1>3. n - 1 \in Nat /\ n - 1 + 1 = n BY <1>1
<1>4. PerToken * n = PerToken * (n - 1) + PerToken /\ PerToken * (n - 1) \in Nat
  BY <1>1, <1>3, OneMore
<1> QED BY <1>1, <1>2, <1>4

\* Every step keeps the invariant.
LEMMA StepIsPaid == PaidInv /\ [LimitNext]_limitVars => PaidInv'
<1> SUFFICES ASSUME PaidInv, [LimitNext]_limitVars
             PROVE  PaidInv'
  OBVIOUS
<1> DEFINE Excused == hits > 0 => late > 0
<1>1. CASE TimePasses
  <2>1. LimitTypeOK' BY <1>1, TypeIsKept DEF PaidInv, LimitNext
  <2>2. Excused' BY <1>1 DEF PaidInv, TimePasses
  <2> QED BY <1>1, <2>1, <2>2, TickIsPaid DEF PaidInv
<1>2. CASE TryTake
  <2>1. LimitTypeOK' BY <1>2, TypeIsKept DEF PaidInv, LimitNext
  <2>2. Excused' BY <1>2 DEF PaidInv, TryTake
  <2> QED BY <1>2, <2>1, <2>2, TakeIsPaid DEF PaidInv
<1>3. CASE TryConsume
  <2>1. LimitTypeOK' BY <1>3, TypeIsKept DEF PaidInv, LimitNext
  <2>2. allowance' \in Nat /\ allowance' >= allowance - PerToken /\ Arrives
    BY <1>3, PlainFacts DEF TryConsume
  <2>3. EachWasPaid' /\ ShortByTheDelay' BY <2>2, ArrivalIsPaid
  <2>4. late' >= late /\ hits' = hits /\ late \in Nat /\ late' \in Nat
    BY <1>3, PlainFacts DEF TryConsume, Arrives, Max2
  <2>5. Excused' BY <2>4 DEF PaidInv
  <2> QED BY <2>1, <2>3, <2>5 DEF PaidInv
<1>4. CASE ChatIsRefused
  <2>1. LimitTypeOK' BY <1>4, TypeIsKept DEF PaidInv, LimitNext
  <2>2. allowance' \in Nat /\ allowance' >= allowance - PerToken /\ Arrives
    BY <1>4, PlainFacts DEF ChatIsRefused
  <2>3. EachWasPaid' /\ ShortByTheDelay' BY <2>2, ArrivalIsPaid
  <2>4. Excused' BY <1>4, RefusedWasHeld
  <2> QED BY <2>1, <2>3, <2>4 DEF PaidInv
<1>5. CASE UNCHANGED limitVars
  BY <1>5 DEF limitVars, PaidInv, LimitTypeOK, EachWasPaid, ShortByTheDelay, Held
<1> QED BY <1>1, <1>2, <1>3, <1>4, <1>5 DEF LimitNext

\* For every burst, rate, delay and number of messages: a client that keeps to its own
\* limit has its tokens at the server, but for what the network held back, and is
\* refused for nothing else (handleChat, TokenBucket).
THEOREM HonestClientIsHeard ==
  LimitSpec => []HonestIsHeard
<1>1. LimitInit => PaidInv BY InitIsPaid
<1>2. PaidInv /\ [LimitNext]_limitVars => PaidInv' BY StepIsPaid
<1>3. PaidInv => HonestIsHeard BY DEF PaidInv, HonestIsHeard
<1> QED BY <1>1, <1>2, <1>3, PTL DEF LimitSpec
=============================================================================
