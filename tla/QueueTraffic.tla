---------------------------- MODULE QueueTraffic ----------------------------
(***************************************************************************)
(* One outbound queue under arbitrary traffic: every legal call sequence   *)
(* of pushState, pushControl and popFront.  A control message is tagged    *)
(* with the ticket it was accepted under, a state with the number of the   *)
(* broadcast it came from, so that losses, overtaking and stale states are *)
(* visible in the counters of Mailbox.                                     *)
(***************************************************************************)
EXTENDS OutboundQueue

CONSTANTS MaxControls,  \* bound: control messages accepted in a behaviour
          MaxOffered    \* bound: states offered in a behaviour

ASSUME TrafficAssumption == MaxControls \in Nat /\ MaxOffered \in Nat

VARIABLES outbox,    \* the OutboundQueue
          offered,   \* states offered so far, dropped ones included
          accepted,  \* control messages accepted so far
          taken,     \* ticket of the last control message popped
          newest,    \* number of the last state the queue did not drop
          shown      \* number of the last state popped

trafficVars == <<outbox, offered, accepted, taken, newest, shown>>

Control(n) == [kind |-> "control", n |-> n]
State(n) == [kind |-> "state", n |-> n]
Message == [kind : {"control", "state"}, n : Nat]

TrafficInit == /\ outbox = EmptyQueue
               /\ offered = 0
               /\ accepted = 0
               /\ taken = 0
               /\ newest = 0
               /\ shown = 0

OfferState ==
  /\ offered < MaxOffered
  /\ offered' = offered + 1
  /\ outbox' = PushState(outbox, State(offered + 1))
  /\ newest' = IF StateDropped(outbox) THEN newest ELSE offered + 1
  /\ UNCHANGED <<accepted, taken, shown>>

OfferControl ==
  /\ accepted < MaxControls
  /\ ~Full(outbox)
  /\ outbox' = PushControl(outbox, Control(accepted + 1))
  /\ accepted' = accepted + 1
  /\ UNCHANGED <<offered, taken, newest, shown>>

\* kOverflow: the call changes nothing, the caller keeps (and loses) the message.
RefuseControl ==
  /\ accepted < MaxControls
  /\ Full(outbox)
  /\ outbox' = PushControl(outbox, Control(accepted + 1))
  /\ UNCHANGED <<offered, accepted, taken, newest, shown>>

\* The caller checks !empty() first.
Pop ==
  /\ outbox.messages # << >>
  /\ outbox' = PopFront(outbox)
  /\ taken' = IF FrontMessage(outbox).kind = "control" THEN FrontMessage(outbox).n ELSE taken
  /\ shown' = IF FrontMessage(outbox).kind = "state" THEN FrontMessage(outbox).n ELSE shown
  /\ UNCHANGED <<offered, accepted, newest>>

TrafficNext == OfferState \/ OfferControl \/ RefuseControl \/ Pop

TrafficSpec == TrafficInit /\ [][TrafficNext]_trafficVars

-----------------------------------------------------------------------------
TrafficTypeOK ==
  /\ outbox \in [messages : Seq(Message), stateIndex : Nat]
  /\ offered \in Nat
  /\ accepted \in Nat
  /\ taken \in Nat
  /\ newest \in Nat
  /\ shown \in Nat

\* The cap of ADR-004 holds whatever the mix of pushes and pops.
Bounded == Len(outbox.messages) <= Capacity

\* stateIndex names the one state in the queue, after any mix of appends,
\* overwrites and pops: an index left behind by popFront would let pushState
\* overwrite a control message.
SlotTracksState ==
  /\ outbox.stateIndex <= Len(outbox.messages)
  /\ \A i \in 1..Len(outbox.messages) :
        outbox.messages[i].kind = "state" <=> i = outbox.stateIndex

Slots == IF outbox.stateIndex = 0 THEN 0 ELSE 1
SlotsBefore(i) == IF outbox.stateIndex # 0 /\ outbox.stateIndex < i THEN 1 ELSE 0

\* The pending control messages are exactly the tickets taken+1 .. accepted,
\* in order: coalescing around them neither loses nor reorders one.
ControlFifo ==
  /\ accepted + Slots = taken + Len(outbox.messages)
  /\ \A i \in 1..Len(outbox.messages) :
        outbox.messages[i].kind = "control"
          => outbox.messages[i].n + SlotsBefore(i) = taken + i

\* Rule 1 of ADR-004, for one stream of states: what is pending is the newest
\* state accepted, and when nothing is pending the newest was handed out.
NewestIsKept ==
  /\ shown <= newest /\ newest <= offered
  /\ outbox.stateIndex # 0 => /\ outbox.messages[outbox.stateIndex].n = newest
                             /\ shown < newest
  /\ outbox.stateIndex = 0 => shown = newest

\* The queue, its states coalesced in place, keeps the promise of Mailbox.
Promise == INSTANCE Mailbox WITH accepted <- accepted, taken <- taken,
                                 newest <- newest, shown <- shown
KeepsPromise == Promise!MailSpec
=============================================================================
