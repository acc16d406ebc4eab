--------------------------- MODULE OutboundQueue ---------------------------
(***************************************************************************)
(* The bounded outbound queue of one receiving connection                  *)
(* (server/src/outbound_queue.cpp), as operators on a queue value          *)
(*    [messages |-> Seq of messages, stateIndex |-> Nat].                  *)
(* stateIndex is the position of the one player_state that may still be    *)
(* overwritten in place; positions start at 1 and 0 stands for the empty   *)
(* optional.  The diagnostics counter droppedStates_ is left out.          *)
(***************************************************************************)
EXTENDS Naturals, Sequences

CONSTANT Capacity  \* protocol::kOutboundQueueCap; the constructor turns 0 into 1

ASSUME CapacityAssumption == Capacity \in Nat \ {0}

EmptyQueue == [messages |-> << >>, stateIndex |-> 0]

Full(q) == Len(q.messages) >= Capacity

\* A state is dropped when there is nothing to overwrite and no room for it.
StateDropped(q) == q.stateIndex = 0 /\ Full(q)

\* Mutant of PushState: the pending state stays, the new one is forgotten.
PushStateKeepsFirst(q, m) ==
  IF q.stateIndex # 0 \/ Full(q)
  THEN q
  ELSE [messages   |-> Append(q.messages, m),
        stateIndex |-> Len(q.messages) + 1]

PushState(q, m) ==
  IF q.stateIndex # 0
  THEN [q EXCEPT !.messages = [q.messages EXCEPT ![q.stateIndex] = m]]
  ELSE IF Full(q)
       THEN q
       ELSE [messages   |-> Append(q.messages, m),
             stateIndex |-> Len(q.messages) + 1]

\* Mutant of PushControl: a full queue makes room by dropping its oldest entry.
PushControlDropsOldest(q, m) ==
  [q EXCEPT !.messages = Append(IF Full(q) THEN Tail(@) ELSE @, m)]

\* A full queue refuses a control message: the caller sees kOverflow.
PushControl(q, m) ==
  IF Full(q) THEN q ELSE [q EXCEPT !.messages = Append(q.messages, m)]

FrontMessage(q) == Head(q.messages)

\* Mutant of PopFront: the index is not shifted with the messages.
PopFrontKeepsSlot(q) ==
  [messages   |-> Tail(q.messages),
   stateIndex |-> IF q.stateIndex = 1 THEN 0 ELSE q.stateIndex]

\* Position 1 becomes 0, the reset of the optional.
PopFront(q) ==
  [messages   |-> Tail(q.messages),
   stateIndex |-> IF q.stateIndex = 0 THEN 0 ELSE q.stateIndex - 1]
=============================================================================
