------------------------------ MODULE EventBus ------------------------------
(* The synchronous publish/subscribe bus (core/src/events/event-bus.ts). A      *)
(* handler runs inside the dispatch that calls it and may itself subscribe,     *)
(* unsubscribe, clear or emit: dispatches nest, so they are a stack, and the    *)
(* operations are free to happen between any two calls of handlers. The handler *)
(* sets are objects with an identity, as in the code: a dispatch keeps the one  *)
(* it began with, even when the map has dropped or replaced it.                 *)
EXTENDS Naturals, Sequences, SequencesExt, FiniteSets

CONSTANTS
    Types,     \* event names
    Handlers,
    MaxSets,   \* bound: Set objects ever made
    MaxDepth,  \* bound: nested dispatches
    MaxEmits   \* bound: emits in a behaviour

ASSUME BusAssumption == {MaxSets, MaxDepth, MaxEmits} \subseteq Nat

VARIABLES
    heap,       \* every Set object made so far: handlers in subscription order
    handlers,   \* the map: a type to the index of its set, 0 when it has none
    dispatches,      \* running dispatches, the innermost last
    emits       \* emits so far

busVars == <<heap, handlers, dispatches, emits>>

BusInit ==
    /\ heap = << >> /\ handlers = [t \in Types |-> 0]
    /\ dispatches = << >> /\ emits = 0

SetOf(t) == IF handlers[t] = 0 THEN << >> ELSE heap[handlers[t]]

\* on to a type that has a set: idempotent.
On(t, h) ==
    /\ handlers[t] # 0
    /\ heap' = [heap EXCEPT ![handlers[t]] = IF Contains(@, h) THEN @ ELSE Append(@, h)]
    /\ UNCHANGED <<handlers, dispatches, emits>>

\* on to a type without one makes a new Set.
OnNew(t, h) ==
    /\ handlers[t] = 0 /\ Len(heap) < MaxSets
    /\ heap' = Append(heap, <<h>>)
    /\ handlers' = [handlers EXCEPT ![t] = Len(heap) + 1]
    /\ UNCHANGED <<dispatches, emits>>

\* What the running dispatches have to know: h was taken off type t.
Removed(t, h) ==
    [i \in DOMAIN dispatches |->
        IF dispatches[i].type = t THEN [dispatches[i] EXCEPT !.removed = @ \union {h}] ELSE dispatches[i]]

\* off: an emptied set leaves the map.
Off(t, h) ==
    /\ Contains(SetOf(t), h)
    /\ heap' = [heap EXCEPT ![handlers[t]] = RemoveFirst(@, h)]
    /\ handlers' = [handlers EXCEPT ![t] = IF SetOf(t) = <<h>> THEN 0 ELSE @]
    /\ dispatches' = Removed(t, h)
    /\ UNCHANGED emits

\* clear: the map forgets its sets; the sets keep their handlers.
Clear ==
    /\ \E t \in Types : handlers[t] # 0
    /\ handlers' = [t \in Types |-> 0]
    /\ dispatches' = [i \in DOMAIN dispatches |->
                    [dispatches[i] EXCEPT !.cleared = @ \union ToSet(SetOf(dispatches[i].type))]]
    /\ UNCHANGED <<heap, emits>>

\* emit to a type with handlers; with none it returns at once. removed, cleared
\* and called are ghosts: what has happened to handlers since the dispatch began.
Emit(t) ==
    /\ SetOf(t) # << >> /\ emits < MaxEmits /\ Len(dispatches) < MaxDepth
    /\ emits' = emits + 1
    /\ dispatches' = Append(dispatches, [type |-> t, set |-> handlers[t], snapshot |-> SetOf(t), rest |-> SetOf(t),
                               called |-> << >>, removed |-> {}, cleared |-> {}])
    /\ UNCHANGED <<heap, handlers>>

Top == dispatches[Len(dispatches)]
WithTop(frame) == [dispatches EXCEPT ![Len(dispatches)] = frame]

\* A mutant: the snapshot alone decides who is called.
DeliverToAll ==
    /\ dispatches # << >> /\ Top.rest # << >>
    /\ dispatches' = WithTop([Top EXCEPT !.rest = Tail(@), !.called = Append(@, Head(Top.rest))])
    /\ UNCHANGED <<heap, handlers, emits>>

\* A mutant: a handler that is gone ends the dispatch.
DeliverStops ==
    /\ dispatches # << >> /\ Top.rest # << >>
    /\ LET h == Head(Top.rest)
       IN  dispatches' = WithTop(IF Contains(heap[Top.set], h)
                            THEN [Top EXCEPT !.rest = Tail(@), !.called = Append(@, h)]
                            ELSE [Top EXCEPT !.rest = << >>])
    /\ UNCHANGED <<heap, handlers, emits>>

\* The next handler of the snapshot is called, unless its set has lost it.
Deliver ==
    /\ dispatches # << >> /\ Top.rest # << >>
    /\ LET h == Head(Top.rest)
       IN  dispatches' = WithTop([Top EXCEPT !.rest = Tail(@),
                       !.called = IF Contains(heap[Top.set], h) THEN Append(@, h) ELSE @])
    /\ UNCHANGED <<heap, handlers, emits>>

EmitReturns ==
    /\ dispatches # << >> /\ Top.rest = << >>
    /\ dispatches' = Front(dispatches)
    /\ UNCHANGED <<heap, handlers, emits>>

BusNext ==
    \/ \E t \in Types : Emit(t) \/ \E h \in Handlers : On(t, h) \/ OnNew(t, h) \/ Off(t, h)
    \/ Clear \/ Deliver \/ EmitReturns

BusSpec == BusInit /\ [][BusNext]_busVars

-----------------------------------------------------------------------------
\* The sets of the map are not empty and hold a handler once (on, off).
BusTypeOK ==
    /\ \A i \in DOMAIN heap : heap[i] \in Seq(Handlers) /\ IsInjective(heap[i])
    /\ \A t \in Types : handlers[t] \in 0..Len(heap) /\ (handlers[t] # 0 => SetOf(t) # << >>)
    /\ Len(dispatches) <= MaxDepth /\ emits \in 0..MaxEmits

Called == ToSet(Top.called)
Calls == dispatches # << >> /\ Len(dispatches') = Len(dispatches) /\ dispatches'[Len(dispatches)].called # Top.called

\* event-bus.ts:54 "unsubscribed during the emission ... are skipped": no
\* dispatch, however nested, calls a handler that off has removed.
OffIsSkipped ==
    [][Calls /\ Head(Top.rest) \in Top.removed \ Top.cleared
         => Contains(SetOf(Top.type), Head(Top.rest))]_busVars

\* Every handler that stays subscribed from the emit to its end is called, once,
\* in the order of subscription, whatever the others subscribe, remove or emit
\* (emit).
Stays(d, a) == d.snapshot[a] \notin d.removed \union d.cleared
CalledInOrder ==
    \A i \in DOMAIN dispatches :
        LET d == dispatches[i]
        IN  d.rest = << >> =>
              /\ \A a, b \in DOMAIN d.snapshot : a <= b /\ Stays(d, a) /\ Stays(d, b) =>
                   \E k, l \in DOMAIN d.called : /\ k <= l /\ d.called[k] = d.snapshot[a]
                                                /\ d.called[l] = d.snapshot[b]
              /\ IsInjective(d.called)

StayersAreCalled == BusTypeOK /\ CalledInOrder

\* event-bus.ts:72 "Removes every handler": a handler clear has removed is called
\* no more, in the running dispatch either.
ClearedIsSkipped ==
    [][Calls /\ Head(Top.rest) \in Top.cleared
         => Contains(SetOf(Top.type), Head(Top.rest))]_busVars
=============================================================================
