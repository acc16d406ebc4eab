----------------------------- MODULE EngineProofs -----------------------------
(***************************************************************************)
(* The core and the renderer.  The event bus: a nested, reentrant dispatch *)
(* calls who stays and nobody else.  The interpreter: the effect log tells *)
(* the whole story of a run.  The tile layers: what is cached, bound and   *)
(* drawn is cut from the right image.  The frames of the WebGL backend:    *)
(* however the batches break and the context comes and goes, what is drawn *)
(* is what was asked for, for any batch and any number of quads.  The      *)
(* camera: for every size the player and the dialogue can be seen.  The    *)
(* scene graph: the registry is the tree's, by whatever way it grew.       *)
(***************************************************************************)
EXTENDS EventBus, Interpreter, SceneGraph, TileLayers, WebGLFrames, Camera, ListLemmas

-----------------------------------------------------------------------------
(* The event bus                                                            *)

\* A dispatch under way, with its ghosts.
Dispatch == [type : Types, set : Nat, snapshot : Seq(Handlers), rest : Seq(Handlers),
             called : Seq(Handlers), removed : SUBSET Handlers, cleared : SUBSET Handlers]

\* How far a dispatch has got, and what it has done by then: it goes through its
\* snapshot, calls nobody twice and has called who stays, in order.
Done(d) == Len(d.snapshot) - Len(d.rest)
Walked(d) ==
  /\ IsInjective(d.snapshot) /\ Len(d.rest) <= Len(d.snapshot)
  /\ \A i \in 1..Len(d.rest) : d.rest[i] = d.snapshot[Done(d) + i]
  /\ IsInjective(d.called)
  /\ \A p \in 1..Len(d.called) : \E i \in 1..Done(d) : d.called[p] = d.snapshot[i]
  /\ \A a, b \in 1..Done(d) : a <= b /\ Stays(d, a) /\ Stays(d, b) =>
       \E k, l \in 1..Len(d.called) : /\ k <= l /\ d.called[k] = d.snapshot[a]
                                      /\ d.called[l] = d.snapshot[b]

\* Its set: who stays is in it; it is the set of no other type; and once it is not the
\* set of its own, either, what it holds was cleared.
Tied(d, sets, of) ==
  /\ d.set \in 1..Len(sets)
  /\ \A i \in 1..Len(d.snapshot) : Stays(d, i) => d.snapshot[i] \in ToSet(sets[d.set])
  /\ \A t \in Types : of[t] = d.set => t = d.type
  /\ of[d.type] # d.set => ToSet(sets[d.set]) \subseteq d.cleared

\* Every set is one type's, and every dispatch walks its snapshot and is tied to its set.
BusInv == /\ heap \in Seq(Seq(Handlers)) /\ handlers \in [Types -> Nat]
          /\ dispatches \in Seq(Dispatch) /\ BusTypeOK
          /\ \A t, u \in Types : handlers[t] = handlers[u] /\ handlers[t] # 0 => t = u
          /\ \A i \in 1..Len(dispatches) : /\ Walked(dispatches[i])
                                           /\ Tied(dispatches[i], heap, handlers)

\* More handlers that were taken off do not undo what a dispatch has done.
LEMMA StillWalked ==
  ASSUME NEW d, NEW e, Walked(d), e.snapshot = d.snapshot, e.rest = d.rest,
         e.called = d.called, d.removed \subseteq e.removed, d.cleared \subseteq e.cleared
  PROVE  Walked(e)
<1>1. Done(e) = Done(d) BY DEF Done
<1>2. \A a : Stays(e, a) => Stays(d, a) BY DEF Stays
<1> QED BY <1>1, <1>2 DEF Walked

\* The step of a dispatch to the next handler of its snapshot.
LEMMA WalksOn ==
  ASSUME NEW d \in Dispatch, Walked(d), d.rest # << >>, NEW calls \in BOOLEAN,
         NEW e \in Dispatch, e.snapshot = d.snapshot, e.rest = Tail(d.rest),
         e.removed = d.removed, e.cleared = d.cleared,
         e.called = IF calls THEN Append(d.called, Head(d.rest)) ELSE d.called,
         ~calls => ~Stays(d, Done(d) + 1)
  PROVE  Walked(e) /\ Head(d.rest) = d.snapshot[Done(d) + 1]
<1> DEFINE s == d.snapshot
           n == Len(s)
           r == Len(d.rest)
           done == Done(d)
           h == Head(d.rest)
           c == d.called
           m == Len(c)
<1>1. /\ s \in Seq(Handlers) /\ d.rest \in Seq(Handlers) /\ c \in Seq(Handlers)
      /\ n \in Nat /\ r \in Nat /\ m \in Nat /\ DOMAIN s = 1..n /\ DOMAIN c = 1..m
      /\ e.called \in Seq(Handlers)
  BY DEF Dispatch
<1>2. /\ Tail(d.rest) \in Seq(Handlers) /\ Len(Tail(d.rest)) = r - 1 /\ r # 0
      /\ \A i \in 1..(r - 1) : Tail(d.rest)[i] = d.rest[i + 1]
      /\ h = d.rest[1] /\ h \in Handlers
  BY <1>1
<1>3. done = n - r /\ r <= n /\ \A i \in 1..r : d.rest[i] = s[done + i] BY DEF Walked, Done
<1>4. Done(e) = n - (r - 1) BY <1>2 DEF Done
<1> HIDE DEF n, r, done, h, m, c, s
<1>5. /\ done \in Nat /\ Done(e) = done + 1 /\ done + 1 \in 1..n /\ r >= 1 /\ 1 \in 1..r
      /\ \A i \in 1..done : i \in 1..n /\ i # done + 1 /\ i \in 1..(done + 1)
      /\ \A i \in 1..(done + 1) : i \in 1..done \/ i = done + 1
  BY <1>1, <1>2, <1>3, <1>4
<1>6. h = s[done + 1] BY <1>2, <1>3, <1>5
<1>7. \A i \in 1..Len(e.rest) : e.rest[i] = s[Done(e) + i]
  <2> TAKE i \in 1..Len(e.rest)
  <2>1. i \in 1..(r - 1) /\ i + 1 \in 1..r BY <1>1, <1>2
  <2>2. e.rest[i] = s[done + (i + 1)] BY <1>2, <1>3, <2>1
  <2>3. done + (i + 1) = Done(e) + i BY <1>5, <2>1
  <2> QED BY <2>2, <2>3
<1>8. IsInjective(s) /\ \A i, j \in 1..n : s[i] = s[j] => i = j
  BY <1>1 DEF Walked, IsInjective, s
<1>9. \A p \in 1..m : \E i \in 1..done : c[p] = s[i] BY DEF Walked, m, c, s, done
<1>10. h \notin ToSet(c) BY <1>1, <1>5, <1>6, <1>8, <1>9 DEF ToSet
<1>11. IsInjective(e.called)
  <2>1. IsInjective(c) BY DEF Walked, c
  <2> QED BY <1>1, <1>2, <1>10, <2>1, AppendedAlone DEF c, h
<1>12. /\ Len(e.called) \in Nat /\ m <= Len(e.called)
       /\ \A p \in 1..m : p \in 1..Len(e.called) /\ e.called[p] = c[p]
       /\ calls => /\ Len(e.called) = m + 1 /\ e.called[m + 1] = h
                   /\ m + 1 \in 1..Len(e.called)
       /\ ~calls => Len(e.called) = m
  <2>1. CASE calls
    <3>1. e.called = Append(c, h) BY <2>1 DEF c, h
    <3>2. /\ Len(e.called) = m + 1 /\ e.called[m + 1] = h
          /\ \A p \in 1..m : e.called[p] = c[p]
      <4>1. /\ Len(Append(c, h)) = Len(c) + 1 /\ Append(c, h)[Len(c) + 1] = h
            /\ \A p \in 1..Len(c) : Append(c, h)[p] = c[p]
        BY <1>1, <1>2
      <4> QED BY <3>1, <4>1 DEF m
    <3> QED BY <2>1, <3>2, <1>1
  <2>2. CASE ~calls
    <3>1. e.called = c BY <2>2 DEF c
    <3> QED BY <2>2, <3>1, <1>1 DEF m
  <2> QED BY <2>1, <2>2
<1>13. ASSUME NEW p \in 1..Len(e.called)
       PROVE  \E i \in 1..Done(e) : e.called[p] = s[i]
  <2>1. CASE p \in 1..m BY <2>1, <1>5, <1>9, <1>12
  <2>2. CASE p \notin 1..m
    <3>1. calls /\ p = m + 1 BY <2>2, <1>1, <1>12
    <3> QED BY <3>1, <1>5, <1>6, <1>12
  <2> QED BY <2>1, <2>2
<1>14. \A a : Stays(e, a) <=> Stays(d, a) BY DEF Stays
<1>15. \A a, b \in 1..done : a <= b /\ Stays(d, a) /\ Stays(d, b) =>
         \E k, l \in 1..m : k <= l /\ c[k] = s[a] /\ c[l] = s[b]
  BY DEF Walked, m, c, s, done
<1>16. ASSUME NEW a \in 1..Done(e), NEW b \in 1..Done(e), a <= b, Stays(e, a), Stays(e, b)
       PROVE  \E k, l \in 1..Len(e.called) : k <= l /\ e.called[k] = s[a] /\ e.called[l] = s[b]
  <2>1. CASE a \in 1..done /\ b \in 1..done
    <3>1. PICK k \in 1..m, l \in 1..m : k <= l /\ c[k] = s[a] /\ c[l] = s[b]
      BY <2>1, <1>14, <1>15, <1>16
    <3> QED BY <3>1, <1>12
  <2>2. CASE b = done + 1
    <3>1. calls BY <2>2, <1>14, <1>16 DEF done
    <3>2. e.called[m + 1] = s[b] /\ m + 1 \in 1..Len(e.called) BY <2>2, <3>1, <1>6, <1>12
    <3>3. CASE a = done + 1 BY <2>2, <3>2, <3>3, <1>1
    <3>4. CASE a \in 1..done
      <4>1. PICK k \in 1..m : c[k] = s[a]
        <5>1. a <= a BY <1>5, <3>4
        <5> QED BY <5>1, <3>4, <1>14, <1>15, <1>16
      <4>2. k \in 1..Len(e.called) /\ e.called[k] = s[a] /\ k <= m + 1 BY <4>1, <1>1, <1>12
      <4> QED BY <4>2, <3>2
    <3> QED BY <3>3, <3>4, <1>5
  <2>3. b = done + 1 \/ (a \in 1..done /\ b \in 1..done) BY <1>5, <1>16
  <2> QED BY <2>1, <2>2, <2>3
<1>17. Len(e.rest) <= n BY <1>1, <1>2, <1>3
<1>18. Walked(e)
  <2>1. e.snapshot = s BY DEF s
  <2>2. Len(e.snapshot) = n BY DEF n, s
  <2>3. /\ IsInjective(e.snapshot) /\ Len(e.rest) <= Len(e.snapshot) /\ IsInjective(e.called)
        /\ \A i \in 1..Len(e.rest) : e.rest[i] = e.snapshot[Done(e) + i]
    BY <2>1, <2>2, <1>7, <1>8, <1>11, <1>17
  <2>4. \A p \in 1..Len(e.called) : \E i \in 1..Done(e) : e.called[p] = e.snapshot[i]
    BY <2>1, <1>13
  <2>5. \A a, b \in 1..Done(e) : a <= b /\ Stays(e, a) /\ Stays(e, b) =>
          \E k, l \in 1..Len(e.called) : /\ k <= l /\ e.called[k] = e.snapshot[a]
                                         /\ e.called[l] = e.snapshot[b]
    BY <2>1, <1>16
  <2> QED BY <2>3, <2>4, <2>5 DEF Walked
<1> QED BY <1>6, <1>18 DEF h, s, done

\* What ties a dispatch to its set outlives a change of the sets that takes nobody out
\* without telling the dispatch.
LEMMA TiedStill ==
  ASSUME NEW d, NEW e, NEW sets, NEW of, NEW sets2, NEW of2, Tied(d, sets, of),
         e.set = d.set, e.type = d.type, e.snapshot = d.snapshot,
         d.removed \subseteq e.removed, d.cleared \subseteq e.cleared,
         Len(sets) \in Nat, Len(sets2) \in Nat, Len(sets) <= Len(sets2),
         \A x \in ToSet(sets[d.set]) : x \in ToSet(sets2[d.set]) \/ x \in e.removed \union e.cleared,
         \A t \in Types : of2[t] = d.set => of[t] = d.set,
         of2[d.type] # d.set => ToSet(sets2[d.set]) \subseteq e.cleared
  PROVE  Tied(e, sets2, of2)
<1>1. e.set \in 1..Len(sets2) BY DEF Tied
<1>2. \A i \in 1..Len(e.snapshot) : Stays(e, i) => e.snapshot[i] \in ToSet(sets2[e.set])
  <2> TAKE i \in 1..Len(e.snapshot)
  <2>1. Stays(e, i) => Stays(d, i) BY DEF Stays
  <2>2. Stays(e, i) => e.snapshot[i] \notin e.removed \union e.cleared BY DEF Stays
  <2> QED BY <2>1, <2>2 DEF Tied
<1> QED BY <1>1, <1>2 DEF Tied

\* The state of the bus, in the words the steps use.
LEMMA BusFacts ==
  ASSUME BusInv
  PROVE  /\ Len(heap) \in Nat /\ DOMAIN heap = 1..Len(heap)
         /\ \A i \in 1..Len(heap) : heap[i] \in Seq(Handlers) /\ IsInjective(heap[i])
         /\ \A t \in Types : handlers[t] # 0 => /\ handlers[t] \in 1..Len(heap)
                                                /\ heap[handlers[t]] # << >>
         /\ Len(dispatches) \in Nat /\ DOMAIN dispatches = 1..Len(dispatches)
         /\ \A i \in 1..Len(dispatches) : dispatches[i] \in Dispatch
         /\ MaxDepth \in Nat /\ MaxEmits \in Nat /\ MaxSets \in Nat
<1>1. Len(heap) \in Nat /\ DOMAIN heap = 1..Len(heap) BY DEF BusInv
<1>2. Len(dispatches) \in Nat /\ DOMAIN dispatches = 1..Len(dispatches) BY DEF BusInv
<1>3. \A i \in 1..Len(dispatches) : dispatches[i] \in Dispatch BY DEF BusInv
<1>4. \A i \in 1..Len(heap) : heap[i] \in Seq(Handlers) /\ IsInjective(heap[i])
  BY <1>1 DEF BusInv, BusTypeOK
<1>5. \A t \in Types : handlers[t] # 0 => handlers[t] \in 1..Len(heap) /\ heap[handlers[t]] # << >>
  BY <1>1 DEF BusInv, BusTypeOK, SetOf
<1> QED BY <1>1, <1>2, <1>3, <1>4, <1>5, BusAssumption

\* on adds a handler to the set of its type.
LEMMA OnKeeps == ASSUME BusInv, NEW t \in Types, NEW h \in Handlers, On(t, h) PROVE BusInv'
<1> USE BusFacts
<1> DEFINE s == handlers[t]
           old == heap[s]
           new == IF Contains(old, h) THEN old ELSE Append(old, h)
<1>1. /\ s \in 1..Len(heap) /\ old \in Seq(Handlers) /\ IsInjective(old) /\ s # 0
      /\ handlers' = handlers /\ dispatches' = dispatches /\ emits' = emits
  BY DEF On
<1>2. heap' = [heap EXCEPT ![s] = new] BY DEF On
<1>3. /\ new \in Seq(Handlers) /\ IsInjective(new) /\ ToSet(old) \subseteq ToSet(new)
      /\ new # << >>
  <2>1. CASE Contains(old, h)
    <3>1. old # << >> BY <1>1
    <3> QED BY <2>1, <3>1, <1>1
  <2>2. CASE ~Contains(old, h)
    <3>1. h \notin ToSet(old) BY <2>2, <1>1, ContainsIsIn
    <3>2. Append(old, h) \in Seq(Handlers) /\ Append(old, h) # << >> BY <1>1
    <3>3. IsInjective(Append(old, h)) /\ ToSet(old) \subseteq ToSet(Append(old, h))
      BY <3>1, <1>1, AppendedAlone
    <3> QED BY <2>2, <3>2, <3>3
  <2> QED BY <2>1, <2>2
<1> HIDE DEF new
<1>4. heap \in Seq(Seq(Handlers)) BY DEF BusInv
<1>5. /\ heap' \in Seq(Seq(Handlers)) /\ Len(heap') = Len(heap) /\ DOMAIN heap' = DOMAIN heap
      /\ heap'[s] = new /\ \A i \in 1..Len(heap) : i # s => heap'[i] = heap[i]
  BY <1>1, <1>2, <1>3, <1>4
<1>6. BusTypeOK'
  <2>1. \A i \in DOMAIN heap' : heap'[i] \in Seq(Handlers) /\ IsInjective(heap'[i])
    BY <1>3, <1>5
  <2>2. \A u \in Types : handlers'[u] \in 0..Len(heap') /\ (handlers'[u] # 0 => heap'[handlers'[u]] # << >>)
    BY <1>1, <1>3, <1>5 DEF BusInv, BusTypeOK
  <2> QED BY <2>1, <2>2, <1>1 DEF BusInv, BusTypeOK, SetOf
<1>7. ASSUME NEW i \in 1..Len(dispatches)
      PROVE  Walked(dispatches[i]) /\ Tied(dispatches[i], heap', handlers)
  <2> DEFINE d == dispatches[i]
  <2>1. Walked(d) /\ Tied(d, heap, handlers) BY DEF BusInv
  <2> HIDE DEF d
  <2>2. d.set \in 1..Len(heap) /\ (d.set = s => d.type = t) BY <2>1 DEF Tied
  <2>3. \A x \in ToSet(heap[d.set]) : x \in ToSet(heap'[d.set]) BY <2>2, <1>3, <1>5
  <2>4. handlers[d.type] # d.set => ToSet(heap'[d.set]) \subseteq d.cleared
    BY <2>1, <2>2, <1>5 DEF Tied
  <2>5. Len(heap') \in Nat /\ Len(heap) <= Len(heap') BY <1>5
  <2>6. Tied(d, heap', handlers) BY <2>1, <2>3, <2>4, <2>5, TiedStill
  <2> QED BY <2>1, <2>6 DEF d
<1> QED BY <1>1, <1>5, <1>6, <1>7 DEF BusInv

\* on to a type without handlers makes it a set of its own.
LEMMA OnNewKeeps == ASSUME BusInv, NEW t \in Types, NEW h \in Handlers, OnNew(t, h) PROVE BusInv'
<1> USE BusFacts
<1> DEFINE n == Len(heap)
<1>1. /\ heap' = Append(heap, <<h>>) /\ handlers' = [handlers EXCEPT ![t] = n + 1]
      /\ handlers[t] = 0 /\ dispatches' = dispatches /\ emits' = emits
  BY DEF OnNew
<1>2. <<h>> \in Seq(Handlers) /\ IsInjective(<<h>>) /\ <<h>> # << >> BY DEF IsInjective
<1>3. heap \in Seq(Seq(Handlers)) /\ handlers \in [Types -> Nat] BY DEF BusInv
<1>4. /\ heap' \in Seq(Seq(Handlers)) /\ Len(heap') = n + 1 /\ DOMAIN heap' = 1..(n + 1)
      /\ heap'[n + 1] = <<h>> /\ \A i \in 1..n : heap'[i] = heap[i]
  BY <1>1, <1>2, <1>3
<1>5. /\ handlers' \in [Types -> Nat] /\ handlers'[t] = n + 1
      /\ \A u \in Types : u # t => handlers'[u] = handlers[u]
  BY <1>1, <1>3
<1> HIDE DEF n
<1>a. n \in Nat /\ n = Len(heap) /\ \A i \in 1..n : i # n + 1 /\ i \in 1..(n + 1) BY DEF n
<1>6. BusTypeOK'
  <2>1. \A i \in DOMAIN heap' : heap'[i] \in Seq(Handlers) /\ IsInjective(heap'[i])
    <3>1. \A i \in 1..(n + 1) : i \in 1..n \/ i = n + 1 BY <1>a
    <3> QED BY <3>1, <1>2, <1>4, <1>a
  <2>2. ASSUME NEW u \in Types
        PROVE  handlers'[u] \in 0..(n + 1) /\ (handlers'[u] # 0 => heap'[handlers'[u]] # << >>)
    <3>1. CASE u = t
      <4>1. handlers'[u] = n + 1 BY <3>1, <1>5
      <4>2. n + 1 \in 0..(n + 1) BY <1>a
      <4>3. heap'[n + 1] # << >> BY <1>2, <1>4
      <4> QED BY <4>1, <4>2, <4>3
    <3>2. CASE u # t
      <4>1. handlers'[u] = handlers[u] BY <3>2, <1>5
      <4>2. handlers[u] = 0 \/ (handlers[u] \in 1..n /\ heap[handlers[u]] # << >>) BY <1>a
      <4> QED BY <4>1, <4>2, <1>4, <1>a
    <3> QED BY <3>1, <3>2
  <2> QED BY <2>1, <2>2, <1>1, <1>4 DEF BusInv, BusTypeOK, SetOf
<1>7. \A u, v \in Types : handlers'[u] = handlers'[v] /\ handlers'[u] # 0 => u = v
  <2>1. \A u \in Types : handlers[u] # n + 1
    <3> TAKE u \in Types
    <3>1. handlers[u] = 0 \/ handlers[u] \in 1..n BY <1>a
    <3> QED BY <3>1, <1>a
  <2> QED BY <2>1, <1>5 DEF BusInv
<1>8. ASSUME NEW i \in 1..Len(dispatches)
      PROVE  Walked(dispatches[i]) /\ Tied(dispatches[i], heap', handlers')
  <2> DEFINE d == dispatches[i]
  <2>1. Walked(d) /\ Tied(d, heap, handlers) BY DEF BusInv
  <2>2. d.type \in Types BY DEF Dispatch
  <2> HIDE DEF d
  <2>3. d.set \in 1..n /\ heap'[d.set] = heap[d.set] /\ d.set # n + 1 /\ d.set # 0
    BY <2>1, <1>4, <1>a DEF Tied
  <2>4. \A u \in Types : handlers'[u] = d.set => handlers[u] = d.set BY <2>3, <1>5
  <2>5. handlers'[d.type] # d.set => ToSet(heap'[d.set]) \subseteq d.cleared
    <3>1. handlers'[d.type] # d.set => handlers[d.type] # d.set BY <2>2, <2>3, <1>1, <1>5
    <3> QED BY <2>1, <2>3, <3>1 DEF Tied
  <2>6. Len(heap) <= Len(heap') /\ Len(heap') \in Nat BY <1>4, <1>a
  <2>7. \A x \in ToSet(heap[d.set]) : x \in ToSet(heap'[d.set]) BY <2>3
  <2>8. Tied(d, heap', handlers') BY <2>1, <2>4, <2>5, <2>6, <2>7, TiedStill
  <2> QED BY <2>1, <2>8 DEF d
<1> QED BY <1>1, <1>4, <1>5, <1>6, <1>7, <1>8 DEF BusInv

\* off takes a handler out of its set, tells the dispatches, and drops a set it emptied.
LEMMA OffKeeps == ASSUME BusInv, NEW t \in Types, NEW h \in Handlers, Off(t, h) PROVE BusInv'
<1> USE BusFacts
<1> DEFINE s == handlers[t]
           old == heap[s]
           rest == RemoveFirst(old, h)
<1>1. s \in 1..Len(heap) /\ s # 0 /\ old \in Seq(Handlers) /\ IsInjective(old) /\ h \in ToSet(old)
  <2>1. s # 0
    <3>1. ~Contains(<< >>, h) BY DEF Contains
    <3> QED BY <3>1 DEF Off, SetOf
  <2>2. s \in 1..Len(heap) /\ old \in Seq(Handlers) /\ IsInjective(old) BY <2>1
  <2>3. Contains(old, h) BY <2>1 DEF Off, SetOf
  <2> QED BY <2>1, <2>2, <2>3, ContainsIsIn
<1>2. /\ heap' = [heap EXCEPT ![s] = rest] /\ emits' = emits
      /\ handlers' = [handlers EXCEPT ![t] = IF old = <<h>> THEN 0 ELSE s]
      /\ dispatches' = Removed(t, h)
  BY <1>1 DEF Off, SetOf
<1>3. rest \in Seq(Handlers) /\ IsInjective(rest) /\ ToSet(rest) = ToSet(old) \ {h}
  BY <1>1, RemovedRest
<1>4. /\ old = <<h>> => ToSet(rest) = {}
      /\ old # <<h>> => rest # << >>
  <2>1. ASSUME old = <<h>> PROVE ToSet(rest) = {}
    <3>1. ToSet(<<h>>) = {h} BY DEF ToSet
    <3> QED BY <2>1, <3>1, <1>3
  <2>2. ASSUME old # <<h>>, rest = << >> PROVE FALSE
    <3>0. DOMAIN old = 1..Len(old) BY <1>1
    <3>1. ToSet(rest) = {} BY <2>2 DEF ToSet
    <3>2. \A i \in 1..Len(old) : old[i] = h
      <4>1. \A i \in DOMAIN old : old[i] \in ToSet(old) BY DEF ToSet
      <4> QED BY <1>3, <3>0, <3>1, <4>1
    <3>3. \A i, j \in 1..Len(old) : i = j
      <4>1. \A i, j \in DOMAIN old : old[i] = old[j] => i = j BY <1>1 DEF IsInjective
      <4> QED BY <3>0, <3>2, <4>1
    <3>4. Len(old) \in Nat BY <1>1
    <3>5. Len(old) # 0 BY <1>1 DEF ToSet
    <3>6. Len(old) = 1
      <4>1. 1 \in 1..Len(old) /\ Len(old) \in 1..Len(old) BY <3>4, <3>5
      <4> QED BY <3>3, <4>1
    <3>7. old[1] = h BY <3>2, <3>6
    <3> QED BY <2>2, <3>6, <3>7, <1>1
  <2> QED BY <2>1, <2>2
<1> HIDE DEF rest
<1>5. heap \in Seq(Seq(Handlers)) /\ handlers \in [Types -> Nat] BY DEF BusInv
<1>6. /\ heap' \in Seq(Seq(Handlers)) /\ Len(heap') = Len(heap) /\ DOMAIN heap' = DOMAIN heap
      /\ heap'[s] = rest /\ \A i \in 1..Len(heap) : i # s => heap'[i] = heap[i]
  BY <1>1, <1>2, <1>3, <1>5
<1>7. /\ handlers' \in [Types -> Nat] /\ handlers'[t] = IF old = <<h>> THEN 0 ELSE s
      /\ \A u \in Types : u # t => handlers'[u] = handlers[u]
      /\ \A u \in Types : handlers'[u] # 0 => handlers'[u] = handlers[u]
  <2>1. (IF old = <<h>> THEN 0 ELSE s) \in Nat BY <1>1
  <2> QED BY <2>1, <1>2, <1>5
<1>8. \A u \in Types : handlers'[u] \in 0..Len(heap') /\ (handlers'[u] # 0 => heap'[handlers'[u]] # << >>)
  <2> TAKE u \in Types
  <2>1. CASE handlers'[u] = 0 BY <2>1, <1>6
  <2>2. CASE handlers'[u] # 0 /\ u = t
    <3>1. handlers'[u] = s /\ old # <<h>> BY <2>2, <1>7
    <3> QED BY <3>1, <1>1, <1>4, <1>6
  <2>3. CASE handlers'[u] # 0 /\ u # t
    <3>1. handlers'[u] = handlers[u] /\ handlers[u] # s
      BY <2>3, <1>1, <1>7 DEF BusInv
    <3> QED BY <2>3, <3>1, <1>6
  <2> QED BY <2>1, <2>2, <2>3
<1>9. \A u, v \in Types : handlers'[u] = handlers'[v] /\ handlers'[u] # 0 => u = v
  BY <1>7 DEF BusInv
<1>10. /\ Len(dispatches') = Len(dispatches) /\ dispatches' \in Seq(Dispatch)
       /\ \A i \in 1..Len(dispatches) :
            dispatches'[i] = IF dispatches[i].type = t
                             THEN [dispatches[i] EXCEPT !.removed = @ \union {h}] ELSE dispatches[i]
  <2>1. \A i \in 1..Len(dispatches) :
          (IF dispatches[i].type = t
           THEN [dispatches[i] EXCEPT !.removed = @ \union {h}] ELSE dispatches[i]) \in Dispatch
    BY DEF Dispatch
  <2> QED BY <2>1, <1>2 DEF Removed
<1>11. BusTypeOK'
  <2>1. \A i \in DOMAIN heap' : heap'[i] \in Seq(Handlers) /\ IsInjective(heap'[i])
    BY <1>3, <1>6
  <2>2. Len(dispatches') <= MaxDepth /\ emits' \in 0..MaxEmits
    BY <1>2, <1>10 DEF BusInv, BusTypeOK
  <2> QED BY <2>1, <2>2, <1>8 DEF BusTypeOK, SetOf
<1>12. ASSUME NEW i \in 1..Len(dispatches)
       PROVE  Walked(dispatches'[i]) /\ Tied(dispatches'[i], heap', handlers')
  <2> DEFINE d == dispatches[i]
             e == dispatches'[i]
  <2>1. Walked(d) /\ Tied(d, heap, handlers) BY DEF BusInv
  <2>2. d \in Dispatch /\ d.type \in Types BY DEF Dispatch
  <2>3. e = IF d.type = t THEN [d EXCEPT !.removed = @ \union {h}] ELSE d BY <1>10
  <2> HIDE DEF d, e
  <2>4. /\ e.set = d.set /\ e.type = d.type /\ e.snapshot = d.snapshot /\ e.rest = d.rest
        /\ e.called = d.called /\ e.cleared = d.cleared
        /\ e.removed = IF d.type = t THEN d.removed \union {h} ELSE d.removed
    BY <2>2, <2>3 DEF Dispatch
  <2>5. d.set \in 1..Len(heap) /\ d.set # 0 /\ (d.set = s => d.type = t) BY <2>1 DEF Tied
  <2>6. \A x \in ToSet(heap[d.set]) : x \in ToSet(heap'[d.set]) \/ x \in e.removed \union e.cleared
    <3>1. CASE d.set = s BY <3>1, <2>4, <2>5, <1>3, <1>6
    <3>2. CASE d.set # s BY <3>2, <2>5, <1>6
    <3> QED BY <3>1, <3>2
  <2>7. \A u \in Types : handlers'[u] = d.set => handlers[u] = d.set BY <2>5, <1>7
  <2>8. handlers'[d.type] # d.set => ToSet(heap'[d.set]) \subseteq e.cleared
    <3>1. CASE d.set = s /\ old = <<h>>
      <4>1. ToSet(heap'[d.set]) = {} BY <3>1, <1>4, <1>6
      <4> QED BY <4>1
    <3>2. CASE d.set = s /\ old # <<h>> BY <3>2, <2>5, <1>7
    <3>3. CASE d.set # s
      <4>1. heap'[d.set] = heap[d.set] BY <3>3, <2>5, <1>6
      <4>2. handlers'[d.type] # d.set => handlers[d.type] # d.set BY <3>3, <2>2, <1>7
      <4> QED BY <4>1, <4>2, <2>1, <2>4 DEF Tied
    <3> QED BY <3>1, <3>2, <3>3
  <2>9. Len(heap') \in Nat /\ Len(heap) <= Len(heap') BY <1>6
  <2>10. d.removed \subseteq e.removed /\ d.cleared \subseteq e.cleared BY <2>4
  <2>11. Tied(e, heap', handlers') BY <2>1, <2>4, <2>6, <2>7, <2>8, <2>9, <2>10, TiedStill, SMTT(60)
  <2>12. Walked(e) BY <2>1, <2>4, <2>10, StillWalked
  <2> QED BY <2>11, <2>12 DEF e
<1> QED BY <1>6, <1>7, <1>9, <1>10, <1>11, <1>12 DEF BusInv

\* clear takes every set from the map and tells the dispatches what was in theirs.
LEMMA ClearKeeps == ASSUME BusInv, Clear PROVE BusInv'
<1> USE BusFacts
<1>1. /\ heap' = heap /\ emits' = emits /\ handlers' = [t \in Types |-> 0]
      /\ \A t \in Types : handlers'[t] = 0
  BY DEF Clear
<1>2. /\ Len(dispatches') = Len(dispatches) /\ dispatches' \in Seq(Dispatch)
      /\ \A i \in 1..Len(dispatches) :
           dispatches'[i] = [dispatches[i] EXCEPT !.cleared = @ \union ToSet(SetOf(dispatches[i].type))]
  <2>1. \A t \in Types : ToSet(SetOf(t)) \subseteq Handlers
    <3>1. \A t \in Types : SetOf(t) \in Seq(Handlers) BY DEF SetOf
    <3> QED BY <3>1 DEF ToSet
  <2>2. \A i \in 1..Len(dispatches) :
          [dispatches[i] EXCEPT !.cleared = @ \union ToSet(SetOf(dispatches[i].type))] \in Dispatch
    BY <2>1 DEF Dispatch
  <2> QED BY <2>2 DEF Clear
<1>3. BusTypeOK'
  <2>1. Len(heap') \in Nat /\ \A t \in Types : handlers'[t] \in 0..Len(heap') BY <1>1
  <2> QED BY <2>1, <1>1, <1>2 DEF BusInv, BusTypeOK
<1>4. ASSUME NEW i \in 1..Len(dispatches)
      PROVE  Walked(dispatches'[i]) /\ Tied(dispatches'[i], heap', handlers')
  <2> DEFINE d == dispatches[i]
             e == dispatches'[i]
             these == ToSet(SetOf(d.type))
  <2>1. Walked(d) /\ Tied(d, heap, handlers) BY DEF BusInv
  <2>2. d \in Dispatch /\ d.type \in Types BY DEF Dispatch
  <2>3. e = [d EXCEPT !.cleared = @ \union these] BY <1>2
  <2>4. these = ToSet(SetOf(d.type)) OBVIOUS
  <2> HIDE DEF d, e, these
  <2>5. /\ e.set = d.set /\ e.type = d.type /\ e.snapshot = d.snapshot /\ e.rest = d.rest
        /\ e.called = d.called /\ e.cleared = d.cleared \union these /\ e.removed = d.removed
    BY <2>2, <2>3 DEF Dispatch
  <2>6. d.set \in 1..Len(heap) /\ d.set # 0 BY <2>1 DEF Tied
  <2>7. ToSet(heap'[d.set]) \subseteq e.cleared
    <3>1. CASE handlers[d.type] = d.set
      <4>1. SetOf(d.type) = heap[d.set] BY <3>1, <2>6 DEF SetOf
      <4> QED BY <4>1, <2>4, <2>5, <1>1
    <3>2. CASE handlers[d.type] # d.set BY <3>2, <2>1, <2>5, <1>1 DEF Tied
    <3> QED BY <3>1, <3>2
  <2>8. \A x \in ToSet(heap[d.set]) : x \in ToSet(heap'[d.set]) \/ x \in e.removed \union e.cleared
    BY <1>1
  <2>9. \A u \in Types : handlers'[u] = d.set => handlers[u] = d.set BY <2>6, <1>1
  <2>10. Len(heap') \in Nat /\ Len(heap) <= Len(heap') BY <1>1
  <2>11. d.removed \subseteq e.removed /\ d.cleared \subseteq e.cleared BY <2>5
  <2>a. handlers'[d.type] # d.set => ToSet(heap'[d.set]) \subseteq e.cleared BY <2>7
  <2>12. Tied(e, heap', handlers') BY <2>a, <2>1, <2>5, <2>8, <2>9, <2>10, <2>11, TiedStill
  <2>13. Walked(e) BY <2>1, <2>5, <2>11, StillWalked
  <2> QED BY <2>12, <2>13 DEF e
<1>5. handlers' \in [Types -> Nat] BY <1>1
<1> QED BY <1>1, <1>2, <1>3, <1>4, <1>5 DEF BusInv

\* A dispatch begins at the head of its set.
LEMMA EmitKeeps == ASSUME BusInv, NEW t \in Types, Emit(t) PROVE BusInv'
<1> USE BusFacts
<1> DEFINE s == handlers[t]
           d == [type |-> t, set |-> s, snapshot |-> SetOf(t), rest |-> SetOf(t),
                 called |-> << >>, removed |-> {}, cleared |-> {}]
           n == Len(dispatches)
<1>1. s \in 1..Len(heap) /\ SetOf(t) = heap[s] BY DEF Emit, SetOf
<1>2. /\ dispatches' = Append(dispatches, d) /\ heap' = heap /\ handlers' = handlers
      /\ emits' = emits + 1 /\ emits < MaxEmits /\ n < MaxDepth
  BY DEF Emit
<1>3. SetOf(t) \in Seq(Handlers) /\ IsInjective(SetOf(t)) BY <1>1
<1>4. d \in Dispatch
  <2>1. << >> \in Seq(Handlers) OBVIOUS
  <2> QED BY <2>1, <1>1, <1>3 DEF Dispatch
<1>5. /\ d.snapshot = heap[s] /\ d.rest = heap[s] /\ d.called = << >> /\ d.set = s /\ d.type = t
      /\ d.removed = {} /\ d.cleared = {}
  BY <1>1
<1> HIDE DEF d
<1>6. Walked(d)
  <2>1. Len(heap[s]) \in Nat BY <1>1
  <2>2. Done(d) = 0 /\ Len(d.called) = 0 BY <2>1, <1>5 DEF Done
  <2>3. IsInjective(d.snapshot) /\ IsInjective(d.called)
    BY <1>1, <1>3, <1>5 DEF IsInjective
  <2>4. \A i \in 1..Len(d.rest) : d.rest[i] = d.snapshot[Done(d) + i] BY <2>1, <2>2, <1>5
  <2>5. \A i \in 1..0 : FALSE OBVIOUS
  <2>6. Len(d.rest) <= Len(d.snapshot) BY <2>1, <1>5
  <2> QED BY <2>2, <2>3, <2>4, <2>5, <2>6 DEF Walked
<1>7. Tied(d, heap, handlers)
  <2>1. \A i \in 1..Len(d.snapshot) : d.snapshot[i] \in ToSet(heap[d.set])
    BY <1>1, <1>3, <1>5 DEF ToSet
  <2>2. \A u \in Types : handlers[u] = d.set => u = d.type BY <1>1, <1>5 DEF BusInv
  <2> QED BY <2>1, <2>2, <1>1, <1>5 DEF Tied
<1>8. /\ dispatches' \in Seq(Dispatch) /\ Len(dispatches') = n + 1 /\ dispatches'[n + 1] = d
      /\ \A i \in 1..n : dispatches'[i] = dispatches[i]
  <2>1. dispatches \in Seq(Dispatch) BY DEF BusInv
  <2> QED BY <2>1, <1>2, <1>4
<1>9. \A i \in 1..Len(dispatches') : Walked(dispatches'[i]) /\ Tied(dispatches'[i], heap', handlers')
  <2> TAKE i \in 1..Len(dispatches')
  <2>1. i \in 1..n \/ i = n + 1 BY <1>8
  <2> HIDE DEF n
  <2>2. CASE i \in 1..n
    <3>1. Walked(dispatches[i]) /\ Tied(dispatches[i], heap, handlers) BY <2>2 DEF BusInv, n
    <3> QED BY <3>1, <2>2, <1>2, <1>8
  <2>3. CASE i = n + 1 BY <2>3, <1>2, <1>6, <1>7, <1>8
  <2> QED BY <2>1, <2>2, <2>3
<1>10. BusTypeOK'
  <2>1. Len(dispatches') <= MaxDepth /\ emits' \in 0..MaxEmits BY <1>2, <1>8 DEF BusInv, BusTypeOK
  <2> QED BY <2>1, <1>2 DEF BusInv, BusTypeOK, SetOf
<1> QED BY <1>2, <1>8, <1>9, <1>10 DEF BusInv

\* What deliver does to the innermost dispatch.
LEMMA Delivered ==
  ASSUME BusInv, Deliver
  PROVE  LET n == Len(dispatches)
             d == dispatches[n]
             e == dispatches'[n]
         IN  /\ n \in Nat /\ n # 0 /\ Top = d /\ d \in Dispatch /\ e \in Dispatch
             /\ Walked(d) /\ Tied(d, heap, handlers) /\ Head(d.rest) \in Handlers
             /\ UNCHANGED <<heap, handlers, emits>>
             /\ dispatches' \in Seq(Dispatch) /\ Len(dispatches') = n
             /\ \A i \in 1..n : i # n => dispatches'[i] = dispatches[i]
             /\ d.rest # << >> /\ e.rest = Tail(d.rest) /\ e.snapshot = d.snapshot /\ e.set = d.set
             /\ e.type = d.type /\ e.removed = d.removed /\ e.cleared = d.cleared
             /\ e.called = IF Contains(heap[d.set], Head(d.rest))
                           THEN Append(d.called, Head(d.rest)) ELSE d.called
<1> USE BusFacts
<1> DEFINE n == Len(dispatches)
           d == dispatches[n]
           h == Head(d.rest)
           called == IF Contains(heap[d.set], h) THEN Append(d.called, h) ELSE d.called
           e == [d EXCEPT !.rest = Tail(@), !.called = called]
<1>1. n \in Nat /\ n # 0 /\ Top = d /\ d.rest # << >> /\ n \in 1..n BY DEF Deliver, Top
<1>2. d \in Dispatch /\ Walked(d) /\ Tied(d, heap, handlers) BY <1>1 DEF BusInv
<1>3. dispatches' = [dispatches EXCEPT ![n] = e] /\ UNCHANGED <<heap, handlers, emits>>
  BY <1>1 DEF Deliver, WithTop
<1>4. d.rest \in Seq(Handlers) /\ d.called \in Seq(Handlers) BY <1>2 DEF Dispatch
<1>5. h \in Handlers /\ Tail(d.rest) \in Seq(Handlers) BY <1>1, <1>4
<1>6. called \in Seq(Handlers) BY <1>4, <1>5
<1> HIDE DEF called, h
<1>7. /\ e \in Dispatch /\ e.rest = Tail(d.rest) /\ e.snapshot = d.snapshot /\ e.set = d.set
      /\ e.type = d.type /\ e.removed = d.removed /\ e.cleared = d.cleared /\ e.called = called
  BY <1>2, <1>5, <1>6 DEF Dispatch
<1> HIDE DEF e, d
<1>8. dispatches \in Seq(Dispatch) BY DEF BusInv
<1>9. /\ dispatches' \in Seq(Dispatch) /\ Len(dispatches') = n /\ dispatches'[n] = e
      /\ \A i \in 1..n : i # n => dispatches'[i] = dispatches[i]
  <2>1. e \in Dispatch BY <1>7
  <2>2. dispatches' = [dispatches EXCEPT ![n] = e] BY <1>3
  <2>3. n \in 1..Len(dispatches) BY <1>1
  <2>4. \A s \in Seq(Dispatch), x \in Dispatch : \A j \in 1..Len(s) : \A r :
          r = [s EXCEPT ![j] = x] =>
            /\ r \in Seq(Dispatch) /\ Len(r) = Len(s) /\ r[j] = x
            /\ \A i \in 1..Len(s) : i # j => r[i] = s[i]
    BY Replaced
  <2> HIDE DEF n
  <2>5. n = Len(dispatches) BY DEF n
  <2>6. /\ dispatches' \in Seq(Dispatch) /\ Len(dispatches') = Len(dispatches)
        /\ dispatches'[n] = e
        /\ \A i \in 1..Len(dispatches) : i # n => dispatches'[i] = dispatches[i]
    <3> DEFINE s == dispatches
               next == dispatches'
    <3>1. s \in Seq(Dispatch) /\ n \in 1..Len(s) /\ next = [s EXCEPT ![n] = e]
      BY <1>8, <2>2, <2>3
    <3> HIDE DEF s, next
    <3>2. /\ next \in Seq(Dispatch) /\ Len(next) = Len(s) /\ next[n] = e
          /\ \A i \in 1..Len(s) : i # n => next[i] = s[i]
      BY <2>1, <3>1, <2>4
    <3> QED BY <3>2 DEF s, next
  <2> QED BY <2>5, <2>6
<1> QED BY <1>1, <1>2, <1>3, <1>5, <1>7, <1>9 DEF d, called, h

\* The next handler is called if its set still has it; who is passed over does not stay.
LEMMA DeliverKeeps == ASSUME BusInv, Deliver PROVE BusInv'
<1> USE BusFacts
<1> DEFINE n == Len(dispatches)
           d == dispatches[n]
           e == dispatches'[n]
<1>1. /\ n \in Nat /\ n # 0 /\ Top = d /\ d \in Dispatch /\ e \in Dispatch
      /\ Walked(d) /\ Tied(d, heap, handlers) /\ Head(d.rest) \in Handlers
      /\ UNCHANGED <<heap, handlers, emits>>
      /\ dispatches' \in Seq(Dispatch) /\ Len(dispatches') = n
      /\ \A i \in 1..n : i # n => dispatches'[i] = dispatches[i]
      /\ d.rest # << >> /\ e.rest = Tail(d.rest) /\ e.snapshot = d.snapshot /\ e.set = d.set
      /\ e.type = d.type /\ e.removed = d.removed /\ e.cleared = d.cleared
      /\ e.called = IF Contains(heap[d.set], Head(d.rest))
                    THEN Append(d.called, Head(d.rest)) ELSE d.called
  BY Delivered
<1> HIDE DEF d, e
<1>2. heap[d.set] \in Seq(Handlers) /\ d.set \in 1..Len(heap) BY <1>1 DEF Tied
<1>3. ASSUME ~Contains(heap[d.set], Head(d.rest)) PROVE ~Stays(d, Done(d) + 1)
  <2>1. d.snapshot \in Seq(Handlers) /\ d.rest \in Seq(Handlers) BY <1>1 DEF Dispatch
  <2>2. /\ Len(d.snapshot) \in Nat /\ Len(d.rest) \in Nat /\ Len(d.rest) # 0
        /\ Head(d.rest) = d.rest[1]
    <3>1. d.rest # << >> BY <1>1
    <3> QED BY <2>1, <3>1
  <2>3. Len(d.rest) <= Len(d.snapshot) BY <1>1 DEF Walked
  <2>4. Done(d) + 1 \in 1..Len(d.snapshot) /\ 1 \in 1..Len(d.rest)
    <3> DEFINE x == Len(d.snapshot)
               y == Len(d.rest)
    <3>1. x \in Nat /\ y \in Nat /\ y # 0 /\ y <= x /\ Done(d) = x - y BY <2>2, <2>3 DEF Done
    <3> HIDE DEF x, y
    <3>2. (x - y) + 1 \in 1..x /\ 1 \in 1..y BY <3>1
    <3> QED BY <3>1, <3>2 DEF x, y
  <2>5. Head(d.rest) = d.snapshot[Done(d) + 1] BY <2>2, <2>4, <1>1 DEF Walked
  <2>6. Head(d.rest) \notin ToSet(heap[d.set]) BY <1>2, <1>3, ContainsIsIn
  <2> QED BY <2>4, <2>5, <2>6, <1>1 DEF Tied
<1>4. Walked(e)
  <2>1. CASE Contains(heap[d.set], Head(d.rest))
    <3>1. e.called = IF TRUE THEN Append(d.called, Head(d.rest)) ELSE d.called BY <2>1, <1>1
    <3> QED BY <3>1, <1>1, WalksOn
  <2>2. CASE ~Contains(heap[d.set], Head(d.rest))
    <3>1. e.called = IF FALSE THEN Append(d.called, Head(d.rest)) ELSE d.called BY <2>2, <1>1
    <3> QED BY <3>1, <2>2, <1>1, <1>3, WalksOn
  <2> QED BY <2>1, <2>2
<1>5. Tied(e, heap, handlers) BY <1>1 DEF Tied, Stays
<1>6. \A i \in 1..n : Walked(dispatches'[i]) /\ Tied(dispatches'[i], heap, handlers)
  <2> TAKE i \in 1..n
  <2>1. CASE i = n BY <2>1, <1>4, <1>5 DEF e
  <2>2. CASE i # n
    <3>1. Walked(dispatches[i]) /\ Tied(dispatches[i], heap, handlers) BY DEF BusInv
    <3> QED BY <3>1, <2>2, <1>1
  <2> QED BY <2>1, <2>2
<1>7. BusTypeOK' BY <1>1 DEF BusInv, BusTypeOK, SetOf
<1> QED BY <1>1, <1>6, <1>7 DEF BusInv

\* A finished dispatch leaves the others as they are.
LEMMA EmitReturnsKeeps == ASSUME BusInv, EmitReturns PROVE BusInv'
<1> USE BusFacts
<1> DEFINE n == Len(dispatches)
<1>1. n \in Nat /\ n # 0 /\ dispatches' = SubSeq(dispatches, 1, n - 1)
      /\ UNCHANGED <<heap, handlers, emits>>
  BY DEF EmitReturns, Front
<1>2. dispatches \in Seq(Dispatch) BY DEF BusInv
<1>3. /\ dispatches' \in Seq(Dispatch) /\ Len(dispatches') = n - 1
      /\ \A i \in 1..(n - 1) : dispatches'[i] = dispatches[i]
  BY <1>1, <1>2
<1>4. \A i \in 1..(n - 1) : i \in 1..n BY <1>1
<1>5. \A i \in 1..Len(dispatches') : Walked(dispatches'[i]) /\ Tied(dispatches'[i], heap, handlers)
  BY <1>3, <1>4 DEF BusInv
<1>6. BusTypeOK'
  <2>1. Len(dispatches') <= MaxDepth BY <1>1, <1>3 DEF BusInv, BusTypeOK
  <2> QED BY <2>1, <1>1 DEF BusInv, BusTypeOK, SetOf
<1> QED BY <1>1, <1>3, <1>5, <1>6 DEF BusInv

\* The bus at its start.
LEMMA BusInvInit == BusInit => BusInv
<1> SUFFICES ASSUME BusInit PROVE BusInv OBVIOUS
<1>1. /\ heap = << >> /\ dispatches = << >> /\ handlers = [t \in Types |-> 0] /\ emits = 0
      /\ Len(heap) = 0 /\ Len(dispatches) = 0
  BY DEF BusInit
<1>2. \A i \in 1..0 : FALSE OBVIOUS
<1>3. heap \in Seq(Seq(Handlers)) /\ dispatches \in Seq(Dispatch) /\ DOMAIN heap = 1..0 BY <1>1
<1>4. BusTypeOK BY <1>1, <1>2, <1>3, BusAssumption DEF BusTypeOK
<1> QED BY <1>1, <1>2, <1>3, <1>4 DEF BusInv

\* Every step of the bus keeps its invariant.
LEMMA BusInvNext == BusInv /\ [BusNext]_busVars => BusInv'
<1> SUFFICES ASSUME BusInv, [BusNext]_busVars PROVE BusInv' OBVIOUS
<1>1. CASE UNCHANGED busVars
  BY <1>1 DEF busVars, BusInv, BusTypeOK, SetOf
<1> QED BY <1>1, OnKeeps, OnNewKeeps, OffKeeps, ClearKeeps, EmitKeeps, DeliverKeeps,
           EmitReturnsKeeps DEF BusNext

\* Every handler that stays subscribed from the emit to its end is called, once, in the
\* order of subscription, whatever the others subscribe, remove, clear or emit (emit).
THEOREM StayersAreAlwaysCalled == BusSpec => []StayersAreCalled
<1>1. BusInv => StayersAreCalled
  <2> SUFFICES ASSUME BusInv PROVE StayersAreCalled OBVIOUS
  <2>1. ASSUME NEW i \in 1..Len(dispatches), dispatches[i].rest = << >>
        PROVE  LET d == dispatches[i]
               IN  /\ \A a, b \in DOMAIN d.snapshot : a <= b /\ Stays(d, a) /\ Stays(d, b) =>
                        \E k, l \in DOMAIN d.called : /\ k <= l /\ d.called[k] = d.snapshot[a]
                                                     /\ d.called[l] = d.snapshot[b]
                   /\ IsInjective(d.called)
    <3> DEFINE d == dispatches[i]
    <3>1. Walked(d) /\ d \in Dispatch /\ d.rest = << >> BY <2>1, BusFacts DEF BusInv
    <3> HIDE DEF d
    <3>2. /\ DOMAIN d.snapshot = 1..Len(d.snapshot) /\ DOMAIN d.called = 1..Len(d.called)
          /\ Len(d.snapshot) \in Nat
      BY <3>1 DEF Dispatch
    <3>3. Len(d.rest) = 0 BY <3>1
    <3>4. Done(d) = Len(d.snapshot) BY <3>2, <3>3 DEF Done
    <3>5. /\ \A a, b \in DOMAIN d.snapshot : a <= b /\ Stays(d, a) /\ Stays(d, b) =>
               \E k, l \in DOMAIN d.called : /\ k <= l /\ d.called[k] = d.snapshot[a]
                                            /\ d.called[l] = d.snapshot[b]
          /\ IsInjective(d.called)
      <4>1. DOMAIN d.snapshot = 1..Done(d) BY <3>2, <3>4
      <4>2. \A a, b \in 1..Done(d) : a <= b /\ Stays(d, a) /\ Stays(d, b) =>
              \E k, l \in 1..Len(d.called) : /\ k <= l /\ d.called[k] = d.snapshot[a]
                                             /\ d.called[l] = d.snapshot[b]
        BY <3>1 DEF Walked
      <4>3. IsInjective(d.called) BY <3>1 DEF Walked
      <4>4. ASSUME NEW a \in DOMAIN d.snapshot, NEW b \in DOMAIN d.snapshot,
                   a <= b, Stays(d, a), Stays(d, b)
            PROVE  \E k, l \in DOMAIN d.called : /\ k <= l /\ d.called[k] = d.snapshot[a]
                                                 /\ d.called[l] = d.snapshot[b]
        <5>1. a \in 1..Done(d) /\ b \in 1..Done(d) BY <4>1
        <5>2. PICK k \in 1..Len(d.called), l \in 1..Len(d.called) :
                k <= l /\ d.called[k] = d.snapshot[a] /\ d.called[l] = d.snapshot[b]
          BY <5>1, <4>2, <4>4
        <5>3. k \in DOMAIN d.called /\ l \in DOMAIN d.called BY <3>2
        <5> QED BY <5>2, <5>3
      <4> QED BY <4>3, <4>4
    <3> QED BY <3>5 DEF d
  <2>2. DOMAIN dispatches = 1..Len(dispatches) BY BusFacts
  <2>3. CalledInOrder BY <2>1, <2>2 DEF CalledInOrder
  <2> QED BY <2>3 DEF StayersAreCalled, BusInv
<1> QED BY <1>1, BusInvInit, BusInvNext, PTL DEF BusSpec

\* "unsubscribed during the emission ... are skipped" (event-bus.ts:54): no dispatch,
\* however nested, calls a handler that off has removed.
THEOREM OffIsAlwaysSkipped == BusSpec => OffIsSkipped
<1> DEFINE Skips == Calls /\ Head(Top.rest) \in Top.removed \ Top.cleared
                   => Contains(SetOf(Top.type), Head(Top.rest))
<1>1. BusInv /\ [BusNext]_busVars => [Skips]_busVars
  <2> SUFFICES ASSUME BusInv, BusNext, Calls, Head(Top.rest) \in Top.removed \ Top.cleared
               PROVE  Contains(SetOf(Top.type), Head(Top.rest))
    OBVIOUS
  <2> USE BusFacts
  <2> DEFINE n == Len(dispatches)
             d == dispatches[n]
  <2>1. n \in 1..n /\ d \in Dispatch /\ Top = d /\ Len(dispatches') = n
        /\ dispatches'[n].called # d.called
    BY DEF Calls, Top
  <2>2. ~(dispatches' = dispatches) BY <2>1
  <2>3. \A t \in Types : ~Emit(t)
    <3> SUFFICES ASSUME NEW t \in Types, Emit(t) PROVE FALSE OBVIOUS
    <3>1. \E e : dispatches' = Append(dispatches, e) BY DEF Emit
    <3>2. Len(dispatches') = n + 1 BY <3>1 DEF BusInv
    <3> QED BY <2>1, <3>2
  <2>4. ~EmitReturns
    <3> SUFFICES ASSUME EmitReturns PROVE FALSE OBVIOUS
    <3>1. dispatches' = SubSeq(dispatches, 1, n - 1) BY DEF EmitReturns, Front
    <3>2. Len(dispatches') = n - 1 BY <2>1, <3>1 DEF BusInv
    <3> QED BY <2>1, <3>2
  <2>5. \A t \in Types, h \in Handlers : ~Off(t, h)
    <3> SUFFICES ASSUME NEW t \in Types, NEW h \in Handlers, Off(t, h) PROVE FALSE OBVIOUS
    <3>1. dispatches'[n] = IF d.type = t THEN [d EXCEPT !.removed = @ \union {h}] ELSE d
      BY <2>1 DEF Off, Removed
    <3> QED BY <2>1, <3>1 DEF Dispatch
  <2>6. ~Clear
    <3> SUFFICES ASSUME Clear PROVE FALSE OBVIOUS
    <3>1. dispatches'[n] = [d EXCEPT !.cleared = @ \union ToSet(SetOf(d.type))] BY <2>1 DEF Clear
    <3> QED BY <2>1, <3>1 DEF Dispatch
  <2>7. Deliver BY <2>2, <2>3, <2>4, <2>5, <2>6 DEF BusNext, On, OnNew
  <2>8. /\ Walked(d) /\ Tied(d, heap, handlers) /\ Head(d.rest) \in Handlers
        /\ dispatches'[n].called = IF Contains(heap[d.set], Head(d.rest))
                                   THEN Append(d.called, Head(d.rest)) ELSE d.called
    BY <2>7, Delivered
  <2>9. Contains(heap[d.set], Head(d.rest)) BY <2>1, <2>8
  <2> HIDE DEF d
  <2>10. d.set \in 1..Len(heap) /\ d.set # 0 /\ heap[d.set] \in Seq(Handlers) BY <2>8 DEF Tied
  <2>11. handlers[d.type] = d.set
    <3>1. Head(d.rest) \in ToSet(heap[d.set]) BY <2>9, <2>10, ContainsIsIn
    <3> QED BY <3>1, <2>1, <2>8 DEF Tied
  <2> QED BY <2>1, <2>9, <2>10, <2>11 DEF SetOf
<1> QED BY <1>1, BusInvInit, BusInvNext, PTL DEF BusSpec, OffIsSkipped

-----------------------------------------------------------------------------
(* The interpreter                                                          *)

\* The lines of the event's pages, and a command as it is built from one.
PageLines == UNION {ToSet(Pages[p].commands) : p \in DOMAIN Pages}
Built == [line : {line \in PageLines : line.valid}, version : Nat]

\* No factory older than the last clearing of the cache builds these commands.
NoneStale(built) ==
  \A i \in 1..Len(built) : built[i].version >= fresh[built[i].line.cmd]
AllBuildable(p) == \A i \in DOMAIN Pages[p].commands : Buildable(Pages[p].commands[i])

\* What the log says of a variable, a switch and an entity.
VariableFollows(v) ==
  \/ Sets(v) = {} /\ variables[v] = base.variables[v]
  \/ \E i \in Sets(v) : LastEffect(Sets(v), i) /\ variables[v] = run.log[i].result
SwitchFollows(w) ==
  \/ Flips(w) = {} /\ switches[w] = base.switches[w]
  \/ \E i \in Flips(w) : LastEffect(Flips(w), i) /\ switches[w] = run.log[i].value
EntityFollows(e) ==
  \/ Moves(e) = {} /\ position[e] = base.position[e]
  \/ \E i \in Moves(e) : LastEffect(Moves(e), i) /\ position[e] = run.log[i].to

\* The commands of a run and of the cache are built from valid lines by factories the
\* registry still knows, and a page that was built whole stays buildable.
RunInv ==
  /\ run = [page |-> run.page, rest |-> run.rest, log |-> run.log, ended |-> run.ended]
  /\ run.rest \in Seq(Built) /\ \E S : run.log \in Seq(S)
  /\ commandCache \in [DOMAIN Pages -> Seq(Built)] /\ fresh \in [Commands -> Nat]
  /\ \A c \in Commands : fresh[c] <= registry[c]
  /\ NoneStale(run.rest)
  /\ \A p \in DOMAIN Pages : /\ NoneStale(commandCache[p])
                             /\ commandCache[p] # << >> => AllBuildable(p) /\ Pages[p].commands # << >>
  /\ run.page # 0 /\ (Running \/ run.log # << >> \/ bus # << >>) => AllBuildable(run.page)

\* Types, what runs and is cached, and the log against the state.
InterpreterInv == InterpreterTypeOK /\ RunInv /\ StateFollowsLog

\* The page of the event and its lines.
LEMMA PagesAre ==
  /\ Len(Pages) \in Nat /\ DOMAIN Pages = 1..Len(Pages)
  /\ \A p \in DOMAIN Pages :
       /\ Pages[p].commands \in Seq(PageLines) /\ DOMAIN Pages[p].commands = 1..Len(Pages[p].commands)
       /\ Len(Pages[p].commands) \in Nat
  /\ \A line \in PageLines : /\ line.cmd \in Commands
                             /\ line.valid /\ line.cmd = "setSwitch" => line.value \in BOOLEAN
  /\ MaxValue \in Nat /\ Values \subseteq -MaxValue..MaxValue
<1>1. Pages \in Seq(ToSet(Pages)) BY InterpreterAssumption
<1>2. Len(Pages) \in Nat /\ DOMAIN Pages = 1..Len(Pages) BY <1>1
<1>3. \A p \in DOMAIN Pages : Pages[p] \in ToSet(Pages) BY DEF ToSet
<1>4. ASSUME NEW p \in DOMAIN Pages
      PROVE  /\ Pages[p].commands \in Seq(PageLines)
             /\ DOMAIN Pages[p].commands = 1..Len(Pages[p].commands)
             /\ Len(Pages[p].commands) \in Nat
  <2>1. Pages[p].commands \in Seq(ToSet(Pages[p].commands)) BY <1>3, InterpreterAssumption
  <2>2. ToSet(Pages[p].commands) \subseteq PageLines BY DEF PageLines
  <2> DEFINE s == Pages[p].commands
             T == ToSet(Pages[p].commands)
  <2>3. s \in Seq(T) /\ T \subseteq PageLines BY <2>1, <2>2
  <2> HIDE DEF s, T
  <2>4. s \in Seq(PageLines) /\ DOMAIN s = 1..Len(s) /\ Len(s) \in Nat BY <2>3
  <2> QED BY <2>4 DEF s
<1>5. ASSUME NEW line \in PageLines
      PROVE  /\ line.cmd \in Commands
             /\ line.valid /\ line.cmd = "setSwitch" => line.value \in BOOLEAN
  <2>1. PICK p \in DOMAIN Pages : line \in ToSet(Pages[p].commands) BY DEF PageLines
  <2> QED BY <2>1, <1>3, InterpreterAssumption
<1>6. MaxValue \in Nat /\ Values \subseteq -MaxValue..MaxValue BY InterpreterAssumption
<1> QED BY <1>2, <1>4, <1>5, <1>6

\* The first active page is one of the pages.
LEMMA SelectedPage == ActivePages # {} => SelectPage \in DOMAIN Pages
<1> SUFFICES ASSUME ActivePages # {} PROVE SelectPage \in DOMAIN Pages OBVIOUS
<1>1. ActivePages \subseteq DOMAIN Pages BY DEF ActivePages
<1>2. ActivePages \subseteq Nat BY <1>1, PagesAre
<1> DEFINE A == ActivePages
<1>3. \E p \in A : \A q \in A : p <= q
  <2>1. A \subseteq Nat /\ A # {} BY <1>2
  <2> HIDE DEF A
  <2> QED BY <2>1, Least
<1>4. SelectPage \in ActivePages BY <1>3 DEF SelectPage
<1> QED BY <1>1, <1>4

\* A command that is left: what it was built from.
LEMMA NextCommand ==
  ASSUME InterpreterInv, Running
  PROVE  /\ run.rest[1] \in Built /\ Line \in PageLines /\ Line.valid /\ Line.cmd \in Commands
         /\ Line.cmd = "setSwitch" => Line.value \in BOOLEAN
         /\ Tail(run.rest) \in Seq(Built) /\ Len(run.rest) \in Nat \ {0}
         /\ Len(Tail(run.rest)) = Len(run.rest) - 1
         /\ NoneStale(Tail(run.rest))
<1> DEFINE r == run.rest
<1>1. r \in Seq(Built) /\ r # << >> /\ NoneStale(r) BY DEF InterpreterInv, RunInv, Running
<1> HIDE DEF r
<1>2. /\ Len(r) \in Nat /\ Len(r) # 0 /\ r[1] \in Built /\ Tail(r) \in Seq(Built)
      /\ Len(Tail(r)) = Len(r) - 1
      /\ \A i \in 1..(Len(r) - 1) : Tail(r)[i] = r[i + 1]
  BY <1>1
<1>3. r[1].line \in PageLines /\ r[1].line.valid BY <1>2 DEF Built
<1>4. /\ r[1].line.cmd \in Commands
      /\ r[1].line.cmd = "setSwitch" => r[1].line.value \in BOOLEAN
  BY <1>3, PagesAre
<1>5. NoneStale(Tail(r))
  <2>1. \A i \in 1..(Len(r) - 1) : i + 1 \in 1..Len(r) BY <1>2
  <2> QED BY <1>1, <1>2, <2>1 DEF NoneStale
<1> QED BY <1>2, <1>3, <1>4, <1>5 DEF r, Line

\* One more effect in the log.
LEMMA OneMoreEffect ==
  ASSUME NEW S, run.log \in Seq(S), NEW e, run'.log = Append(run.log, e)
  PROVE  /\ \E T : run'.log \in Seq(T)
         /\ Len(run.log) \in Nat /\ DOMAIN run.log = 1..Len(run.log)
         /\ DOMAIN run'.log = 1..(Len(run.log) + 1)
         /\ \A i \in 1..Len(run.log) : run'.log[i] = run.log[i]
         /\ run'.log[Len(run.log) + 1] = e /\ run'.log # << >>
<1> DEFINE s == run.log
           a == Append(run.log, e)
           T == S \union {e}
<1>1. s \in Seq(S) OBVIOUS
<1>2. s \in Seq(T) /\ e \in T
  <2>1. S \subseteq T OBVIOUS
  <2> HIDE DEF s, T
  <2> QED BY <1>1, <2>1 DEF T
<1>3. a = Append(s, e) OBVIOUS
<1> HIDE DEF s, a, T
<1>4. /\ a \in Seq(T) /\ Len(s) \in Nat /\ DOMAIN s = 1..Len(s) /\ DOMAIN a = 1..(Len(s) + 1)
      /\ \A i \in 1..Len(s) : a[i] = s[i]
      /\ a[Len(s) + 1] = e /\ a # << >>
  BY <1>2, <1>3
<1> QED BY <1>4 DEF s, a

\* The effects on each thing: those there were, and the new one if it is on that thing.
LEMMA EffectsGrow ==
  ASSUME NEW S, run.log \in Seq(S), NEW e, run'.log = Append(run.log, e), NEW n, n = Len(run.log) + 1
  PROVE  /\ \A v : Sets(v)' = Sets(v) \union (IF e.kind = "variable" /\ e.name = v THEN {n} ELSE {})
         /\ \A w : Flips(w)' = Flips(w) \union (IF e.kind = "switch" /\ e.name = w THEN {n} ELSE {})
         /\ \A x : Moves(x)' = Moves(x) \union (IF e.kind = "move" /\ e.entity = x THEN {n} ELSE {})
<1> DEFINE s == run.log
           a == run'.log
<1>1. /\ n \in Nat /\ DOMAIN s = 1..(n - 1) /\ DOMAIN a = 1..n
      /\ \A i \in 1..(n - 1) : a[i] = s[i]
      /\ a[n] = e
  BY OneMoreEffect
<1>2. /\ \A v : Sets(v) = {i \in DOMAIN s : s[i].kind = "variable" /\ s[i].name = v}
      /\ \A v : Sets(v)' = {i \in DOMAIN a : a[i].kind = "variable" /\ a[i].name = v}
      /\ \A w : Flips(w) = {i \in DOMAIN s : s[i].kind = "switch" /\ s[i].name = w}
      /\ \A w : Flips(w)' = {i \in DOMAIN a : a[i].kind = "switch" /\ a[i].name = w}
      /\ \A x : Moves(x) = {i \in DOMAIN s : s[i].kind = "move" /\ s[i].entity = x}
      /\ \A x : Moves(x)' = {i \in DOMAIN a : a[i].kind = "move" /\ a[i].entity = x}
  BY DEF Sets, Flips, Moves
<1> HIDE DEF s, a
<1>3. \A i : i \in 1..n <=> i \in 1..(n - 1) \/ i = n BY <1>1
<1>4. n \notin 1..(n - 1) BY <1>1
<1>5. ASSUME NEW v
      PROVE  Sets(v)' = Sets(v) \union (IF e.kind = "variable" /\ e.name = v THEN {n} ELSE {})
  BY <1>1, <1>2, <1>3, <1>4
<1>6. ASSUME NEW w
      PROVE  Flips(w)' = Flips(w) \union (IF e.kind = "switch" /\ e.name = w THEN {n} ELSE {})
  BY <1>1, <1>2, <1>3, <1>4
<1>7. ASSUME NEW x
      PROVE  Moves(x)' = Moves(x) \union (IF e.kind = "move" /\ e.entity = x THEN {n} ELSE {})
  BY <1>1, <1>2, <1>3, <1>4
<1> QED BY <1>5, <1>6, <1>7

\* What the effect says of each thing, applied to the state.
Applied(e) ==
  /\ \A v \in Variables : variables'[v] = IF e.kind = "variable" /\ e.name = v THEN e.result ELSE variables[v]
  /\ \A w \in Switches : switches'[w] = IF e.kind = "switch" /\ e.name = w THEN e.value ELSE switches[w]
  /\ \A x \in Entities : position'[x] = IF e.kind = "move" /\ e.entity = x THEN e.to ELSE position[x]

\* An effect that is applied and logged keeps the log true.
LEMMA LogFollows ==
  ASSUME InterpreterInv, NEW e, run'.log = Append(run.log, e), base' = base, touched' = touched,
         Applied(e)
  PROVE  StateFollowsLog'
<1>1. PICK S : run.log \in Seq(S) BY DEF InterpreterInv, RunInv
<1> DEFINE n == Len(run.log) + 1
<1>2. /\ n \in Nat /\ DOMAIN run.log = 1..(n - 1)
      /\ \A i \in 1..(n - 1) : run'.log[i] = run.log[i] /\ n # i /\ i <= n
      /\ run'.log[n] = e
  <2>1. /\ Len(run.log) \in Nat /\ DOMAIN run.log = 1..Len(run.log)
        /\ \A i \in 1..Len(run.log) : run'.log[i] = run.log[i]
        /\ run'.log[Len(run.log) + 1] = e
    BY <1>1, OneMoreEffect
  <2> QED BY <2>1
<1>3. /\ \A v : Sets(v)' = Sets(v) \union (IF e.kind = "variable" /\ e.name = v THEN {n} ELSE {})
      /\ \A w : Flips(w)' = Flips(w) \union (IF e.kind = "switch" /\ e.name = w THEN {n} ELSE {})
      /\ \A x : Moves(x)' = Moves(x) \union (IF e.kind = "move" /\ e.entity = x THEN {n} ELSE {})
  BY <1>1, EffectsGrow
<1>4. /\ \A v : Sets(v) \subseteq 1..(n - 1)
      /\ \A w : Flips(w) \subseteq 1..(n - 1)
      /\ \A x : Moves(x) \subseteq 1..(n - 1)
  BY <1>2 DEF Sets, Flips, Moves
<1>5. \A A : A \subseteq 1..(n - 1) => LastEffect(A \union {n}, n)
  BY <1>2 DEF LastEffect
<1>6. ASSUME NEW v \in Variables, v \notin touched, VariableFollows(v) PROVE VariableFollows(v)'
  <2>1. CASE e.kind = "variable" /\ e.name = v
    <3>1. Sets(v)' = Sets(v) \union {n} /\ variables'[v] = e.result BY <1>3, <2>1 DEF Applied
    <3>2. LastEffect(Sets(v) \union {n}, n) BY <1>4, <1>5
    <3>3. n \in Sets(v)' /\ LastEffect(Sets(v)', n) /\ variables'[v] = run'.log[n].result
      BY <1>2, <3>1, <3>2
    <3> QED BY <3>3 DEF VariableFollows, LastEffect
  <2>2. CASE ~(e.kind = "variable" /\ e.name = v)
    <3>1. Sets(v)' = Sets(v) /\ variables'[v] = variables[v] BY <1>3, <2>2 DEF Applied
    <3>2. \A i \in Sets(v) : run'.log[i] = run.log[i] BY <1>2, <1>4
    <3> QED BY <1>6, <3>1, <3>2 DEF VariableFollows, LastEffect
  <2> QED BY <2>1, <2>2
<1>7. ASSUME NEW w \in Switches, SwitchFollows(w) PROVE SwitchFollows(w)'
  <2>1. CASE e.kind = "switch" /\ e.name = w
    <3>1. Flips(w)' = Flips(w) \union {n} /\ switches'[w] = e.value BY <1>3, <2>1 DEF Applied
    <3>2. LastEffect(Flips(w) \union {n}, n) BY <1>4, <1>5
    <3>3. n \in Flips(w)' /\ LastEffect(Flips(w)', n) /\ switches'[w] = run'.log[n].value
      BY <1>2, <3>1, <3>2
    <3> QED BY <3>3 DEF SwitchFollows, LastEffect
  <2>2. CASE ~(e.kind = "switch" /\ e.name = w)
    <3>1. Flips(w)' = Flips(w) /\ switches'[w] = switches[w] BY <1>3, <2>2 DEF Applied
    <3>2. \A i \in Flips(w) : run'.log[i] = run.log[i] BY <1>2, <1>4
    <3> QED BY <1>7, <3>1, <3>2 DEF SwitchFollows, LastEffect
  <2> QED BY <2>1, <2>2
<1>8. ASSUME NEW x \in Entities, EntityFollows(x) PROVE EntityFollows(x)'
  <2>1. CASE e.kind = "move" /\ e.entity = x
    <3>1. Moves(x)' = Moves(x) \union {n} /\ position'[x] = e.to BY <1>3, <2>1 DEF Applied
    <3>2. LastEffect(Moves(x) \union {n}, n) BY <1>4, <1>5
    <3>3. n \in Moves(x)' /\ LastEffect(Moves(x)', n) /\ position'[x] = run'.log[n].to
      BY <1>2, <3>1, <3>2
    <3> QED BY <3>3 DEF EntityFollows, LastEffect
  <2>2. CASE ~(e.kind = "move" /\ e.entity = x)
    <3>1. Moves(x)' = Moves(x) /\ position'[x] = position[x] BY <1>3, <2>2 DEF Applied
    <3>2. \A i \in Moves(x) : run'.log[i] = run.log[i] BY <1>2, <1>4
    <3> QED BY <1>8, <3>1, <3>2 DEF EntityFollows, LastEffect
  <2> QED BY <2>1, <2>2
<1>9. /\ \A v \in Variables \ touched : VariableFollows(v)
      /\ \A w \in Switches : SwitchFollows(w)
      /\ \A x \in Entities : EntityFollows(x)
  BY DEF InterpreterInv, StateFollowsLog, VariableFollows, SwitchFollows, EntityFollows
<1>10. /\ \A v \in Variables \ touched' : VariableFollows(v)'
       /\ \A w \in Switches : SwitchFollows(w)'
       /\ \A x \in Entities : EntityFollows(x)'
  BY <1>6, <1>7, <1>8, <1>9
<1> QED BY <1>10 DEF StateFollowsLog, VariableFollows, SwitchFollows, EntityFollows

\* Every command that is carried out: it takes itself off the list, logs what it did and
\* did what it logged.
LEMMA CommandKeeps ==
  ASSUME InterpreterInv, Running, NEW e, Log(e), Applied(e), base' = base, touched' = touched,
         UNCHANGED <<registry, commandCache, fresh>>,
         variables' \in [Variables -> -MaxValue..MaxValue], switches' \in [Switches -> BOOLEAN],
         position' \in [Entities -> -MaxValue..MaxValue]
  PROVE  InterpreterInv'
<1>1. PICK S : run.log \in Seq(S) BY DEF InterpreterInv, RunInv
<1>2. /\ run = [page |-> run.page, rest |-> run.rest, log |-> run.log, ended |-> run.ended]
      /\ RunInv /\ InterpreterTypeOK /\ run.ended = "none"
  BY DEF InterpreterInv, RunInv, InterpreterTypeOK
<1>3. run' = [page |-> run.page, rest |-> Tail(run.rest), log |-> Append(run.log, e),
              ended |-> IF Tail(run.rest) = << >> THEN "done" ELSE "none"]
  BY <1>2 DEF Log
<1>4. StateFollowsLog' BY <1>3, LogFollows
<1>5. InterpreterTypeOK' BY <1>2, <1>3 DEF InterpreterTypeOK, Running
<1>6. \E T : run'.log \in Seq(T) BY <1>1, <1>3, OneMoreEffect
<1>7. Tail(run.rest) \in Seq(Built) /\ NoneStale(Tail(run.rest)) BY NextCommand
<1>8. NoneStale(run.rest)' BY <1>3, <1>7 DEF NoneStale
<1>9. \A p \in DOMAIN Pages : AllBuildable(p) => AllBuildable(p)' BY DEF AllBuildable, Buildable
<1>10. run'.page # 0 => AllBuildable(run.page)'
  <2> SUFFICES ASSUME run.page # 0 PROVE AllBuildable(run.page)' BY <1>3
  <2>1. run.page \in DOMAIN Pages BY <1>2, PagesAre DEF InterpreterTypeOK
  <2>2. AllBuildable(run.page) BY <1>2 DEF RunInv
  <2>3. run'.page = run.page /\ registry' = registry BY <1>3
  <2> QED BY <2>2, <2>3 DEF AllBuildable, Buildable
<1>11. \A p \in DOMAIN Pages : NoneStale(commandCache[p])' BY <1>2 DEF RunInv, NoneStale
<1>12. RunInv'
  <2>1. /\ run' = [page |-> run'.page, rest |-> run'.rest, log |-> run'.log, ended |-> run'.ended]
        /\ run'.rest \in Seq(Built)
    BY <1>3, <1>7
  <2>2. commandCache' \in [DOMAIN Pages -> Seq(Built)] /\ fresh' \in [Commands -> Nat]
        /\ \A c \in Commands : fresh'[c] <= registry'[c]
    BY <1>2 DEF RunInv
  <2>3. \A p \in DOMAIN Pages : commandCache'[p] # << >> => /\ AllBuildable(p)'
                                                           /\ Pages[p].commands # << >>
    BY <1>2, <1>9 DEF RunInv
  <2> QED BY <1>6, <1>8, <1>10, <1>11, <2>1, <2>2, <2>3 DEF RunInv
<1> QED BY <1>4, <1>5, <1>12 DEF InterpreterInv

\* No effect at all.
LEMMA EmptyLog == /\ \A i : i \notin DOMAIN << >>
                  /\ << >> \in Seq(Nat)
<1>1. \A s \in Seq(Nat) : DOMAIN s = 1..Len(s) OBVIOUS
<1>2. << >> \in Seq(Nat) /\ Len(<< >>) = 0 OBVIOUS
<1> QED BY <1>1, <1>2

\* The beginning of a run: nothing is logged yet, so that the state is the one the run
\* began with.
LEMMA RunBegins ==
  ASSUME InterpreterInv, NEW page \in 0..Len(Pages), NEW rest \in Seq(Built),
         NEW ended \in {"none", "no page", "threw", "done"},
         run' = [page |-> page, rest |-> rest, log |-> << >>, ended |-> ended],
         bus' = << >>, base' = Snapshot, touched' = {},
         UNCHANGED <<variables, switches, position, registry, fresh>>,
         rest # << >> => ended = "none" /\ page # 0 /\ AllBuildable(page),
         NoneStale(rest), commandCache' \in [DOMAIN Pages -> Seq(Built)],
         \A p \in DOMAIN Pages : \/ commandCache'[p] = commandCache[p]
                                 \/ /\ NoneStale(commandCache'[p]) /\ AllBuildable(p)
                                    /\ commandCache'[p] # << >> => Pages[p].commands # << >>
  PROVE  InterpreterInv'
<1>1. InterpreterTypeOK' BY DEF InterpreterInv, InterpreterTypeOK, Running
<1>2. StateFollowsLog'
  <2>0. \A i : i \notin DOMAIN << >> BY EmptyLog
  <2>1. run'.log = << >> OBVIOUS
  <2>2. /\ \A v : Sets(v)' = {}
        /\ \A w : Flips(w)' = {}
        /\ \A x : Moves(x)' = {}
    BY <2>0, <2>1 DEF Sets, Flips, Moves
  <2>3. /\ base'.variables = variables' /\ base'.switches = switches'
        /\ base'.position = position'
    BY DEF Snapshot
  <2> QED BY <2>2, <2>3 DEF StateFollowsLog
<1>3. run'.log \in Seq(Nat)
  <2>1. run'.log = << >> OBVIOUS
  <2>2. << >> \in Seq(Nat) BY EmptyLog
  <2> QED BY <2>1, <2>2
<1>4. \A p : AllBuildable(p) => AllBuildable(p)' BY DEF AllBuildable, Buildable
<1>5. NoneStale(run.rest)' BY DEF NoneStale
<1>6. \A p \in DOMAIN Pages : NoneStale(commandCache[p])' BY DEF NoneStale, InterpreterInv, RunInv
<1>7. \A p \in DOMAIN Pages : commandCache'[p] # << >> => /\ AllBuildable(p)'
                                                         /\ Pages[p].commands # << >>
  BY <1>4 DEF InterpreterInv, RunInv
<1>8. run'.rest # << >> => AllBuildable(run.page)'
  <2> SUFFICES ASSUME rest # << >> PROVE AllBuildable(run.page)' OBVIOUS
  <2>1. run'.page = page /\ AllBuildable(page) OBVIOUS
  <2> QED BY <2>1 DEF AllBuildable, Buildable
<1>9. /\ run' = [page |-> run'.page, rest |-> run'.rest, log |-> run'.log, ended |-> run'.ended]
      /\ run'.rest \in Seq(Built) /\ run'.log = << >>
  OBVIOUS
<1>10. fresh' \in [Commands -> Nat] /\ \A c \in Commands : fresh'[c] <= registry'[c]
  BY DEF InterpreterInv, RunInv
<1>11. RunInv' BY <1>3, <1>5, <1>6, <1>7, <1>8, <1>9, <1>10 DEF RunInv, Running
<1> QED BY <1>1, <1>2, <1>11 DEF InterpreterInv

\* Nothing runs when no page is active.
LEMMA RunNothingKeeps == ASSUME InterpreterInv, RunNothing PROVE InterpreterInv'
<1>1. run' = [page |-> 0, rest |-> << >>, log |-> << >>, ended |-> "no page"]
  BY DEF RunNothing, IdleRun
<1>2. 0 \in 0..Len(Pages) BY PagesAre
<1>3. NoneStale(<< >>) BY DEF NoneStale
<1>4. << >> \in Seq(Built) OBVIOUS
<1>5. commandCache' \in [DOMAIN Pages -> Seq(Built)] BY DEF RunNothing, InterpreterInv, RunInv
<1> QED BY <1>1, <1>2, <1>3, <1>4, <1>5, RunBegins DEF RunNothing

\* The commands of a page that can be built are built by the factories of now.
LEMMA BuiltNow ==
  ASSUME InterpreterInv, NEW p \in DOMAIN Pages, AllBuildable(p), NEW built,
         built = [i \in DOMAIN Pages[p].commands |-> Build(Pages[p].commands[i])]
  PROVE  built \in Seq(Built) /\ NoneStale(built)
<1> DEFINE s == Pages[p].commands
           n == Len(s)
<1>1. s \in Seq(PageLines) /\ DOMAIN s = 1..n /\ n \in Nat /\ \A i \in 1..n : s[i] \in PageLines
  <2>1. s \in Seq(PageLines) /\ DOMAIN s = 1..n /\ n \in Nat BY PagesAre
  <2> HIDE DEF s
  <2> QED BY <2>1
<1>2. ASSUME NEW i \in 1..n
      PROVE  /\ Build(s[i]) \in Built /\ Build(s[i]).version >= fresh[Build(s[i]).line.cmd]
  <2>1. s[i] \in PageLines /\ s[i].valid BY <1>1 DEF AllBuildable, Buildable
  <2>2. s[i].cmd \in Commands BY <2>1, PagesAre
  <2>3. /\ registry[s[i].cmd] \in Nat /\ fresh[s[i].cmd] \in Nat
        /\ fresh[s[i].cmd] <= registry[s[i].cmd]
    BY <2>2 DEF InterpreterInv, InterpreterTypeOK, RunInv
  <2> HIDE DEF s
  <2> QED BY <2>1, <2>3 DEF Build, Built
<1>3. built = [i \in 1..n |-> Build(s[i])] BY <1>1
<1> HIDE DEF s, n
<1>4. built \in Seq(Built) /\ Len(built) = n BY <1>1, <1>2, <1>3
<1> QED BY <1>2, <1>3, <1>4 DEF NoneStale

\* A page is selected, and built whole or not at all.
LEMMA RunEventKeeps == ASSUME InterpreterInv, RunEvent PROVE InterpreterInv'
<1> DEFINE p == SelectPage
           lines == Pages[p].commands
           ok == commandCache[p] # << >> \/ \A i \in DOMAIN lines : Buildable(lines[i])
           built == IF commandCache[p] # << >> THEN commandCache[p]
                    ELSE [i \in DOMAIN lines |-> Build(lines[i])]
           ended == IF ~ok THEN "threw" ELSE IF lines = << >> THEN "done" ELSE "none"
           rest == IF ok THEN built ELSE << >>
<1>0. /\ commandCache \in [DOMAIN Pages -> Seq(Built)]
      /\ \A q \in DOMAIN Pages : /\ NoneStale(commandCache[q])
                                 /\ commandCache[q] # << >> => /\ AllBuildable(q)
                                                              /\ Pages[q].commands # << >>
  BY DEF InterpreterInv, RunInv
<1>1. p \in DOMAIN Pages BY SelectedPage DEF RunEvent
<1>2. /\ commandCache' = IF ok THEN [commandCache EXCEPT ![p] = built] ELSE commandCache
      /\ run' = [page |-> p, rest |-> rest, log |-> << >>, ended |-> ended]
      /\ bus' = << >> /\ base' = Snapshot /\ touched' = {}
      /\ UNCHANGED <<variables, switches, position, registry, fresh>>
  BY DEF RunEvent, IdleRun
<1>3. ok => AllBuildable(p) BY <1>0, <1>1 DEF AllBuildable
<1>4. ok => built \in Seq(Built) /\ NoneStale(built)
  <2>1. CASE commandCache[p] # << >> BY <1>0, <1>1, <2>1
  <2>2. CASE commandCache[p] = << >> /\ ok
    <3>1. built = [i \in DOMAIN Pages[p].commands |-> Build(Pages[p].commands[i])] BY <2>2
    <3> HIDE DEF built, p
    <3> QED BY <1>1, <1>3, <2>2, <3>1, BuiltNow
  <2> QED BY <2>1, <2>2
<1>5. ASSUME ok, lines = << >> PROVE built = << >>
  <2>1. commandCache[p] = << >> BY <1>0, <1>1, <1>5
  <2>2. DOMAIN lines = {} /\ built = [i \in {} |-> Build(lines[i])] BY <2>1, <1>5
  <2> HIDE DEF built
  <2> QED BY <2>2
<1>6. lines = << >> \/ lines # << >> OBVIOUS
<1> HIDE DEF ok, built, lines
<1>7. rest \in Seq(Built) /\ NoneStale(rest)
  <2>1. NoneStale(<< >>) /\ << >> \in Seq(Built) BY DEF NoneStale
  <2> QED BY <2>1, <1>4
<1>8. rest # << >> => ended = "none" /\ p # 0 /\ AllBuildable(p)
  <2>1. p # 0 BY <1>1, PagesAre
  <2> QED BY <1>3, <1>5, <2>1
<1>9. ended \in {"none", "no page", "threw", "done"} OBVIOUS
<1>10. ok => (built # << >> => lines # << >>) BY <1>5
<1> HIDE DEF p, rest, ended
<1>11. commandCache' \in [DOMAIN Pages -> Seq(Built)] BY <1>0, <1>1, <1>2, <1>4
<1>12. \A q \in DOMAIN Pages : \/ commandCache'[q] = commandCache[q]
                               \/ /\ NoneStale(commandCache'[q]) /\ AllBuildable(q)
                                  /\ commandCache'[q] # << >> => Pages[q].commands # << >>
  <2> TAKE q \in DOMAIN Pages
  <2>1. CASE ok /\ q = p
    <3>1. commandCache'[q] = built BY <1>0, <1>1, <1>2, <2>1
    <3> QED BY <1>3, <1>4, <1>10, <2>1, <3>1 DEF lines
  <2>2. CASE ~(ok /\ q = p) BY <1>0, <1>2, <2>2
  <2> QED BY <2>1, <2>2
<1>13. p \in 0..Len(Pages) BY <1>1, PagesAre
<1> QED BY <1>2, <1>7, <1>8, <1>9, <1>11, <1>12, <1>13, RunBegins

\* Commands that only publish leave the state to their listeners.
LEMMA PublishingKeeps == ASSUME InterpreterInv, ExecutePublishing PROVE InterpreterInv'
<1> DEFINE e == [kind |-> "event", cmd |-> Line.cmd, version |-> run.rest[1].version]
<1>1. Applied(e) BY DEF ExecutePublishing, Applied
<1>2. Log(e) /\ Running BY DEF ExecutePublishing
<1>3. /\ variables' \in [Variables -> -MaxValue..MaxValue] /\ switches' \in [Switches -> BOOLEAN]
      /\ position' \in [Entities -> -MaxValue..MaxValue]
  BY DEF ExecutePublishing, InterpreterInv, InterpreterTypeOK
<1> HIDE DEF e
<1> QED BY <1>1, <1>2, <1>3, CommandKeeps DEF ExecutePublishing

\* setVariable writes what it logs.
LEMMA SetVariableKeeps == ASSUME InterpreterInv, ExecuteSetVariable PROVE InterpreterInv'
<1>0. /\ variables \in [Variables -> -MaxValue..MaxValue] /\ switches \in [Switches -> BOOLEAN]
      /\ position \in [Entities -> -MaxValue..MaxValue]
  BY DEF InterpreterInv, InterpreterTypeOK
<1>1. PICK v, value : /\ value \in -MaxValue..MaxValue
                      /\ variables' = [variables EXCEPT ![v] = value]
                      /\ Log([kind |-> "variable", name |-> v, result |-> value])
  BY DEF ExecuteSetVariable
<1> DEFINE e == [kind |-> "variable", name |-> v, result |-> value]
<1>2. Applied(e) BY <1>0, <1>1 DEF ExecuteSetVariable, Applied
<1>3. Log(e) /\ Running BY <1>1 DEF ExecuteSetVariable, Reached
<1>4. variables' \in [Variables -> -MaxValue..MaxValue] BY <1>0, <1>1
<1> HIDE DEF e
<1> QED BY <1>0, <1>2, <1>3, <1>4, CommandKeeps DEF ExecuteSetVariable

\* setSwitch writes what it logs.
LEMMA SetSwitchKeeps == ASSUME InterpreterInv, ExecuteSetSwitch PROVE InterpreterInv'
<1>0. /\ variables \in [Variables -> -MaxValue..MaxValue] /\ switches \in [Switches -> BOOLEAN]
      /\ position \in [Entities -> -MaxValue..MaxValue]
  BY DEF InterpreterInv, InterpreterTypeOK
<1> DEFINE e == [kind |-> "switch", name |-> Line.name, value |-> Line.value]
<1>1. Log(e) /\ Running BY DEF ExecuteSetSwitch, Reached
<1>2. Line.value \in BOOLEAN BY NextCommand DEF ExecuteSetSwitch, Reached
<1>3. Applied(e) BY <1>0 DEF ExecuteSetSwitch, Applied
<1>4. switches' \in [Switches -> BOOLEAN]
  <2>1. switches' = [switches EXCEPT ![Line.name] = Line.value] BY DEF ExecuteSetSwitch
  <2> QED BY <1>0, <1>2, <2>1, Zenon
<1> HIDE DEF e
<1> QED BY <1>0, <1>1, <1>3, <1>4, CommandKeeps DEF ExecuteSetSwitch

\* walk and move take the entity where they say.
LEMMA MoveKeeps == ASSUME InterpreterInv, ExecuteMove PROVE InterpreterInv'
<1>0. /\ variables \in [Variables -> -MaxValue..MaxValue] /\ switches \in [Switches -> BOOLEAN]
      /\ position \in [Entities -> -MaxValue..MaxValue]
  BY DEF InterpreterInv, InterpreterTypeOK
<1>1. PICK to : /\ to \in -MaxValue..MaxValue /\ position' = [position EXCEPT ![Mover] = to]
                /\ Log([kind |-> "move", entity |-> Mover, from |-> position[Mover], to |-> to])
  BY DEF ExecuteMove
<1> DEFINE e == [kind |-> "move", entity |-> Mover, from |-> position[Mover], to |-> to]
<1>2. Applied(e) BY <1>0, <1>1 DEF ExecuteMove, Applied
<1>3. Log(e) /\ Running BY <1>1 DEF ExecuteMove
<1>4. position' \in [Entities -> -MaxValue..MaxValue] BY <1>0, <1>1
<1> HIDE DEF e
<1> QED BY <1>0, <1>2, <1>3, <1>4, CommandKeeps DEF ExecuteMove

\* A move that finds nobody ends the page and leaves the rest as it was.
LEMMA MoveThrowsKeeps == ASSUME InterpreterInv, ExecuteMoveThrows PROVE InterpreterInv'
<1>1. /\ run' = [page |-> run.page, rest |-> << >>, log |-> run.log, ended |-> "threw"]
      /\ Running
      /\ UNCHANGED <<base, touched, variables, switches, position, registry, commandCache, bus, fresh>>
  BY DEF ExecuteMoveThrows, InterpreterInv, RunInv
<1>2. InterpreterTypeOK' BY <1>1 DEF InterpreterInv, InterpreterTypeOK, Running
<1>3. run'.log = run.log BY <1>1
<1>4. StateFollowsLog'
  BY <1>1, <1>3 DEF InterpreterInv, StateFollowsLog, Sets, Flips, Moves, LastEffect
<1>5. \A p : AllBuildable(p) => AllBuildable(p)' BY <1>1 DEF AllBuildable, Buildable
<1>6. run.page # 0 => AllBuildable(run.page) BY <1>1 DEF InterpreterInv, RunInv
<1>7. run'.page # 0 => AllBuildable(run.page)'
  <2>1. run'.page = run.page BY <1>1
  <2> QED BY <1>1, <1>6, <2>1 DEF AllBuildable, Buildable
<1>8. NoneStale(run.rest)'
  <2>1. run'.rest = << >> BY <1>1
  <2>2. \A i \in 1..Len(<< >>) : FALSE OBVIOUS
  <2> QED BY <2>1, <2>2 DEF NoneStale
<1>9. \A p \in DOMAIN Pages : NoneStale(commandCache[p])' BY <1>1 DEF NoneStale, InterpreterInv, RunInv
<1>10. /\ run' = [page |-> run'.page, rest |-> run'.rest, log |-> run'.log, ended |-> run'.ended]
       /\ run'.rest \in Seq(Built)
  <2>1. << >> \in Seq(Built) OBVIOUS
  <2> QED BY <1>1, <2>1
<1>11. RunInv' BY <1>1, <1>3, <1>5, <1>7, <1>8, <1>9, <1>10 DEF InterpreterInv, RunInv
<1> QED BY <1>2, <1>4, <1>11 DEF InterpreterInv

\* Between two runs the registry and the cache may change: the registry grows, and what
\* is cleared cannot be stale.
LEMMA RegistryKeeps ==
  ASSUME InterpreterInv, ~Running,
         UNCHANGED <<variables, switches, position, run, bus, base, touched>>,
         registry' \in [Commands -> Nat], fresh' \in [Commands -> Nat],
         \A c \in Commands : registry[c] <= registry'[c] /\ fresh'[c] <= registry'[c],
         commandCache' \in [DOMAIN Pages -> Seq(Built)],
         \A p \in DOMAIN Pages : \/ commandCache'[p] = commandCache[p] /\ fresh' = fresh
                                 \/ commandCache'[p] = << >>
  PROVE  InterpreterInv'
<1>1. InterpreterTypeOK' BY DEF InterpreterInv, InterpreterTypeOK, Running
<1>2. StateFollowsLog'
  BY DEF InterpreterInv, StateFollowsLog, Sets, Flips, Moves, LastEffect
<1>3. \A p \in DOMAIN Pages : AllBuildable(p) => AllBuildable(p)'
  <2> SUFFICES ASSUME NEW p \in DOMAIN Pages, AllBuildable(p),
                      NEW i \in DOMAIN Pages[p].commands
               PROVE  Buildable(Pages[p].commands[i])'
    BY DEF AllBuildable
  <2> DEFINE s == Pages[p].commands
             line == s[i]
  <2>1. line \in PageLines
    <3>1. s \in Seq(PageLines) BY PagesAre
    <3>2. i \in DOMAIN s OBVIOUS
    <3> HIDE DEF s
    <3>3. DOMAIN s = 1..Len(s) /\ \A j \in 1..Len(s) : s[j] \in PageLines BY <3>1
    <3> QED BY <3>2, <3>3
  <2>2. line.cmd \in Commands BY <2>1, PagesAre
  <2>3. registry[line.cmd] # 0 /\ line.valid BY DEF AllBuildable, Buildable
  <2> HIDE DEF line
  <2>4. registry[line.cmd] \in Nat /\ registry'[line.cmd] \in Nat
    BY <2>2 DEF InterpreterInv, InterpreterTypeOK
  <2>5. registry'[line.cmd] # 0 BY <2>2, <2>3, <2>4
  <2> QED BY <2>3, <2>5 DEF Buildable, line
<1>4. run.page # 0 /\ (run.log # << >> \/ bus # << >>) => AllBuildable(run.page)'
  <2> SUFFICES ASSUME run.page # 0, run.log # << >> \/ bus # << >>
               PROVE  AllBuildable(run.page)'
    OBVIOUS
  <2>1. run.page \in DOMAIN Pages
    <3>1. run.page \in 0..Len(Pages) BY DEF InterpreterInv, InterpreterTypeOK
    <3> QED BY <3>1, PagesAre
  <2>2. AllBuildable(run.page) BY DEF InterpreterInv, RunInv
  <2> DEFINE p == run.page
  <2>3. p \in DOMAIN Pages /\ AllBuildable(p) /\ run'.page = p BY <2>1, <2>2
  <2> QED BY <1>3, <2>3 DEF AllBuildable, Buildable
<1>5. run'.rest = << >> /\ run' = run BY DEF Running
<1>6. \A b : b = << >> => NoneStale(b)'
  <2>1. \A i \in 1..Len(<< >>) : FALSE OBVIOUS
  <2> QED BY <2>1 DEF NoneStale
<1>7. NoneStale(run.rest)'
  <2>1. \A i \in 1..Len(<< >>) : FALSE OBVIOUS
  <2> QED BY <1>5, <2>1 DEF NoneStale
<1>8. ASSUME NEW p \in DOMAIN Pages
      PROVE  /\ NoneStale(commandCache[p])'
             /\ commandCache'[p] # << >> => AllBuildable(p)' /\ Pages[p].commands # << >>
  <2>1. CASE commandCache'[p] = commandCache[p] /\ fresh' = fresh
    <3>1. NoneStale(commandCache[p]) BY DEF InterpreterInv, RunInv
    <3>2. NoneStale(commandCache[p])' BY <2>1, <3>1 DEF NoneStale
    <3>3. commandCache[p] # << >> => AllBuildable(p) /\ Pages[p].commands # << >>
      BY DEF InterpreterInv, RunInv
    <3> QED BY <1>3, <2>1, <3>2, <3>3
  <2>2. CASE commandCache'[p] = << >>
    <3>1. \A i \in 1..Len(<< >>) : FALSE OBVIOUS
    <3> QED BY <2>2, <3>1 DEF NoneStale
  <2> QED BY <2>1, <2>2
<1>9. /\ run' = [page |-> run'.page, rest |-> run'.rest, log |-> run'.log, ended |-> run'.ended]
      /\ run'.rest \in Seq(Built) /\ \E S : run'.log \in Seq(S)
  BY <1>5 DEF InterpreterInv, RunInv
<1>10. RunInv' BY <1>4, <1>5, <1>7, <1>8, <1>9 DEF RunInv, Running
<1> QED BY <1>1, <1>2, <1>10 DEF InterpreterInv

\* A command is registered: its factory is newer than every one before it.
LEMMA RegisterKeeps == ASSUME InterpreterInv, NEW c \in Commands, Register(c) PROVE InterpreterInv'
<1>1. /\ registry \in [Commands -> Nat] /\ fresh \in [Commands -> Nat]
      /\ \A k \in Commands : fresh[k] <= registry[k]
      /\ commandCache \in [DOMAIN Pages -> Seq(Built)]
  BY DEF InterpreterInv, InterpreterTypeOK, RunInv
<1>2. registry' = [registry EXCEPT ![c] = @ + 1] BY DEF Register
<1>3. /\ registry' \in [Commands -> Nat]
      /\ \A k \in Commands : registry[k] <= registry'[k] /\ fresh[k] <= registry'[k]
  BY <1>1, <1>2
<1> QED BY <1>1, <1>3, RegistryKeeps DEF Register

\* The cache is cleared.
LEMMA ClearCacheKeeps == ASSUME InterpreterInv, ClearCommandCache PROVE InterpreterInv'
<1>1. registry \in [Commands -> Nat] BY DEF InterpreterInv, InterpreterTypeOK
<1>2. << >> \in Seq(Built) OBVIOUS
<1>3. commandCache' = [p \in DOMAIN Pages |-> << >>] BY DEF ClearCommandCache
<1>4. /\ commandCache' \in [DOMAIN Pages -> Seq(Built)]
      /\ \A p \in DOMAIN Pages : commandCache'[p] = << >>
  BY <1>2, <1>3
<1>5. \A k \in Commands : registry[k] <= registry[k] BY <1>1
<1> QED BY <1>1, <1>4, <1>5, RegistryKeeps DEF ClearCommandCache

\* A listener writes a variable, of which the log has nothing to say from then on.
LEMMA ListenerKeeps ==
  ASSUME InterpreterInv, NEW v \in Variables, NEW value \in Values, SetVariable(v, value)
  PROVE  InterpreterInv'
<1>1. /\ variables' = [variables EXCEPT ![v] = value] /\ touched' = touched \union {v}
      /\ UNCHANGED <<switches, position, registry, commandCache, run, bus, base, fresh>>
  BY DEF SetVariable
<1>2. value \in -MaxValue..MaxValue BY PagesAre
<1>3. InterpreterTypeOK' BY <1>1, <1>2 DEF InterpreterInv, InterpreterTypeOK, Running
<1>4. \A u \in Variables \ touched' : u \in Variables \ touched /\ variables'[u] = variables[u]
  BY <1>1 DEF InterpreterInv, InterpreterTypeOK
<1>5. StateFollowsLog'
  BY <1>1, <1>4 DEF InterpreterInv, StateFollowsLog, Sets, Flips, Moves, LastEffect
<1>6. RunInv'
  BY <1>1 DEF InterpreterInv, RunInv, NoneStale, AllBuildable, Buildable, Running
<1> QED BY <1>3, <1>5, <1>6 DEF InterpreterInv

\* Nothing has run at the start.
LEMMA InterpreterInvInit == InterpreterInit => InterpreterInv
<1> SUFFICES ASSUME InterpreterInit PROVE InterpreterInv OBVIOUS
<1>1. run = [page |-> 0, rest |-> << >>, log |-> << >>, ended |-> "none"]
  BY DEF InterpreterInit, IdleRun
<1>2. registry = [c \in Commands |-> IF c \in Names0 THEN 1 ELSE 0] /\ fresh = registry
  BY DEF InterpreterInit
<1>3. registry \in [Commands -> Nat] /\ \A c \in Commands : fresh[c] <= registry[c] BY <1>2
<1>4. /\ variables = [v \in Variables |-> 0] /\ switches = [w \in Switches |-> FALSE]
      /\ position = [e \in Entities |-> 0]
  BY DEF InterpreterInit
<1>5. 0 \in -MaxValue..MaxValue /\ 0 \in 0..Len(Pages) BY PagesAre
<1>6. switches \in [Switches -> BOOLEAN] BY <1>4, Zenon
<1>7. InterpreterTypeOK BY <1>1, <1>3, <1>4, <1>5, <1>6 DEF InterpreterTypeOK, Running
<1>8. StateFollowsLog
  <2>1. run.log = << >> BY <1>1
  <2>2. /\ \A v : Sets(v) = {}
        /\ \A w : Flips(w) = {}
        /\ \A x : Moves(x) = {}
    BY <2>1, EmptyLog DEF Sets, Flips, Moves
  <2>3. base.variables = variables /\ base.switches = switches /\ base.position = position
    BY DEF InterpreterInit, Snapshot
  <2> QED BY <2>2, <2>3 DEF StateFollowsLog
<1>9. NoneStale(<< >>) BY DEF NoneStale
<1>10. commandCache = [p \in DOMAIN Pages |-> << >>] BY DEF InterpreterInit
<1>11. << >> \in Seq(Built) OBVIOUS
<1>12. RunInv
  BY <1>1, <1>2, <1>3, <1>9, <1>10, <1>11, EmptyLog DEF RunInv
<1> QED BY <1>7, <1>8, <1>12 DEF InterpreterInv

\* Every step keeps the invariant.
LEMMA InterpreterInvNext == InterpreterInv /\ [InterpreterNext]_interpreterVars => InterpreterInv'
<1> SUFFICES ASSUME InterpreterInv, [InterpreterNext]_interpreterVars PROVE InterpreterInv' OBVIOUS
<1>1. CASE UNCHANGED interpreterVars
  <2> USE <1>1 DEF interpreterVars
  <2>1. InterpreterTypeOK' BY DEF InterpreterInv, InterpreterTypeOK, Running
  <2>2. StateFollowsLog'
    BY DEF InterpreterInv, StateFollowsLog, Sets, Flips, Moves, LastEffect
  <2>3. RunInv' BY DEF InterpreterInv, RunInv, NoneStale, AllBuildable, Buildable, Running
  <2> QED BY <2>1, <2>2, <2>3 DEF InterpreterInv
<1> QED BY <1>1, RunNothingKeeps, RunEventKeeps, ClearCacheKeeps, PublishingKeeps, SetVariableKeeps,
           SetSwitchKeeps, MoveKeeps, MoveThrowsKeeps, RegisterKeeps, ListenerKeeps
    DEF InterpreterNext

\* A run uses no factory older than the last clearing of the cache, a page with an
\* unknown command does nothing, and the effect log accounts for the state, also of a
\* page that threw in its middle and with listeners that write meanwhile (runEvent,
\* CommandRegistry.build, clearCommandCache, execute).
THEOREM RunsAreAccounted == InterpreterSpec => []RunIsAccounted
<1>1. InterpreterInv => RunIsAccounted
  <2> SUFFICES ASSUME InterpreterInv PROVE RunIsAccounted OBVIOUS
  <2>1. ClearedCacheIsFresh
    <3>1. run.rest \in Seq(Built) /\ NoneStale(run.rest) BY DEF InterpreterInv, RunInv
    <3>2. DOMAIN run.rest = 1..Len(run.rest)
      <4> DEFINE r == run.rest
      <4>1. r \in Seq(Built) BY <3>1
      <4> HIDE DEF r
      <4>2. DOMAIN r = 1..Len(r) BY <4>1
      <4> QED BY <4>2 DEF r
    <3> QED BY <3>1, <3>2 DEF ClearedCacheIsFresh, NoneStale
  <2>2. UnknownRunsNothing
    BY DEF UnknownRunsNothing, InterpreterInv, RunInv, AllBuildable, Buildable
  <2> QED BY <2>1, <2>2 DEF RunIsAccounted, InterpreterInv
<1> QED BY <1>1, InterpreterInvInit, InterpreterInvNext, PTL DEF InterpreterSpec

\* A page ends as done with its last command, which was carried out like those before it:
\* an entity that is missing is never passed over in silence (translateEntity).
THEOREM DoneAlwaysMeansAll == InterpreterSpec => DoneMeansAll
<1> DEFINE Means == run'.ended = "done" /\ run.ended = "none" /\ Running
                      => Len(run.rest) = 1 /\ Len(run'.log) = Len(run.log) + 1
<1>1. ASSUME InterpreterInv, [InterpreterNext]_interpreterVars PROVE [Means]_interpreterVars
  <2> SUFFICES ASSUME InterpreterNext, run'.ended = "done", run.ended = "none", Running
               PROVE  Len(run.rest) = 1 /\ Len(run'.log) = Len(run.log) + 1
    BY <1>1
  <2>1. PICK S : run.log \in Seq(S) BY <1>1 DEF InterpreterInv, RunInv
  <2>2. ASSUME NEW e, Log(e) PROVE Len(run.rest) = 1 /\ Len(run'.log) = Len(run.log) + 1
    <3>1. run'.log = Append(run.log, e) /\ Tail(run.rest) = << >>
      BY <1>1, <2>2 DEF Log, InterpreterInv, RunInv
    <3>2. Len(run.rest) \in Nat /\ Len(Tail(run.rest)) = Len(run.rest) - 1 BY <1>1, NextCommand
    <3>3. Len(run.rest) = 1
      <4> DEFINE n == Len(run.rest)
                 m == Len(Tail(run.rest))
      <4>1. m = 0
        <5>1. Len(<< >>) = 0 OBVIOUS
        <5> QED BY <3>1, <5>1, Zenon
      <4>2. n \in Nat /\ m = n - 1 BY <3>2
      <4> HIDE DEF n, m
      <4>3. n = 1 BY <4>1, <4>2
      <4> QED BY <4>3 DEF n
    <3>4. DOMAIN run'.log = 1..(Len(run.log) + 1) /\ \E T : run'.log \in Seq(T) /\ Len(run.log) \in Nat
      BY <2>1, <3>1, OneMoreEffect
    <3>5. Len(run'.log) = Len(run.log) + 1
      <4> DEFINE a == run'.log
                 n == Len(run.log)
      <4>1. PICK T : a \in Seq(T) BY <3>4
      <4>2. DOMAIN a = 1..(n + 1) /\ n \in Nat BY <3>4
      <4> HIDE DEF a, n
      <4>3. Len(a) = n + 1 BY <4>1, <4>2
      <4> QED BY <4>3 DEF a, n
    <3> QED BY <3>3, <3>5
  <2>3. CASE ExecutePublishing BY <2>2, <2>3 DEF ExecutePublishing
  <2>4. CASE ExecuteSetVariable BY <2>2, <2>4 DEF ExecuteSetVariable
  <2>5. CASE ExecuteSetSwitch BY <2>2, <2>5 DEF ExecuteSetSwitch
  <2>6. CASE ExecuteMove BY <2>2, <2>6 DEF ExecuteMove
  <2>7. CASE ExecuteMoveThrows BY <1>1, <2>7 DEF ExecuteMoveThrows, InterpreterInv, RunInv
  <2>8. run' # run BY DEF Running
  <2> QED BY <2>3, <2>4, <2>5, <2>6, <2>7, <2>8
      DEF InterpreterNext, RunNothing, RunEvent, ClearCommandCache, Register, SetVariable
<1> QED BY <1>1, InterpreterInvInit, InterpreterInvNext, PTL DEF InterpreterSpec, DoneMeansAll

-----------------------------------------------------------------------------
(* Textures and tile layers                                                 *)

\* f gives for every n what is kept of the first n elements.
Keeping(f, s, T) ==
  f = [n \in 0..Len(s) |-> IF n = 0 THEN << >>
                           ELSE IF s[n] \in T THEN Append(f[n - 1], s[n]) ELSE f[n - 1]]

\* What is kept of each front of a list is a function of the front's length.
LEMMA KeepingExists ==
  ASSUME NEW S, NEW s \in Seq(S), NEW T PROVE \E f : Keeping(f, s, T)
<1> DEFINE next(k, x) == IF s[k] \in T THEN Append(x, s[k]) ELSE x
           Goes(f, k) == \A j \in 0..k : f[j] = IF j = 0 THEN << >> ELSE next(j, f[j - 1])
           W == {k \in 0..Len(s) : \E f : f = [j \in 0..k |-> f[j]] /\ Goes(f, k)}
<1>1. Len(s) \in Nat OBVIOUS
<1>2. 0 \in W
  <2> DEFINE f == [j \in 0..0 |-> << >>]
  <2>1. f = [j \in 0..0 |-> f[j]] /\ Goes(f, 0) OBVIOUS
  <2> HIDE DEF f, Goes
  <2> QED BY <1>1, <2>1
<1>3. ASSUME NEW k \in 0..(Len(s) - 1), k \in W PROVE k + 1 \in W
  <2>1. PICK f : f = [j \in 0..k |-> f[j]] /\ Goes(f, k) BY <1>3
  <2> DEFINE g == [j \in 0..(k + 1) |-> IF j <= k THEN f[j] ELSE next(k + 1, f[k])]
  <2>2. \A j \in 0..k : f[j] = IF j = 0 THEN << >> ELSE next(j, f[j - 1]) BY <2>1
  <2> HIDE DEF next
  <2>3. \A j \in 0..(k + 1) : g[j] = IF j = 0 THEN << >> ELSE next(j, g[j - 1])
    <3> TAKE j \in 0..(k + 1)
    <3>1. CASE j = 0 BY <3>1, <2>2
    <3>2. CASE j \in 1..k
      <4>1. g[j] = f[j] /\ g[j - 1] = f[j - 1] BY <3>2
      <4> QED BY <4>1, <3>2, <2>2
    <3>3. CASE j = k + 1
      <4>1. g[j] = next(k + 1, f[k]) /\ g[j - 1] = f[k] /\ j # 0 BY <3>3
      <4> QED BY <4>1, <3>3
    <3> QED BY <3>1, <3>2, <3>3
  <2>4. g = [j \in 0..(k + 1) |-> g[j]] OBVIOUS
  <2> HIDE DEF g
  <2>5. k + 1 \in 0..Len(s) BY <1>1
  <2> QED BY <2>3, <2>4, <2>5
<1>4. Len(s) \in W
  <2> HIDE DEF W
  <2>1. \A k \in 0..Len(s) : k \in W BY <1>1, <1>2, <1>3, CountUp
  <2> QED BY <1>1, <2>1
<1>5. PICK f : f = [j \in 0..Len(s) |-> f[j]] /\ Goes(f, Len(s)) BY <1>4
<1>6. f = [n \in 0..Len(s) |-> IF n = 0 THEN << >>
                               ELSE IF s[n] \in T THEN Append(f[n - 1], s[n]) ELSE f[n - 1]]
  BY <1>5
<1> QED BY <1>6 DEF Keeping

\* f goes from nothing kept to what is kept of the whole list.
KeepsBy(f, s, T) ==
  /\ Kept(s, T) = f[Len(s)] /\ f[0] = << >>
  /\ \A k \in 0..(Len(s) - 1) : f[k + 1] = IF s[k + 1] \in T THEN Append(f[k], s[k + 1]) ELSE f[k]

\* So that what is said of it can be proved front by front.
LEMMA KeptBy == ASSUME NEW S, NEW s \in Seq(S), NEW T PROVE \E f : KeepsBy(f, s, T)
<1> DEFINE f == CHOOSE f : Keeping(f, s, T)
<1>1. Keeping(f, s, T) BY KeepingExists
<1>2. Kept(s, T) = f[Len(s)] BY DEF Kept, Keeping
<1> HIDE DEF f
<1>3. \A n \in 0..Len(s) : f[n] = IF n = 0 THEN << >>
                                  ELSE IF s[n] \in T THEN Append(f[n - 1], s[n]) ELSE f[n - 1]
  BY <1>1 DEF Keeping
<1>4. Len(s) \in Nat OBVIOUS
<1>5. f[0] = << >> BY <1>3, <1>4
<1>6. ASSUME NEW k \in 0..(Len(s) - 1)
      PROVE  f[k + 1] = IF s[k + 1] \in T THEN Append(f[k], s[k + 1]) ELSE f[k]
  <2>1. k + 1 \in 0..Len(s) /\ k + 1 # 0 /\ (k + 1) - 1 = k BY <1>4
  <2> QED BY <2>1, <1>3
<1> QED BY <1>2, <1>5, <1>6 DEF KeepsBy

\* What is kept: the elements that are in T, each as often as before.
LEMMA KeptAre ==
  ASSUME NEW S, NEW s \in Seq(S), NEW T
  PROVE  /\ Kept(s, T) \in Seq(S) /\ ToSet(Kept(s, T)) = ToSet(s) \intersect T
         /\ IsInjective(s) => IsInjective(Kept(s, T))
<1>0. PICK f : KeepsBy(f, s, T) BY KeptBy
<1> DEFINE n == Len(s)
           Firsts(k) == {s[i] : i \in 1..k}
           Right(k) == /\ f[k] \in Seq(S) /\ ToSet(f[k]) = Firsts(k) \intersect T
                       /\ IsInjective(s) => IsInjective(f[k])
           W == {k \in 0..n : Right(k)}
<1>1. /\ n \in Nat /\ DOMAIN s = 1..n /\ Kept(s, T) = f[n] /\ f[0] = << >>
      /\ \A k \in 0..(n - 1) : f[k + 1] = IF s[k + 1] \in T THEN Append(f[k], s[k + 1]) ELSE f[k]
      /\ \A i \in 1..n : s[i] \in S
  BY <1>0 DEF KeepsBy
<1> HIDE DEF n
<1>2. 0 \in W
  <2>1. f[0] \in Seq(S)
    <3>1. << >> \in Seq(S) OBVIOUS
    <3> QED BY <1>1, <3>1
  <2>2. DOMAIN f[0] = {}
    <3>1. DOMAIN << >> = {} OBVIOUS
    <3> QED BY <1>1, <3>1
  <2>3. ToSet(f[0]) = {} /\ IsInjective(f[0]) BY <2>2 DEF ToSet, IsInjective
  <2>4. Firsts(0) = {} OBVIOUS
  <2>5. Right(0) BY <2>1, <2>3, <2>4
  <2> HIDE DEF Right
  <2> QED BY <1>1, <2>5
<1>3. ASSUME NEW k \in 0..(n - 1), k \in W PROVE k + 1 \in W
  <2> DEFINE e == s[k + 1]
  <2>1. Right(k) BY <1>3
  <2>2. k + 1 \in 1..n /\ k \in Nat /\ e \in S BY <1>1
  <2>3. Firsts(k + 1) = Firsts(k) \union {e}
    <3>1. \A i : i \in 1..(k + 1) <=> i \in 1..k \/ i = k + 1 BY <2>2
    <3> QED BY <3>1
  <2>4. IsInjective(s) => e \notin Firsts(k)
    <3>1. \A i \in 1..k : i \in 1..n /\ i # k + 1 BY <1>1, <2>2
    <3> QED BY <1>1, <2>2, <3>1 DEF IsInjective
  <2>5. f[k + 1] = IF e \in T THEN Append(f[k], e) ELSE f[k] BY <1>1
  <2> HIDE DEF e, Firsts
  <2>6. Right(k + 1)
    <3>1. CASE e \in T
      <4> DEFINE x == f[k]
      <4>1. x \in Seq(S) /\ ToSet(x) = Firsts(k) \intersect T /\ (IsInjective(s) => IsInjective(x))
        BY <2>1
      <4>2. f[k + 1] = Append(x, e) BY <2>5, <3>1
      <4> HIDE DEF x
      <4>3. Append(x, e) \in Seq(S) BY <2>2, <4>1
      <4>4. ToSet(Append(x, e)) = ToSet(x) \union {e} BY <2>2, <4>1, AppendedSet
      <4>5. IsInjective(s) => IsInjective(Append(x, e)) BY <2>2, <2>4, <4>1, AppendedAlone
      <4> QED BY <2>3, <3>1, <4>1, <4>2, <4>3, <4>4, <4>5
    <3>2. CASE e \notin T
      <4>1. f[k + 1] = f[k] BY <2>5, <3>2
      <4> QED BY <2>1, <2>3, <3>2, <4>1
    <3> QED BY <3>1, <3>2
  <2>7. k + 1 \in 0..n BY <1>1
  <2> HIDE DEF Right
  <2> QED BY <2>6, <2>7
<1>4. n \in W
  <2> HIDE DEF W
  <2>1. \A k \in 0..n : k \in W BY <1>1, <1>2, <1>3, CountUp
  <2> QED BY <1>1, <2>1
<1>5. Firsts(n) = ToSet(s) BY <1>1 DEF ToSet
<1> QED BY <1>1, <1>4, <1>5

\* An image is that of a tileset, with its grid.
IsOf(image, t) == image.url = ImageOf[t] /\ image.grid = GridOf[t]

\* The textures: the url index and the atlas name the same ones; a tileset that is bound,
\* or about to be, is bound to its own image; who waits is not absent.
TexturesInv ==
  /\ nextId \in Nat \ {0} /\ DOMAIN images \subseteq 1..(nextId - 1)
  /\ \A id \in DOMAIN images : /\ images[id].url \in Url
                              /\ images[id] = [url |-> images[id].url, grid |-> images[id].grid]
  /\ byUrl \in [Url -> 0..(nextId - 1)] /\ loading \subseteq Url
  /\ waiting \in Seq(Tilesets) /\ IsInjective(waiting)
  /\ \A t \in ToSet(waiting) : binding[t] # Absent
  /\ resolved \in Seq(Tilesets \X (1..(nextId - 1)))
  /\ \A i \in 1..Len(resolved) :
       Loaded(resolved[i][2]) => images[resolved[i][2]].url = ImageOf[resolved[i][1]]
  /\ binding \in [Tilesets -> {Absent} \union 0..(nextId - 1)]
  /\ \A t \in Tilesets : Loaded(binding[t]) => IsOf(images[binding[t]], t)
  /\ OneTexturePerUrl

\* The layers on the screen and in the cache are cut from the image of their tileset.
TilesInv ==
  /\ TexturesInv /\ map \in Map
  /\ \A m \in Map : \A l \in LayersOf[m] :
       tileLayerCache[l.id] # Nothing => IsOf(tileLayerCache[l.id].pixels.image, TilesetOf[m])
  /\ \A l \in LayersOf[map] : screen[l.id] # Nothing => IsOf(screen[l.id].image, TilesetOf[map])

\* The constants.
LEMMA TilesetsAre ==
  /\ Tileset \in Seq(Tilesets) /\ IsInjective(Tileset) /\ ToSet(Tileset) = Tilesets
  /\ \A t \in Tilesets : ImageOf[t] \in Url
  /\ FirstMap \in Map /\ \A m \in Map : TilesetOf[m] \in Tilesets
<1>1. ToSet(Tileset) = Tilesets BY DEF ToSet, Range, Tilesets
<1> QED BY <1>1, TexturesAssumption, LayersAssumption DEF Tilesets

\* Absent and unready tilesets are not loaded.
LEMMA LoadedIsTexture ==
  ASSUME TexturesInv, NEW id, Loaded(id) PROVE id \in 1..(nextId - 1) /\ id # 0 /\ id # Absent
BY DEF TexturesInv, Loaded, Absent

\* Somebody else's image is asked for.
LEMMA LoadImageKeeps == ASSUME TexturesInv, NEW u \in Url, LoadImage(u) PROVE TexturesInv'
BY DEF TexturesInv, LoadImage, Load, Loaded, OneTexturePerUrl, IsOf

\* An image arrives: it gets a texture of its own, and its tilesets will be bound to it.
LEMMA ImageArrivesKeeps == ASSUME TexturesInv, NEW u \in Url, ImageArrives(u) PROVE TexturesInv'
<1> DEFINE q == ForUrl(u)
           id == nextId
<1>1. /\ q \in Seq(Tilesets) /\ \A i \in 1..Len(q) : q[i] \in Tilesets /\ ImageOf[q[i]] = u
      /\ DOMAIN q = 1..Len(q) /\ Len(q) \in Nat
  <2>1. q \in Seq(Tilesets) /\ ToSet(q) \subseteq WhoseImage(u) BY KeptAre DEF TexturesInv, ForUrl
  <2> HIDE DEF q
  <2>2. DOMAIN q = 1..Len(q) /\ Len(q) \in Nat BY <2>1
  <2> QED BY <2>1, <2>2 DEF ToSet, WhoseImage
<1>2. /\ waiting' \in Seq(Tilesets) /\ IsInjective(waiting') /\ ToSet(waiting') \subseteq ToSet(waiting)
  BY KeptAre DEF TexturesInv, ImageArrives, NotForUrl
<1>3. /\ id \in Nat \ {0} /\ nextId' = id + 1 /\ DOMAIN images \subseteq 1..(id - 1)
      /\ u \in loading /\ byUrl[u] = 0 /\ byUrl \in [Url -> 0..(id - 1)]
      /\ binding' = binding /\ loading' = loading \ {u}
      /\ byUrl' = [byUrl EXCEPT ![u] = id]
      /\ resolved' = [i \in 1..Len(q) |-> <<q[i], id>>]
      /\ binding \in [Tilesets -> {Absent} \union 0..(id - 1)]
  BY <1>1 DEF TexturesInv, ImageArrives, OneTexturePerUrl
<1>4. images' = [i \in DOMAIN images \union {id} |->
                   IF i = id THEN [url |-> u, grid |-> WholeImage] ELSE images[i]]
  BY DEF ImageArrives
<1> HIDE DEF q, id
<1>5. /\ DOMAIN images' = DOMAIN images \union {id}
      /\ \A i \in DOMAIN images : images'[i] = images[i] /\ i # id
      /\ images'[id] = [url |-> u, grid |-> WholeImage]
  BY <1>3, <1>4
<1>6. DOMAIN images' \subseteq 1..(nextId' - 1) /\ nextId' \in Nat \ {0} BY <1>3, <1>5
<1>7. \A i \in DOMAIN images' : /\ images'[i].url \in Url
                               /\ images'[i] = [url |-> images'[i].url, grid |-> images'[i].grid]
  BY <1>5 DEF TexturesInv
<1>8. byUrl' \in [Url -> 0..(nextId' - 1)] /\ loading' \subseteq Url BY <1>3 DEF TexturesInv
<1>9. /\ resolved' \in Seq(Tilesets \X (1..(nextId' - 1)))
      /\ Len(resolved') = Len(q) /\ \A i \in 1..Len(q) : resolved'[i] = <<q[i], id>>
  <2>1. \A i \in 1..Len(q) : <<q[i], id>> \in Tilesets \X (1..(nextId' - 1)) BY <1>1, <1>3
  <2> QED BY <1>1, <1>3, <2>1
<1>10. \A i \in 1..Len(resolved') :
         Loaded(resolved[i][2])' => images'[resolved'[i][2]].url = ImageOf[resolved'[i][1]]
  BY <1>1, <1>5, <1>9
<1>11. binding' \in [Tilesets -> {Absent} \union 0..(nextId' - 1)] BY <1>3
<1>12. \A t \in Tilesets : Loaded(binding[t])' => IsOf(images'[binding'[t]], t)
  <2> TAKE t \in Tilesets
  <2>1. binding[t] # id BY <1>3 DEF Absent
  <2> QED BY <1>3, <1>5, <2>1 DEF TexturesInv, Loaded
<1>13. OneTexturePerUrl'
  <2>1. \A i \in DOMAIN images : images[i].url # u
    BY <1>3, <1>5 DEF TexturesInv, OneTexturePerUrl
  <2>2. \A i \in DOMAIN images' : byUrl'[images'[i].url] = i
    BY <1>3, <1>5, <2>1 DEF TexturesInv, OneTexturePerUrl
  <2>3. \A v \in Url : byUrl'[v] # 0 => Loaded(byUrl[v])' /\ images'[byUrl'[v]].url = v
    BY <1>3, <1>5 DEF TexturesInv, OneTexturePerUrl, Loaded
  <2>4. \A v \in loading' : byUrl'[v] = 0 BY <1>3 DEF TexturesInv, OneTexturePerUrl
  <2> QED BY <2>2, <2>3, <2>4 DEF OneTexturePerUrl
<1>14. \A t \in ToSet(waiting') : binding'[t] # Absent BY <1>2, <1>3 DEF TexturesInv
<1> QED BY <1>2, <1>6, <1>7, <1>8, <1>9, <1>10, <1>11, <1>12, <1>13, <1>14 DEF TexturesInv

\* An image fails: who waited for it is absent again.
LEMMA ImageFailsKeeps == ASSUME TexturesInv, NEW u \in Url, ImageFails(u) PROVE TexturesInv'
<1> DEFINE q == ForUrl(u)
<1>1. q \in Seq(Tilesets) /\ ToSet(q) = ToSet(waiting) \intersect WhoseImage(u)
  BY KeptAre DEF TexturesInv, ForUrl
<1>2. /\ waiting' \in Seq(Tilesets) /\ IsInjective(waiting')
      /\ ToSet(waiting') = ToSet(waiting) \intersect (Tilesets \ WhoseImage(u))
  BY KeptAre DEF TexturesInv, ImageFails, NotForUrl
<1>3. /\ binding' = [t \in Tilesets |-> IF Contains(q, t) THEN Absent ELSE binding[t]]
      /\ loading' = loading \ {u} /\ UNCHANGED <<images, byUrl, resolved, nextId>>
  BY DEF ImageFails
<1> HIDE DEF q
<1>4. \A t : Contains(q, t) <=> t \in ToSet(q) BY <1>1, ContainsIsIn
<1>5. /\ \A t \in Tilesets : binding'[t] = binding[t] \/ binding'[t] = Absent
      /\ \A t \in Tilesets : t \notin ToSet(q) => binding'[t] = binding[t]
  BY <1>3, <1>4
<1>6. binding' \in [Tilesets -> {Absent} \union 0..(nextId - 1)]
  BY <1>3, <1>5 DEF TexturesInv
<1>7. \A t \in ToSet(waiting') : t \in Tilesets /\ t \in ToSet(waiting) /\ t \notin ToSet(q)
  BY <1>1, <1>2
<1>8. \A t \in ToSet(waiting') : binding'[t] # Absent BY <1>5, <1>7 DEF TexturesInv
<1>9. \A t \in Tilesets : Loaded(binding[t])' => IsOf(images'[binding'[t]], t)
  <2> TAKE t \in Tilesets
  <2>1. CASE binding'[t] = binding[t] BY <1>3, <2>1 DEF TexturesInv, Loaded
  <2>2. CASE binding'[t] = Absent
    <3>1. ~Loaded(Absent) BY LoadedIsTexture
    <3> QED BY <1>3, <2>2, <3>1 DEF Loaded
  <2> QED BY <1>5, <2>1, <2>2
<1>10. OneTexturePerUrl' BY <1>3 DEF TexturesInv, OneTexturePerUrl, Loaded
<1> QED BY <1>2, <1>3, <1>6, <1>8, <1>9, <1>10 DEF TexturesInv, Loaded

\* A tileset is bound, and its texture gets its grid, which is also that of the others
\* that share the image.
LEMMA BindKeeps == ASSUME TexturesInv, OneGridPerImage, Bind PROVE TexturesInv'
<1> DEFINE t == Head(resolved)[1]
           id == Head(resolved)[2]
           P == Tilesets \X (1..(nextId - 1))
           r == resolved
<1>0. r \in Seq(P) /\ r # << >> BY DEF TexturesInv, Bind
<1>1. r[1] \in P /\ Head(r) = r[1] /\ Tail(r) \in Seq(P) /\ Len(r) \in Nat /\ 1 \in 1..Len(r)
      /\ Len(Tail(r)) = Len(r) - 1 /\ \A i \in 1..(Len(r) - 1) : Tail(r)[i] = r[i + 1]
  <2> HIDE DEF r, P
  <2> QED BY <1>0
<1>2. /\ t \in Tilesets /\ id \in 1..(nextId - 1)
      /\ Loaded(id) => images[id].url = ImageOf[t]
  BY <1>1 DEF TexturesInv
<1>3. /\ images' = [i \in DOMAIN images |-> IF i = id THEN [images[i] EXCEPT !.grid = GridOf[t]]
                                            ELSE images[i]]
      /\ binding' = [binding EXCEPT ![t] = id] /\ resolved' = Tail(r)
      /\ UNCHANGED <<byUrl, loading, waiting, nextId>>
  BY DEF Bind, SetGrid
<1> HIDE DEF t, id, r
<1>4. /\ DOMAIN images' = DOMAIN images
      /\ \A i \in DOMAIN images : /\ images'[i].url = images[i].url
                                  /\ images'[i].grid = IF i = id THEN GridOf[t] ELSE images[i].grid
                                  /\ images'[i] = [url |-> images'[i].url, grid |-> images'[i].grid]
  <2>1. DOMAIN images' = DOMAIN images BY <1>3
  <2>2. ASSUME NEW i \in DOMAIN images
        PROVE  /\ images'[i].url = images[i].url
               /\ images'[i].grid = IF i = id THEN GridOf[t] ELSE images[i].grid
               /\ images'[i] = [url |-> images'[i].url, grid |-> images'[i].grid]
    <3>1. images[i] = [url |-> images[i].url, grid |-> images[i].grid] BY DEF TexturesInv
    <3>2. CASE i = id
      <4>1. images'[i] = [images[i] EXCEPT !.grid = GridOf[t]] BY <1>3, <3>2
      <4>2. images'[i] = [url |-> images[i].url, grid |-> GridOf[t]] BY <3>1, <4>1
      <4> QED BY <3>2, <4>2
    <3>3. CASE i # id
      <4>1. images'[i] = images[i] BY <1>3, <3>3
      <4> QED BY <3>1, <3>3, <4>1
    <3> QED BY <3>2, <3>3
  <2> QED BY <2>1, <2>2
<1>5. \A i : Loaded(i)' <=> Loaded(i) BY <1>4 DEF Loaded
<1>6. /\ binding' \in [Tilesets -> {Absent} \union 0..(nextId' - 1)]
      /\ binding'[t] = id /\ \A u \in Tilesets : u # t => binding'[u] = binding[u]
  <2>1. id \in 0..(nextId - 1) BY <1>2 DEF TexturesInv
  <2> QED BY <1>2, <1>3, <2>1 DEF TexturesInv
<1>7. \A u \in Tilesets : Loaded(binding[u])' => IsOf(images'[binding'[u]], u)
  <2> SUFFICES ASSUME NEW u \in Tilesets, Loaded(binding[u])' PROVE IsOf(images'[binding'[u]], u)
    OBVIOUS
  <2> DEFINE j == binding'[u]
  <2>1. Loaded(j) /\ j \in DOMAIN images BY <1>4 DEF Loaded
  <2>2. CASE u = t
    <3>1. j = id BY <1>6, <2>2
    <3> QED BY <1>2, <1>4, <2>1, <2>2, <3>1 DEF IsOf
  <2>3. CASE u # t
    <3>1. j = binding[u] BY <1>6, <2>3
    <3>2. images[j].url = ImageOf[u] /\ images[j].grid = GridOf[u]
      BY <2>1, <3>1 DEF TexturesInv, IsOf
    <3>3. CASE j = id
      <4>1. ImageOf[t] = ImageOf[u] BY <1>2, <2>1, <3>2, <3>3
      <4>2. GridOf[t] = GridOf[u] BY <1>2, <4>1 DEF OneGridPerImage
      <4> QED BY <1>4, <2>1, <3>2, <3>3, <4>2 DEF IsOf
    <3>4. CASE j # id BY <1>4, <2>1, <3>2, <3>4 DEF IsOf
    <3> QED BY <3>3, <3>4
  <2> QED BY <2>2, <2>3
<1>8. \A u \in ToSet(waiting') : binding'[u] # Absent
  <2>1. id # Absent BY <1>2 DEF TexturesInv, Absent
  <2>2. ToSet(waiting) \subseteq Tilesets
    <3>1. waiting \in Seq(Tilesets) BY DEF TexturesInv
    <3>2. \A s \in Seq(Tilesets) : ToSet(s) \subseteq Tilesets BY DEF ToSet
    <3> QED BY <3>1, <3>2
  <2> QED BY <1>3, <1>6, <2>1, <2>2 DEF TexturesInv
<1>9. \A i \in 1..Len(resolved') :
        Loaded(resolved[i][2])' => images'[resolved'[i][2]].url = ImageOf[resolved'[i][1]]
  <2> TAKE i \in 1..Len(resolved')
  <2>1. i + 1 \in 1..Len(r) /\ resolved'[i] = r[i + 1] BY <1>1, <1>3
  <2> DEFINE k == r[i + 1][2]
  <2>2. Loaded(k) => images[k].url = ImageOf[r[i + 1][1]] BY <2>1 DEF TexturesInv, r
  <2> QED BY <1>4, <1>5, <2>1, <2>2 DEF Loaded
<1>10. OneTexturePerUrl' BY <1>3, <1>4 DEF TexturesInv, OneTexturePerUrl, Loaded
<1>11. resolved' \in Seq(Tilesets \X (1..(nextId' - 1))) BY <1>1, <1>3
<1>12. \A i \in DOMAIN images' : images'[i].url \in Url BY <1>4 DEF TexturesInv
<1> QED BY <1>3, <1>4, <1>6, <1>7, <1>8, <1>9, <1>10, <1>11, <1>12 DEF TexturesInv

\* A texture is disposed of, and its url with it.
LEMMA DisposeKeeps == ASSUME TexturesInv, NEW id \in DOMAIN images, DisposeTexture(id) PROVE TexturesInv'
<1>1. /\ DOMAIN images' = DOMAIN images \ {id}
      /\ \A i \in DOMAIN images' : images'[i] = images[i]
      /\ byUrl' = [byUrl EXCEPT ![images[id].url] = 0] /\ resolved = << >>
      /\ UNCHANGED <<loading, waiting, resolved, binding, nextId>>
  BY DEF DisposeTexture, Restrict, NoMicrotask
<1>2. \A i \in DOMAIN images : i # id => images[i].url # images[id].url
  BY DEF TexturesInv, OneTexturePerUrl
<1>3. images[id].url \in Url /\ byUrl \in [Url -> 0..(nextId - 1)] /\ 0 \in 0..(nextId - 1)
  BY DEF TexturesInv
<1>4. /\ byUrl' \in [Url -> 0..(nextId' - 1)]
      /\ byUrl'[images[id].url] = 0
      /\ \A v \in Url : v # images[id].url => byUrl'[v] = byUrl[v]
  BY <1>1, <1>3
<1>5. OneTexturePerUrl'
  <2>1. \A i \in DOMAIN images' : byUrl'[images'[i].url] = i
    BY <1>1, <1>2, <1>4 DEF TexturesInv, OneTexturePerUrl
  <2>2. \A v \in Url : byUrl'[v] # 0 => Loaded(byUrl[v])' /\ images'[byUrl'[v]].url = v
    <3> SUFFICES ASSUME NEW v \in Url, byUrl'[v] # 0
                 PROVE  Loaded(byUrl[v])' /\ images'[byUrl'[v]].url = v
      OBVIOUS
    <3>1. v # images[id].url /\ byUrl'[v] = byUrl[v] BY <1>4
    <3>2. byUrl[v] \in DOMAIN images /\ images[byUrl[v]].url = v
      BY <3>1 DEF TexturesInv, OneTexturePerUrl, Loaded
    <3>3. byUrl[v] # id BY <3>1, <3>2
    <3> QED BY <1>1, <3>1, <3>2, <3>3 DEF Loaded
  <2>3. \A v \in loading' : byUrl'[v] = 0 BY <1>1, <1>4 DEF TexturesInv, OneTexturePerUrl
  <2> QED BY <2>1, <2>2, <2>3 DEF OneTexturePerUrl
<1>6. \A t \in Tilesets : Loaded(binding[t])' => IsOf(images'[binding'[t]], t)
  BY <1>1 DEF TexturesInv, Loaded
<1>7. Len(resolved') = 0
  <2>1. Len(<< >>) = 0 OBVIOUS
  <2> QED BY <1>1, <2>1
<1>8. \A i \in 1..Len(resolved') :
        Loaded(resolved[i][2])' => images'[resolved'[i][2]].url = ImageOf[resolved'[i][1]]
  BY <1>7
<1> QED BY <1>1, <1>4, <1>5, <1>6, <1>8 DEF TexturesInv

\* A frame registers the tilesets that are absent: some wait for their image, the others
\* will be bound to the texture it has.
LEMMA RegisterAllKeeps == ASSUME TexturesInv, NoMicrotask, RegisterAll PROVE TexturesInv'
<1> DEFINE absent == Kept(Tileset, {t \in Tilesets : binding[t] = Absent})
           known == {t \in Tilesets : byUrl[ImageOf[t]] # 0}
           cached == Kept(absent, known)
           asking == Kept(absent, Tilesets \ known)
           m == Len(cached)
           new == [i \in DOMAIN cached |-> <<cached[i], byUrl[ImageOf[cached[i]]]>>]
<1>1. absent \in Seq(Tilesets) /\ IsInjective(absent) /\ \A t \in ToSet(absent) : binding[t] = Absent
  BY TilesetsAre, KeptAre
<1>2. /\ binding' = [t \in Tilesets |-> IF binding[t] = Absent THEN Unready ELSE binding[t]]
      /\ loading' = loading \union {u \in {ImageOf[t] : t \in Range(absent)} : byUrl[u] = 0}
      /\ waiting' = waiting \o asking /\ resolved' = << >> \o new
      /\ UNCHANGED <<images, byUrl, nextId>>
  BY DEF RegisterAll, Load, NoMicrotask
<1> HIDE DEF absent
<1>3. /\ cached \in Seq(Tilesets) /\ ToSet(cached) \subseteq known
      /\ asking \in Seq(Tilesets) /\ IsInjective(asking) /\ ToSet(asking) \subseteq ToSet(absent)
  BY <1>1, KeptAre
<1> HIDE DEF cached, asking
<1>4. DOMAIN cached = 1..m /\ m \in Nat /\ \A i \in 1..m : cached[i] \in known BY <1>3 DEF ToSet
<1>5. ASSUME NEW t \in known
      PROVE  /\ t \in Tilesets /\ byUrl[ImageOf[t]] \in 1..(nextId - 1)
             /\ images[byUrl[ImageOf[t]]].url = ImageOf[t]
  <2>1. t \in Tilesets /\ ImageOf[t] \in Url /\ byUrl[ImageOf[t]] # 0 BY TilesetsAre
  <2>2. byUrl[ImageOf[t]] \in 0..(nextId - 1) BY <2>1 DEF TexturesInv
  <2> QED BY <2>1, <2>2 DEF TexturesInv, OneTexturePerUrl
<1> HIDE DEF known, m
<1>6. new \in Seq(Tilesets \X (1..(nextId - 1))) /\ Len(new) = m
  <2>1. new = [i \in 1..m |-> <<cached[i], byUrl[ImageOf[cached[i]]]>>] BY <1>4
  <2>2. \A i \in 1..m : <<cached[i], byUrl[ImageOf[cached[i]]]>> \in Tilesets \X (1..(nextId - 1))
    BY <1>4, <1>5
  <2> HIDE DEF new
  <2> QED BY <1>4, <2>1, <2>2
<1>7. \A i \in 1..m : new[i] = <<cached[i], byUrl[ImageOf[cached[i]]]>> BY <1>4
<1> HIDE DEF new
<1>8. resolved' = new BY <1>2, <1>6
<1>9. \A i \in 1..Len(resolved') :
        Loaded(resolved[i][2])' => images'[resolved'[i][2]].url = ImageOf[resolved'[i][1]]
  BY <1>2, <1>4, <1>5, <1>6, <1>7, <1>8
<1>10. resolved' \in Seq(Tilesets \X (1..(nextId' - 1))) BY <1>2, <1>6, <1>8
<1>11. /\ waiting' \in Seq(Tilesets) /\ IsInjective(waiting')
       /\ ToSet(waiting') = ToSet(waiting) \union ToSet(asking)
  <2>1. waiting \in Seq(Tilesets) /\ IsInjective(waiting) BY DEF TexturesInv
  <2>2. ToSet(waiting) \intersect ToSet(asking) = {} BY <1>1, <1>3 DEF TexturesInv
  <2> QED BY <1>2, <1>3, <2>1, <2>2, JoinedAlone
<1>12. /\ \A t \in Tilesets : /\ binding'[t] # Absent
                              /\ binding'[t] = binding[t] \/ binding'[t] = Unready
       /\ binding' \in [Tilesets -> {Absent} \union 0..(nextId' - 1)]
  <2>1. Unready \in 0..(nextId - 1) /\ Unready # Absent BY DEF TexturesInv, Unready, Absent
  <2> QED BY <1>2, <2>1 DEF TexturesInv
<1>13. \A t \in ToSet(waiting') : binding'[t] # Absent
  <2>1. \A s \in Seq(Tilesets) : ToSet(s) \subseteq Tilesets BY DEF ToSet
  <2> QED BY <1>11, <1>12, <2>1
<1>14. \A t \in Tilesets : Loaded(binding[t])' => IsOf(images'[binding'[t]], t)
  <2> TAKE t \in Tilesets
  <2>1. CASE binding'[t] = binding[t] BY <1>2, <2>1 DEF TexturesInv, Loaded
  <2>2. CASE binding'[t] = Unready
    <3>1. ~Loaded(Unready) BY LoadedIsTexture DEF Unready
    <3> QED BY <1>2, <2>2, <3>1 DEF Loaded
  <2> QED BY <1>12, <2>1, <2>2
<1>15. loading' \subseteq Url
  <2>1. \A t \in Range(absent) : t \in Tilesets BY <1>1 DEF Range
  <2> QED BY <1>2, <2>1, TilesetsAre DEF TexturesInv
<1>16. OneTexturePerUrl' BY <1>2 DEF TexturesInv, OneTexturePerUrl, Loaded
<1> QED BY <1>2, <1>9, <1>10, <1>11, <1>12, <1>13, <1>14, <1>15, <1>16 DEF TexturesInv

\* A step of the textures keeps what is on the screen and in the cache.
LEMMA BackgroundKeeps ==
  ASSUME TilesInv, OneGridPerImage, Background, UNCHANGED layerVars PROVE TilesInv'
<1>1. TexturesInv'
  BY LoadImageKeeps, ImageArrivesKeeps, ImageFailsKeeps, BindKeeps, DisposeKeeps
     DEF Background, TilesInv
<1> QED BY <1>1 DEF TilesInv, layerVars

\* A frame draws every layer from its tileset's image, or from what was cut from it before.
LEMMA DrawLayersKeeps == ASSUME TilesInv, OneTilesetPerLayer, DrawLayers PROVE TilesInv'
<1> DEFINE id == binding[TilesetOf[map]]
           toDraw == {l \in LayersOf[map] : l.visible /\ Loaded(id)}
           layer(i) == CHOOSE l \in toDraw : l.id = i
           entry(i) == Entry(layer(i), id)
           isDrawn(i) == \E l \in toDraw : l.id = i
<1>1. /\ screen' = [i \in LayerIds |->
            IF ~isDrawn(i) THEN Nothing
            ELSE IF entry(i) = Nothing THEN Painted(layer(i), id) ELSE entry(i).pixels]
      /\ tileLayerCache' = [i \in LayerIds |->
            IF isDrawn(i) /\ entry(i) # Nothing THEN entry(i) ELSE tileLayerCache[i]]
      /\ map' = map
  BY DEF DrawLayers
<1>2. TexturesInv' BY RegisterAllKeeps DEF DrawLayers, TilesInv
<1>3. map \in Map /\ TilesetOf[map] \in Tilesets BY TilesetsAre DEF TilesInv
<1>4. ASSUME NEW i, isDrawn(i)
      PROVE  /\ layer(i) \in LayersOf[map] /\ layer(i).id = i
             /\ IsOf(Painted(layer(i), id).image, TilesetOf[map])
             /\ entry(i) # Nothing => IsOf(entry(i).pixels.image, TilesetOf[map])
  <2>1. layer(i) \in toDraw /\ layer(i).id = i BY <1>4
  <2>2. layer(i) \in LayersOf[map] /\ Loaded(id) BY <2>1
  <2> DEFINE l == layer(i)
  <2>3. IsOf(images[id], TilesetOf[map]) BY <1>3, <2>2 DEF TilesInv, TexturesInv
  <2> HIDE DEF l, id
  <2>4. IsOf(Painted(l, id).image, TilesetOf[map]) BY <2>3 DEF Painted, ImageWith
  <2>5. ASSUME Entry(l, id) # Nothing PROVE IsOf(Entry(l, id).pixels.image, TilesetOf[map])
    <3>1. ~(l.size > Budget) BY <2>5 DEF Entry
    <3>2. CASE Fresh(tileLayerCache[l.id], l, id)
      <4>1. Entry(l, id) = tileLayerCache[l.id] BY <3>1, <3>2 DEF Entry
      <4>2. l \in LayersOf[map] BY <2>2 DEF l
      <4> QED BY <1>3, <2>5, <4>1, <4>2 DEF TilesInv
    <3>3. CASE ~Fresh(tileLayerCache[l.id], l, id)
      <4>1. Entry(l, id) = [revision |-> AtlasRevision(id), size |-> l.size, pixels |-> Painted(l, id)]
        BY <3>1, <3>3 DEF Entry
      <4> QED BY <2>4, <4>1
    <3> QED BY <3>2, <3>3
  <2> QED BY <2>1, <2>2, <2>4, <2>5 DEF l
<1> HIDE DEF isDrawn, entry, layer, toDraw
<1>5. \A m \in Map : \A l \in LayersOf[m] : l.id \in LayerIds BY DEF LayerIds
<1>6. ASSUME NEW l \in LayersOf[map], screen'[l.id] # Nothing
      PROVE  IsOf(screen'[l.id].image, TilesetOf[map])
  <2>1. l.id \in LayerIds BY <1>3, <1>5
  <2>2. isDrawn(l.id) BY <1>1, <1>6, <2>1
  <2> DEFINE i == l.id
  <2>3. screen'[i] = IF entry(i) = Nothing THEN Painted(layer(i), id) ELSE entry(i).pixels
    BY <1>1, <2>1, <2>2
  <2> HIDE DEF i
  <2>4. /\ IsOf(Painted(layer(i), id).image, TilesetOf[map])
        /\ entry(i) # Nothing => IsOf(entry(i).pixels.image, TilesetOf[map])
    BY <1>4, <2>2 DEF i
  <2> QED BY <2>3, <2>4 DEF i
<1>7. ASSUME NEW m \in Map, NEW l \in LayersOf[m], tileLayerCache'[l.id] # Nothing
      PROVE  IsOf(tileLayerCache'[l.id].pixels.image, TilesetOf[m])
  <2> DEFINE i == l.id
  <2>1. i \in LayerIds BY <1>5
  <2>2. tileLayerCache'[i] = IF isDrawn(i) /\ entry(i) # Nothing THEN entry(i) ELSE tileLayerCache[i]
    BY <1>1, <2>1
  <2>3. CASE isDrawn(i) /\ entry(i) # Nothing
    <3>1. /\ layer(i) \in LayersOf[map] /\ layer(i).id = l.id
          /\ IsOf(entry(i).pixels.image, TilesetOf[map])
      BY <1>4, <2>3
    <3>2. TilesetOf[map] = TilesetOf[m] BY <1>3, <3>1 DEF OneTilesetPerLayer
    <3> QED BY <2>2, <2>3, <3>1, <3>2
  <2>4. CASE ~(isDrawn(i) /\ entry(i) # Nothing)
    <3>1. tileLayerCache'[i] = tileLayerCache[i] BY <2>2, <2>4
    <3> QED BY <1>7, <3>1 DEF TilesInv
  <2> QED BY <2>3, <2>4
<1> QED BY <1>1, <1>2, <1>3, <1>6, <1>7 DEF TilesInv

\* Another map: nothing is on the screen, and the cache stays.
LEMMA TransferKeeps == ASSUME TilesInv, NEW m \in Map, Transfer(m) PROVE TilesInv'
<1>1. /\ map' = m /\ screen' = [i \in LayerIds |-> Nothing]
      /\ UNCHANGED <<tileLayerCache, images, byUrl, loading, waiting, resolved, binding, nextId>>
  BY DEF Transfer, textureVars
<1>2. TexturesInv' BY <1>1 DEF TilesInv, TexturesInv, Loaded, OneTexturePerUrl
<1>3. \A l \in LayersOf[m] : l.id \in LayerIds BY DEF LayerIds
<1>4. \A l \in LayersOf[m] : screen'[l.id] = Nothing BY <1>1, <1>3
<1> QED BY <1>1, <1>2, <1>4 DEF TilesInv

\* Nothing is loaded at the start.
LEMMA TilesInvInit == LayersInit => TilesInv
<1> SUFFICES ASSUME LayersInit PROVE TilesInv OBVIOUS
<1>1. /\ images = << >> /\ byUrl = [u \in Url |-> 0] /\ loading = {}
      /\ waiting = << >> /\ resolved = << >> /\ binding = [t \in Tilesets |-> Absent]
      /\ nextId = 1 /\ map = FirstMap
      /\ tileLayerCache = [i \in LayerIds |-> Nothing] /\ screen = [i \in LayerIds |-> Nothing]
  BY DEF LayersInit, TexturesInit
<1>2. DOMAIN << >> = {} /\ Len(<< >>) = 0 OBVIOUS
<1>3. \A S : << >> \in Seq(S) OBVIOUS
<1>4. IsInjective(waiting) /\ ToSet(waiting) = {} BY <1>1, <1>2 DEF IsInjective, ToSet
<1>5. \A t \in Tilesets : ~Loaded(binding[t]) BY <1>1, <1>2 DEF Loaded
<1>6. OneTexturePerUrl BY <1>1, <1>2 DEF OneTexturePerUrl
<1>7. resolved \in Seq(Tilesets \X (1..(nextId - 1))) /\ waiting \in Seq(Tilesets) BY <1>1, <1>3
<1>8. binding \in [Tilesets -> {Absent} \union 0..(nextId - 1)] BY <1>1
<1>9. byUrl \in [Url -> 0..(nextId - 1)] /\ loading \subseteq Url BY <1>1
<1>10. /\ DOMAIN images \subseteq 1..(nextId - 1) /\ \A id : id \notin DOMAIN images
       /\ \A i \in 1..Len(resolved) : FALSE
  BY <1>1, <1>2
<1>11. TexturesInv
  BY <1>1, <1>4, <1>5, <1>6, <1>7, <1>8, <1>9, <1>10 DEF TexturesInv
<1>12. \A m \in Map : \A l \in LayersOf[m] : tileLayerCache[l.id] = Nothing /\ screen[l.id] = Nothing
  BY <1>1 DEF LayerIds
<1> QED BY <1>1, <1>11, <1>12, TilesetsAre DEF TilesInv

\* In a project whose tilesets share no image but with one grid, and whose layers of one id
\* have one tileset: each url has one texture, and no layer on the screen is cut from another
\* image than its own or by another grid, however loads, failures, disposals, microtasks and
\* frames interleave (load, dispose, register, drawTileLayer, getLayerCache).
THEOREM EachIsCutByItsTileset ==
  ASSUME OneGridPerImage, OneTilesetPerLayer PROVE LayersSpec => []CutByItsTileset
<1>1. TilesInv /\ [LayersNext]_tileVars => TilesInv'
  <2> SUFFICES ASSUME TilesInv, [LayersNext]_tileVars PROVE TilesInv' OBVIOUS
  <2>1. CASE UNCHANGED tileVars
    BY <2>1 DEF tileVars, textureVars, layerVars, TilesInv, TexturesInv, Loaded, OneTexturePerUrl
  <2> QED BY <2>1, BackgroundKeeps, DrawLayersKeeps, TransferKeeps DEF LayersNext
<1>2. TilesInv => CutByItsTileset
  <2> SUFFICES ASSUME TilesInv PROVE CutByItsTileset OBVIOUS
  <2>1. Range(waiting) \subseteq Tilesets
    <3>1. waiting \in Seq(Tilesets) BY DEF TilesInv, TexturesInv
    <3>2. \A s \in Seq(Tilesets) : Range(s) \subseteq Tilesets BY DEF Range
    <3> QED BY <3>1, <3>2
  <2>2. LayersTypeOK BY <2>1 DEF LayersTypeOK, TilesInv, TexturesInv
  <2>3. CutFromItsTileset BY DEF CutFromItsTileset, TilesInv, IsOf
  <2> QED BY <2>2, <2>3 DEF CutByItsTileset, TilesInv, TexturesInv
<1> QED BY <1>1, <1>2, TilesInvInit, PTL DEF LayersSpec

-----------------------------------------------------------------------------
(* One quad after the other                                                 *)

\* f gives for every k the batch after k pushes.
Pushes(f, b, q, n) == f = [k \in 0..n |-> IF k = 0 THEN b ELSE Push(f[k - 1], q)]

\* The pushes of a call, one after the other, are a function of their number.
LEMMA PushesExist == ASSUME NEW b, NEW q, NEW n \in Nat PROVE \E f : Pushes(f, b, q, n)
<1> DEFINE S == {k \in 0..n : \E f : Pushes(f, b, q, k)}
<1>1. 0 \in S
  <2>1. Pushes([k \in 0..0 |-> b], b, q, 0) BY DEF Pushes
  <2> QED BY <2>1
<1>2. ASSUME NEW k \in 0..(n - 1), k \in S PROVE k + 1 \in S
  <2>1. PICK f : Pushes(f, b, q, k) BY <1>2
  <2> DEFINE g == [j \in 0..(k + 1) |-> IF j <= k THEN f[j] ELSE Push(f[k], q)]
  <2>2. \A j \in 0..k : f[j] = IF j = 0 THEN b ELSE Push(f[j - 1], q) BY <2>1 DEF Pushes
  <2>3. \A j \in 0..(k + 1) : g[j] = IF j = 0 THEN b ELSE Push(g[j - 1], q)
    <3> TAKE j \in 0..(k + 1)
    <3>1. CASE j = 0 BY <3>1, <2>2
    <3>2. CASE j \in 1..k
      <4>1. g[j] = f[j] /\ g[j - 1] = f[j - 1] BY <3>2
      <4> QED BY <4>1, <3>2, <2>2
    <3>3. CASE j = k + 1
      <4>1. g[j] = Push(f[k], q) /\ g[j - 1] = f[k] /\ j # 0 BY <3>3
      <4> QED BY <4>1
    <3> QED BY <3>1, <3>2, <3>3
  <2>4. g = [j \in 0..(k + 1) |-> IF j = 0 THEN b ELSE Push(g[j - 1], q)]
    <3>1. g = [j \in 0..(k + 1) |-> g[j]] OBVIOUS
    <3> HIDE DEF g
    <3> QED BY <3>1, <2>3
  <2>5. Pushes(g, b, q, k + 1)
    <3> HIDE DEF g
    <3> QED BY <2>4 DEF Pushes
  <2> QED BY <2>5
<1>3. \A k \in 0..n : k \in S
  <2> HIDE DEF S
  <2> QED BY <1>1, <1>2, CountUp
<1> QED BY <1>3

\* f leads from batch b by n pushes of q to what PushTimes gives.
LeadsBy(f, b, q, n) == /\ PushTimes(b, q, n) = f[n] /\ f[0] = b
                       /\ \A k \in 0..(n - 1) : f[k + 1] = Push(f[k], q)

\* So a property of batches that a push preserves holds after any number of them.
LEMMA PushedBatch == ASSUME NEW b, NEW q, NEW n \in Nat PROVE \E f : LeadsBy(f, b, q, n)
<1> DEFINE f == CHOOSE f : Pushes(f, b, q, n)
<1>1. Pushes(f, b, q, n) BY PushesExist
<1>2. PushTimes(b, q, n) = f[n] BY DEF PushTimes, Pushes
<1> HIDE DEF f
<1>3. \A k \in 0..n : f[k] = IF k = 0 THEN b ELSE Push(f[k - 1], q) BY <1>1 DEF Pushes
<1>4. f[0] = b BY <1>3
<1>5. ASSUME NEW k \in 0..(n - 1) PROVE f[k + 1] = Push(f[k], q)
  <2>1. k + 1 \in 0..n /\ k + 1 # 0 /\ (k + 1) - 1 = k OBVIOUS
  <2> QED BY <2>1, <1>3
<1> QED BY <1>2, <1>4, <1>5 DEF LeadsBy

-----------------------------------------------------------------------------
(* Batches                                                                  *)

\* What a texture can show: an image at a revision, white, nothing, or a text; and the
\* records made of it.
Pixels == {<<t, r>> : t \in Image, r \in Nat} \union {Blank, Void} \union {<<s>> : s \in Text}
Quad == [tex : Texture, want : Pixels, under : Seq(Turn)]
DrawnQuad == [want : Pixels, under : Seq(Turn), saw : Pixels]
Upload == [revision : Nat, pixels : Pixels, from : Nat]

\* What is in the context: of this generation, and for its revision the right image.
UploadOK(t, u) == /\ u \in Upload /\ u.from = generation
                  /\ t \in Image => u.pixels = <<t, u.revision>>
                  /\ t = WhiteId => u.pixels = Blank
GLOK(gl) == /\ gl = [t \in Texture |-> gl[t]]
            /\ \A t \in Texture : gl[t] = None \/ UploadOK(t, gl[t])

\* A quad asked for in this frame: cut from the atlas there is, or plainly coloured.
QuadOK(q) == /\ q \in Quad
             /\ q.tex \in Image => q.want = <<q.tex, atlas>>
             /\ q.tex = WhiteId => q.want = Blank

\* The batch against the quads q of the frame so far: the first are drawn as they were
\* wanted, the others wait, all with the texture of the batch.
Batch(b, q) ==
  /\ b.shown \in Seq(DrawnQuad) /\ b.staged \in Seq(Quad) /\ Len(b.staged) <= MaxQuads
  /\ b.tex \in Texture \union {NoTexture} /\ (b.staged = << >> <=> b.tex = NoTexture)
  /\ Len(b.shown) + Len(b.staged) = Len(q)
  /\ \A i \in 1..Len(b.shown) : /\ b.shown[i].want = q[i].want
                                /\ b.shown[i].under = q[i].under
                                /\ q[i].tex # TextId => b.shown[i].saw = q[i].want
  /\ \A i \in 1..Len(b.staged) : /\ b.staged[i] = q[Len(b.shown) + i]
                                 /\ b.staged[i].tex = b.tex /\ QuadOK(b.staged[i])

\* A batch is no more than its four fields.
Fields4(b) == b = [tex |-> b.tex, staged |-> b.staged, gl |-> b.gl, shown |-> b.shown]

\* The constants.
LEMMA FramesNumbers == /\ MaxQuads \in Nat /\ MaxQuads > 0 /\ MaxLosses \in Nat
                       /\ WhiteId \notin Image /\ TextId \notin Image /\ NoTexture \notin Texture
                       /\ WhiteId # TextId
BY FramesAssumption, ContextAssumption DEF WhiteId, TextId, NoTexture, Texture

\* A context gl that is right, with texture t there for revision r.
Ensured(gl, t, r) == GLOK(gl) /\ UploadOK(t, gl[t]) /\ gl[t].revision = r

\* ensureTexture leaves the context right, and the texture there for that revision.
LEMMA EnsuredTexture ==
  ASSUME generation \in Nat, NEW gl, GLOK(gl), NEW t \in Texture, NEW p \in Pixels,
         NEW r \in Nat, t \in Image => p = <<t, r>>, t = WhiteId => p = Blank
  PROVE  /\ Ensured(EnsureTexture(gl, t, p, r, FALSE), t, r)
         /\ Ensured(EnsureTexture(gl, t, p, r, TRUE), t, r)
<1> DEFINE from == IF gl[t] = None THEN generation ELSE gl[t].from
           up == [revision |-> r, pixels |-> p, from |-> from]
           new == [gl EXCEPT ![t] = up]
<1>1. from = generation BY DEF GLOK, UploadOK
<1>2. up \in Upload /\ UploadOK(t, up) /\ up.revision = r BY <1>1 DEF Upload, UploadOK
<1>3. Ensured(new, t, r)
  <2> HIDE DEF up
  <2>1. new = [x \in Texture |-> IF x = t THEN up ELSE gl[x]] BY DEF GLOK
  <2> HIDE DEF new
  <2>2. new[t] = up /\ \A x \in Texture : x # t => new[x] = gl[x] BY <2>1
  <2>3. new = [x \in Texture |-> new[x]] BY <2>1
  <2> QED BY <1>2, <2>2, <2>3 DEF GLOK, Ensured
<1>4. EnsureTexture(gl, t, p, r, TRUE) = new BY DEF EnsureTexture
<1>5. Ensured(EnsureTexture(gl, t, p, r, FALSE), t, r)
  <2>1. CASE gl[t] = None \/ gl[t].revision # r
    <3>1. EnsureTexture(gl, t, p, r, FALSE) = new BY <2>1 DEF EnsureTexture
    <3> QED BY <1>3, <3>1
  <2>2. CASE ~(gl[t] = None \/ gl[t].revision # r)
    <3>1. EnsureTexture(gl, t, p, r, FALSE) = gl BY <2>2 DEF EnsureTexture
    <3>2. UploadOK(t, gl[t]) BY <2>2 DEF GLOK
    <3> QED BY <2>2, <3>1, <3>2 DEF Ensured
  <2> QED BY <2>1, <2>2
<1> QED BY <1>3, <1>4, <1>5

\* A flush draws what waits, as it was wanted.
LEMMA FlushKeeps ==
  ASSUME generation \in Nat, atlas \in Nat, NEW b, NEW q \in Seq(Quad), Fields4(b),
         Batch(b, q), GLOK(b.gl)
  PROVE  /\ Batch(Flush(b), q) /\ GLOK(Flush(b).gl) /\ Fields4(Flush(b))
         /\ Flush(b).staged = << >> /\ Flush(b).tex = NoTexture
<1> USE FramesNumbers
<1>1. CASE b.staged = << >>
  <2>1. Flush(b) = [b EXCEPT !.tex = NoTexture] BY <1>1 DEF Flush
  <2>2. Flush(b) = [tex |-> NoTexture, staged |-> b.staged, gl |-> b.gl, shown |-> b.shown]
    BY <2>1 DEF Fields4
  <2> QED BY <1>1, <2>2 DEF Batch, Fields4
<1>2. CASE b.staged # << >>
  <2> DEFINE t == b.tex
             gl == EnsureTexture(b.gl, t, Source(t), Revision(t), FALSE)
             saw == IF gl[t].from = generation THEN gl[t].pixels ELSE Void
             quads == [i \in DOMAIN b.staged |->
                         [want |-> b.staged[i].want, under |-> b.staged[i].under, saw |-> saw]]
  <2>1. Flush(b) = [tex |-> NoTexture, staged |-> << >>, gl |-> gl, shown |-> b.shown \o quads]
    BY <1>2 DEF Flush
  <2>2. t \in Texture BY <1>2 DEF Batch
  <2>3. /\ Source(t) \in Pixels /\ Revision(t) \in Nat
        /\ t \in Image => Source(t) = <<t, Revision(t)>> /\ Revision(t) = atlas
        /\ t = WhiteId => Source(t) = Blank
    BY <2>2 DEF Source, Revision, Pixels
  <2>4. GLOK(gl) /\ UploadOK(t, gl[t]) /\ gl[t].revision = Revision(t)
    <3>1. Ensured(gl, t, Revision(t)) BY <2>2, <2>3, EnsuredTexture
    <3> QED BY <3>1 DEF Ensured
  <2> HIDE DEF gl
  <2>5. /\ saw = gl[t].pixels /\ saw \in Pixels
        /\ t \in Image => saw = <<t, atlas>>
        /\ t = WhiteId => saw = Blank
    BY <2>3, <2>4 DEF UploadOK, Upload
  <2> HIDE DEF saw
  <2>6. /\ Len(b.staged) \in Nat /\ DOMAIN b.staged = 1..Len(b.staged)
        /\ \A i \in 1..Len(b.staged) : b.staged[i] \in Quad
    BY DEF Batch
  <2>7. \A i \in 1..Len(b.staged) :
          [want |-> b.staged[i].want, under |-> b.staged[i].under, saw |-> saw] \in DrawnQuad
    BY <2>5, <2>6 DEF Quad, DrawnQuad
  <2>8. /\ quads \in Seq(DrawnQuad) /\ Len(quads) = Len(b.staged)
        /\ \A i \in 1..Len(b.staged) : /\ quads[i].want = b.staged[i].want
                                       /\ quads[i].under = b.staged[i].under
                                       /\ quads[i].saw = saw
    BY <2>6, <2>7
  <2> HIDE DEF quads
  <2> DEFINE all == b.shown \o quads
             n == Len(b.shown)
  <2>9. /\ b.shown \in Seq(DrawnQuad) /\ n \in Nat
        /\ all \in Seq(DrawnQuad) /\ Len(all) = n + Len(quads) /\ Len(all) = Len(q)
        /\ \A i \in 1..n : all[i] = b.shown[i]
        /\ \A i \in 1..Len(all) : i > n => i - n \in 1..Len(quads) /\ all[i] = quads[i - n]
    <3>1. b.shown \in Seq(DrawnQuad) BY DEF Batch
    <3>2. n \in Nat BY <3>1
    <3>3. n + Len(b.staged) = Len(q) BY DEF Batch
    <3>4. quads \in Seq(DrawnQuad) BY <2>8
    <3> HIDE DEF all, n
    <3>5. all = b.shown \o quads /\ n = Len(b.shown) BY DEF all, n
    <3>6. /\ all \in Seq(DrawnQuad) /\ Len(all) = n + Len(quads)
          /\ \A i \in 1..n : all[i] = b.shown[i]
          /\ \A i \in 1..Len(all) : i > n => i - n \in 1..Len(quads) /\ all[i] = quads[i - n]
      BY <3>1, <3>4, <3>5, Joined
    <3> QED BY <3>1, <3>2, <3>3, <3>6, <2>8
  <2>10. ASSUME NEW i \in 1..Len(all)
         PROVE  /\ all[i].want = q[i].want /\ all[i].under = q[i].under
                /\ q[i].tex # TextId => all[i].saw = q[i].want
    <3>1. CASE i <= n
      <4>1. i \in 1..n /\ all[i] = b.shown[i] BY <3>1, <2>9
      <4> QED BY <4>1 DEF Batch
    <3>2. CASE i > n
      <4>1. i - n \in 1..Len(b.staged) /\ all[i] = quads[i - n] BY <3>2, <2>8, <2>9
      <4>2. b.staged[i - n] = q[n + (i - n)] /\ b.staged[i - n].tex = t /\ QuadOK(b.staged[i - n])
        BY <4>1 DEF Batch
      <4>3. n + (i - n) = i BY <2>9
      <4>4. t \in Image \union {WhiteId, TextId} BY <2>2 DEF Texture
      <4> QED BY <4>1, <4>2, <4>3, <4>4, <2>5, <2>8 DEF QuadOK
    <3> QED BY <3>1, <3>2, <2>9
  <2> HIDE DEF all
  <2>11. Flush(b).shown = all /\ Flush(b).staged = << >> /\ Flush(b).tex = NoTexture
         /\ Flush(b).gl = gl /\ Fields4(Flush(b))
    BY <2>1 DEF all, Fields4
  <2>12. Len(Flush(b).staged) = 0 /\ Len(Flush(b).shown) + 0 = Len(q) BY <2>9, <2>11
  <2> HIDE DEF n
  <2>13. Batch(Flush(b), q)
    <3>1. \A i \in 1..Len(Flush(b).staged) : FALSE BY <2>12
    <3>2. Len(Flush(b).staged) <= MaxQuads BY <2>12
    <3>3. Flush(b).staged \in Seq(Quad) BY <2>11
    <3> QED BY <2>9, <2>10, <2>11, <2>12, <3>1, <3>2, <3>3 DEF Batch
  <2> QED BY <2>4, <2>11, <2>13
<1> QED BY <1>1, <1>2

\* A batch that is right: its fields, its quads against those of the frame, its context.
Right(b, q) == Fields4(b) /\ Batch(b, q) /\ GLOK(b.gl)

\* A push keeps it right for the frame with one quad more.
LEMMA PushKeeps ==
  ASSUME generation \in Nat, atlas \in Nat, NEW b, NEW q \in Seq(Quad), Right(b, q),
         NEW quad, QuadOK(quad)
  PROVE  Right(Push(b, quad), Append(q, quad))
<1> USE FramesNumbers
<1> DEFINE other == IF b.tex \notin {NoTexture, quad.tex} THEN Flush(b) ELSE b
           ready == IF Len(other.staged) >= MaxQuads THEN Flush(other) ELSE other
<1>1. Right(other, q) /\ other.tex \in {NoTexture, quad.tex}
  <2>1. CASE b.tex \notin {NoTexture, quad.tex}
    <3>1. other = Flush(b) BY <2>1
    <3> QED BY <3>1, FlushKeeps DEF Right
  <2>2. CASE b.tex \in {NoTexture, quad.tex}
    <3>1. other = b BY <2>2
    <3> QED BY <3>1, <2>2
  <2> QED BY <2>1, <2>2
<1> HIDE DEF other
<1>2. /\ Right(ready, q) /\ ready.tex \in {NoTexture, quad.tex}
      /\ Len(ready.staged) < MaxQuads /\ ready.staged \in Seq(Quad)
  <2>1. CASE Len(other.staged) >= MaxQuads
    <3>1. ready = Flush(other) BY <2>1
    <3>2. Right(Flush(other), q) /\ Flush(other).staged = << >> /\ Flush(other).tex = NoTexture
      BY <1>1, FlushKeeps DEF Right
    <3>3. ready.staged = << >> /\ Len(ready.staged) = 0 BY <3>1, <3>2
    <3>4. Len(ready.staged) < MaxQuads BY <3>3
    <3>5. ready.staged \in Seq(Quad)
      <4>1. << >> \in Seq(Quad) OBVIOUS
      <4> HIDE DEF ready
      <4> QED BY <3>3, <4>1
    <3> HIDE DEF ready
    <3> QED BY <3>1, <3>2, <3>4, <3>5
  <2>2. CASE ~(Len(other.staged) >= MaxQuads)
    <3>1. ready = other BY <2>2
    <3>2. other.staged \in Seq(Quad) BY <1>1 DEF Right, Batch
    <3> QED BY <3>1, <3>2, <1>1, <2>2
  <2> QED BY <2>1, <2>2
<1>3. Push(b, quad) = [ready EXCEPT !.tex = quad.tex, !.staged = Append(@, quad)]
  BY DEF Push, other
<1> HIDE DEF ready
<1>4. Push(b, quad) = [tex |-> quad.tex, staged |-> Append(ready.staged, quad),
                       gl |-> ready.gl, shown |-> ready.shown]
  <2>1. ready = [tex |-> ready.tex, staged |-> ready.staged, gl |-> ready.gl, shown |-> ready.shown]
    BY <1>2 DEF Right, Fields4
  <2> QED BY <1>3, <2>1
<1> DEFINE next == Push(b, quad)
           old == ready.staged
           n == Len(ready.shown)
           more == Append(q, quad)
<1>5. /\ next.tex = quad.tex /\ next.staged = Append(old, quad) /\ next.gl = ready.gl
      /\ next.shown = ready.shown /\ Fields4(next)
  BY <1>4 DEF Fields4
<1>6. quad \in Quad /\ quad.tex \in Texture /\ quad.tex # NoTexture BY DEF QuadOK, Quad
<1>7. /\ old \in Seq(Quad) /\ Len(old) \in Nat /\ Len(q) \in Nat
      /\ Append(old, quad) \in Seq(Quad) /\ Len(Append(old, quad)) = Len(old) + 1
      /\ \A i \in 1..Len(old) : Append(old, quad)[i] = old[i]
      /\ Append(old, quad)[Len(old) + 1] = quad
  BY <1>2, <1>6
<1>8. /\ Len(more) = Len(q) + 1 /\ more[Len(q) + 1] = quad
      /\ \A i \in 1..Len(q) : more[i] = q[i]
  BY <1>6
<1>9. Batch(ready, q) /\ n \in Nat /\ n + Len(old) = Len(q)
  <2>1. Batch(ready, q) BY <1>2 DEF Right
  <2>2. ready.shown \in Seq(DrawnQuad) BY <2>1 DEF Batch
  <2>3. n \in Nat BY <2>2
  <2>4. n + Len(old) = Len(q) BY <2>1 DEF Batch
  <2> QED BY <2>1, <2>3, <2>4
<1> DEFINE ln == Len(old)
           lq == Len(q)
<1>a. ln \in Nat /\ lq \in Nat /\ n \in Nat /\ n + ln = lq BY <1>7, <1>9
<1> HIDE DEF next, more, n, ln, lq
<1>b. /\ \A i \in 1..n : i \in 1..lq
      /\ \A i \in 1..ln : n + i \in 1..lq
      /\ n + (ln + 1) = lq + 1 /\ ln + 1 > 0
  BY <1>a
<1>c. /\ Len(next.staged) = ln + 1 /\ next.staged[ln + 1] = quad
      /\ \A i \in 1..ln : next.staged[i] = old[i]
  BY <1>5, <1>7 DEF ln
<1>d. Len(more) = lq + 1 /\ more[lq + 1] = quad /\ \A i \in 1..lq : more[i] = q[i]
  BY <1>8 DEF lq
<1>10. \A i \in 1..n : /\ next.shown[i].want = more[i].want /\ next.shown[i].under = more[i].under
                       /\ more[i].tex # TextId => next.shown[i].saw = more[i].want
  <2> TAKE i \in 1..n
  <2>1. i \in 1..lq /\ i \in 1..Len(ready.shown) BY <1>b DEF n
  <2> QED BY <2>1, <1>5, <1>9, <1>d DEF Batch
<1>11. \A i \in 1..Len(next.staged) : /\ next.staged[i] = more[n + i]
                                      /\ next.staged[i].tex = next.tex /\ QuadOK(next.staged[i])
  <2> TAKE i \in 1..Len(next.staged)
  <2>1. CASE i \in 1..ln
    <3>1. i \in 1..Len(ready.staged) BY <2>1 DEF ln
    <3>2. old[i] = q[n + i] /\ old[i].tex = ready.tex /\ QuadOK(old[i])
      BY <3>1, <1>9 DEF Batch, n
    <3>3. ready.tex = quad.tex
      <4>1. old # << >> BY <3>1
      <4> QED BY <4>1, <1>2, <1>9 DEF Batch
    <3>4. more[n + i] = q[n + i] BY <2>1, <1>b, <1>d
    <3> QED BY <2>1, <3>2, <3>3, <3>4, <1>5, <1>c
  <2>2. CASE i = ln + 1
    <3>1. next.staged[i] = quad /\ n + i = lq + 1 BY <2>2, <1>b, <1>c
    <3> QED BY <3>1, <1>5, <1>d
  <2>3. i \in 1..(ln + 1) BY <1>c
  <2>4. i \in 1..ln \/ i = ln + 1 BY <2>3, <1>a
  <2> QED BY <2>1, <2>2, <2>4
<1>12. Batch(next, more)
  <2>1. next.shown \in Seq(DrawnQuad) BY <1>5, <1>9 DEF Batch
  <2>2. next.staged \in Seq(Quad) BY <1>5, <1>7
  <2>3. Len(next.staged) <= MaxQuads
    <3>1. ln < MaxQuads BY <1>2 DEF ln
    <3> QED BY <3>1, <1>a, <1>c
  <2>4. next.staged # << >> BY <1>b, <1>c
  <2>5. Len(next.shown) = n BY <1>5 DEF n
  <2>6. Len(next.shown) + Len(next.staged) = Len(more) BY <2>5, <1>b, <1>c, <1>d
  <2>7. next.tex \in Texture \union {NoTexture} /\ next.tex # NoTexture BY <1>5, <1>6
  <2> QED BY <1>10, <1>11, <2>1, <2>2, <2>3, <2>4, <2>5, <2>6, <2>7 DEF Batch
<1> QED BY <1>2, <1>5, <1>12 DEF Right, next, more

\* So do the pushes of a call, for the frame with all of them.
LEMMA PushTimesKeeps ==
  ASSUME generation \in Nat, atlas \in Nat, NEW b, NEW q \in Seq(Quad), Right(b, q),
         NEW quad, QuadOK(quad), NEW n \in Nat
  PROVE  Right(PushTimes(b, quad, n), q \o [i \in 1..n |-> quad])
<1> DEFINE with(k) == q \o [i \in 1..k |-> quad]
<1>0. PICK f : LeadsBy(f, b, quad, n) BY PushedBatch
<1>1. /\ PushTimes(b, quad, n) = f[n] /\ f[0] = b
      /\ \A k \in 0..(n - 1) : f[k + 1] = Push(f[k], quad)
  BY <1>0 DEF LeadsBy
<1> DEFINE S == {k \in 0..n : Right(f[k], with(k))}
<1>2. quad \in Quad BY DEF QuadOK
<1>3. with(0) = q
  <2>1. [i \in 1..0 |-> quad] = << >> OBVIOUS
  <2> QED BY <2>1
<1>4. ASSUME NEW k \in 0..(n - 1)
      PROVE  with(k) \in Seq(Quad) /\ with(k + 1) = Append(with(k), quad)
  <2>1. [i \in 1..k |-> quad] \in Seq(Quad) BY <1>2
  <2>2. [i \in 1..(k + 1) |-> quad] = Append([i \in 1..k |-> quad], quad) OBVIOUS
  <2>3. q \o Append([i \in 1..k |-> quad], quad) = Append(q \o [i \in 1..k |-> quad], quad)
    BY <1>2, <2>1
  <2> QED BY <2>1, <2>2, <2>3
<1> HIDE DEF with
<1>5. 0 \in S BY <1>1, <1>3
<1>6. ASSUME NEW k \in 0..(n - 1), k \in S PROVE k + 1 \in S
  <2>1. Right(f[k], with(k)) BY <1>6
  <2>2. Right(Push(f[k], quad), Append(with(k), quad)) BY <2>1, <1>4, PushKeeps
  <2>3. f[k + 1] = Push(f[k], quad) /\ with(k + 1) = Append(with(k), quad) BY <1>1, <1>4
  <2>4. Right(f[k + 1], with(k + 1)) BY <2>2, <2>3
  <2>5. k + 1 \in 0..n OBVIOUS
  <2> QED BY <2>4, <2>5
<1>7. n \in S
  <2> HIDE DEF S
  <2>1. \A k \in 0..n : k \in S BY <1>5, <1>6, CountUp
  <2> QED BY <2>1
<1> QED BY <1>1, <1>7 DEF with

-----------------------------------------------------------------------------
(* Frames                                                                   *)

\* The context: what SwapsOnce rests on, and where a watchdog comes from.
ContextInv == /\ held \in Backend \union {Unmade} /\ generation \in 0..MaxLosses
              /\ swaps \in {0, 1} /\ SwapsOnce
              /\ held = Unmade => ~watchdog /\ swaps = 0

\* The batch between two calls, and what the renderer has of the frame.
FramesNow == [tex |-> batchTex, staged |-> staged, gl |-> glTex, shown |-> shown]
FramesInv == /\ ContextInv
             /\ atlas \in Nat /\ texts \in Nat /\ stack \in Seq(Turn) /\ spare = << >>
             /\ asked \in Seq(Quad) /\ Batch(FramesNow, asked)
             /\ ~lost => GLOK(glTex)
             /\ lost \/ ~inFrame => staged = << >>

\* Steps of the context keep its part of the invariant.
LEMMA ContextKeeps ==
  ASSUME ContextInv, [ContextNext]_contextVars
  PROVE  ContextInv'
<1> USE FramesNumbers DEF ContextInv, SwapsOnce, Backend, Unmade
<1>1. ASSUME NEW a \in SUBSET Backend, Create(a) PROVE ContextInv' BY <1>1 DEF Create
<1>2. ASSUME NEW k \in Backend, CreateFromContext(k) PROVE ContextInv'
  BY <1>2 DEF CreateFromContext
<1>3. CASE ContextLost BY <1>3 DEF ContextLost, Listening, OnWebGL
<1>4. CASE ContextRestored BY <1>4 DEF ContextRestored, Listening, OnWebGL
<1>5. CASE Dispose BY <1>5 DEF Dispose, Listening, OnWebGL
<1>6. ASSUME NEW ok \in BOOLEAN, RestoreFails(ok) PROVE ContextInv'
  BY <1>6 DEF RestoreFails, Unrecoverable, Listening, OnWebGL
<1>7. ASSUME NEW ok \in BOOLEAN, WatchdogFires(ok) PROVE ContextInv'
  BY <1>7 DEF WatchdogFires, Unrecoverable
<1>8. CASE UNCHANGED contextVars BY <1>8 DEF contextVars
<1> QED BY <1>1, <1>2, <1>3, <1>4, <1>5, <1>6, <1>7, <1>8 DEF ContextNext

\* A batch without quads is right for a frame without quads.
LEMMA EmptyFrame ==
  ASSUME NEW b, b.staged = << >>, b.shown = << >>, b.tex = NoTexture
  PROVE  Batch(b, << >>)
<1>1. Len(b.staged) = 0 /\ Len(b.shown) = 0 /\ Len(<< >>) = 0 OBVIOUS
<1>2. b.shown \in Seq(DrawnQuad) /\ b.staged \in Seq(Quad) OBVIOUS
<1>3. \A i \in 1..0 : FALSE OBVIOUS
<1> QED BY <1>1, <1>2, <1>3, FramesNumbers DEF Batch

\* A context without textures is right.
LEMMA NoTextures == ASSUME NEW gl, gl = [t \in Texture |-> None] PROVE GLOK(gl)
BY DEF GLOK

\* The frame at its start.
LEMMA FramesInvInit == FramesInit => FramesInv
<1> SUFFICES ASSUME FramesInit PROVE FramesInv OBVIOUS
<1>1. ContextInv
  BY FramesNumbers DEF FramesInit, ContextInit, ContextInv, SwapsOnce
<1>2. Batch(FramesNow, asked)
  <2>1. FramesNow.staged = << >> /\ FramesNow.shown = << >> /\ FramesNow.tex = NoTexture
    BY DEF FramesInit, FramesNow
  <2>2. asked = << >> BY DEF FramesInit
  <2> QED BY <2>1, <2>2, EmptyFrame
<1>3. asked \in Seq(Quad) /\ stack \in Seq(Turn) BY DEF FramesInit
<1>4. GLOK(glTex) BY NoTextures DEF FramesInit
<1> QED BY <1>1, <1>2, <1>3, <1>4 DEF FramesInit, FramesInv

\* A call that draws, whatever it draws, keeps the frame as it was asked for.
LEMMA CallKeeps ==
  ASSUME FramesInv, ~lost, inFrame, NEW t, NEW want, NEW n \in Nat, NEW gl, GLOK(gl),
         QuadOK([tex |-> t, want |-> want, under |-> stack]),
         PushQuads(t, want, n, gl), texts' \in Nat,
         UNCHANGED <<contextVars, atlas, stack, inFrame>>
  PROVE  FramesInv'
<1> DEFINE quad == [tex |-> t, want |-> want, under |-> stack]
           before == [tex |-> batchTex, staged |-> staged, gl |-> gl, shown |-> shown]
           after == PushTimes(before, quad, n)
           more == asked \o [i \in 1..n |-> quad]
<1>1. stack = IF stack = << >> THEN spare ELSE stack BY DEF FramesInv
<1>2. /\ batchTex' = after.tex /\ staged' = after.staged /\ glTex' = after.gl
      /\ shown' = after.shown /\ asked' = more /\ spare' = << >>
  BY <1>1 DEF PushQuads, Release
<1>3. Right(before, asked)
  <2>1. Fields4(before) BY DEF Fields4
  <2>2. Batch(FramesNow, asked) BY DEF FramesInv
  <2>3. Batch(before, asked) BY <2>2 DEF Batch, FramesNow
  <2> QED BY <2>1, <2>3 DEF Right
<1>4. generation \in Nat /\ atlas \in Nat /\ asked \in Seq(Quad)
  BY FramesNumbers DEF FramesInv, ContextInv
<1>5. Right(after, more)
  <2>1. QuadOK(quad) OBVIOUS
  <2> HIDE DEF quad, before
  <2> QED BY <1>3, <1>4, <2>1, PushTimesKeeps
<1>6. more \in Seq(Quad)
  <2>1. quad \in Quad BY DEF QuadOK
  <2> HIDE DEF quad
  <2>2. [i \in 1..n |-> quad] \in Seq(Quad) BY <2>1
  <2> QED BY <2>2, <1>4
<1> HIDE DEF after, more
<1>7. generation' = generation /\ atlas' = atlas BY DEF contextVars
<1>8. Batch(FramesNow, asked)'
  <2>1. Batch(after, more) BY <1>5 DEF Right
  <2> QED BY <2>1, <1>2, <1>7 DEF Batch, QuadOK, FramesNow
<1>9. GLOK(glTex)'
  <2>1. GLOK(after.gl) BY <1>5 DEF Right
  <2> QED BY <2>1, <1>2, <1>7 DEF GLOK, UploadOK
<1>10. ContextInv' BY ContextKeeps DEF FramesInv
<1>11. ~lost' /\ inFrame' BY DEF contextVars
<1>12. stack' \in Seq(Turn) /\ atlas' \in Nat BY DEF FramesInv
<1> QED BY <1>2, <1>6, <1>8, <1>9, <1>10, <1>11, <1>12 DEF FramesInv

\* What leaves a frame alone, and the context with it, keeps the invariant.
LEMMA FrameStands ==
  ASSUME FramesInv, [ContextNext]_contextVars, ~inFrame,
         UNCHANGED <<atlas, texts, batchTex, staged, stack, spare, inFrame, asked, shown>>,
         ~lost' => GLOK(glTex)'
  PROVE  FramesInv'
<1>1. ContextInv' BY ContextKeeps DEF FramesInv
<1>2. Batch(FramesNow, asked)'
  <2>1. Batch(FramesNow, asked) BY DEF FramesInv
  <2> QED BY <2>1 DEF Batch, QuadOK, FramesNow
<1>3. staged' = << >> BY DEF FramesInv
<1> QED BY <1>1, <1>2, <1>3 DEF FramesInv

\* An empty batch and no quads asked for.
LEMMA FrameIsEmpty ==
  ASSUME FramesInv, ContextInv', batchTex' = NoTexture, staged' = << >>, asked' = << >>,
         shown' = << >>, atlas' = atlas, texts' = texts, spare' = spare, stack' \in Seq(Turn),
         ~lost' => GLOK(glTex)'
  PROVE  FramesInv'
<1>1. Batch(FramesNow, asked)'
  <2>1. FramesNow'.staged = << >> /\ FramesNow'.shown = << >> /\ FramesNow'.tex = NoTexture
    BY DEF FramesNow
  <2>2. asked' \in Seq(Quad) /\ Len(asked') = 0 /\ Len(<< >>) = 0 OBVIOUS
  <2>3. << >> \in Seq(DrawnQuad) /\ << >> \in Seq(Quad) /\ \A i \in 1..0 : FALSE OBVIOUS
  <2> HIDE DEF FramesNow
  <2> QED BY <2>1, <2>2, <2>3, FramesNumbers DEF Batch
<1>2. asked' \in Seq(Quad) OBVIOUS
<1> QED BY <1>1, <1>2 DEF FramesInv

\* Every step keeps the frame as it was asked for.
LEMMA FramesInvNext == FramesInv /\ [FramesNext]_glVars => FramesInv'
<1> SUFFICES ASSUME FramesInv, [FramesNext]_glVars PROVE FramesInv' OBVIOUS
<1> USE FramesNumbers
<1>0. generation \in Nat /\ atlas \in Nat /\ texts \in Nat /\ stack \in Seq(Turn)
  BY DEF FramesInv, ContextInv
<1>1. CASE BeginFrame
  <2>1. ContextInv' BY <1>1, ContextKeeps DEF BeginFrame, FramesInv
  <2>2. staged' = << >> /\ batchTex' = NoTexture /\ stack' \in Seq(Turn)
    <3>1. CASE lost
      <4>1. staged = << >> BY <3>1 DEF FramesInv
      <4>2. batchTex = NoTexture BY <4>1 DEF FramesInv, Batch, FramesNow
      <4> QED BY <1>0, <1>1, <3>1, <4>1, <4>2 DEF BeginFrame
    <3>2. CASE ~lost
      <4>1. staged' = << >> /\ batchTex' = NoTexture /\ stack' = << >>
        BY <1>1, <3>2 DEF BeginFrame
      <4> QED BY <4>1
    <3> QED BY <3>1, <3>2
  <2>3. ~lost' => GLOK(glTex)'
    BY <1>1 DEF BeginFrame, FramesInv, contextVars, GLOK, UploadOK
  <2> QED BY <1>1, <2>1, <2>2, <2>3, FrameIsEmpty DEF BeginFrame
<1>2. CASE EndFrame
  <2> DEFINE b == Flush(FramesNow)
  <2>1. ContextInv' BY <1>2, ContextKeeps DEF EndFrame, FramesInv
  <2>2. generation' = generation /\ atlas' = atlas /\ lost' = lost
    BY <1>2 DEF EndFrame, contextVars
  <2>3. CASE lost
    <3>1. staged = << >> BY <2>3 DEF FramesInv
    <3>2. Batch(FramesNow, asked) BY DEF FramesInv
    <3>3. Batch(FramesNow, asked)'
      <4>1. UNCHANGED <<batchTex, staged, glTex, shown, asked>> BY <1>2, <2>3 DEF EndFrame
      <4>2. FramesNow' = FramesNow BY <4>1 DEF FramesNow
      <4> HIDE DEF FramesNow
      <4> QED BY <3>2, <4>1, <4>2, <2>2 DEF Batch, QuadOK
    <3> QED BY <1>0, <1>2, <2>1, <2>2, <2>3, <3>1, <3>3 DEF EndFrame, FramesInv
  <2>4. CASE ~lost
    <3>1. Right(FramesNow, asked)
      <4>1. Fields4(FramesNow) BY DEF Fields4, FramesNow
      <4>2. GLOK(FramesNow.gl) BY <2>4 DEF FramesInv, FramesNow
      <4> QED BY <4>1, <4>2 DEF FramesInv, Right
    <3>2. asked \in Seq(Quad) BY DEF FramesInv
    <3>3. Right(b, asked) /\ b.staged = << >>
      <4> HIDE DEF b
      <4>1. Batch(FramesNow, asked) /\ GLOK(FramesNow.gl) /\ Fields4(FramesNow)
        BY <3>1 DEF Right
      <4> QED BY <1>0, <3>2, <4>1, FlushKeeps DEF Right, b
    <3>4. /\ batchTex' = b.tex /\ staged' = b.staged /\ glTex' = b.gl /\ shown' = b.shown
          /\ UNCHANGED <<texts, stack, spare, asked>>
      BY <1>2, <2>4 DEF EndFrame, FramesNow
    <3> HIDE DEF b
    <3>5. Batch(FramesNow, asked)'
      <4>1. Batch(b, asked) BY <3>3 DEF Right
      <4> QED BY <4>1, <2>2, <3>4 DEF Batch, QuadOK, FramesNow
    <3>6. GLOK(glTex)'
      <4>1. GLOK(b.gl) BY <3>3 DEF Right
      <4> QED BY <4>1, <2>2, <3>4 DEF GLOK, UploadOK
    <3> QED BY <1>0, <2>1, <2>2, <3>2, <3>3, <3>4, <3>5, <3>6 DEF FramesInv
  <2> QED BY <2>3, <2>4
<1>3. ASSUME NEW s \in Seq(Turn), stack' = s,
             UNCHANGED <<contextVars, atlas, glTex, texts, batchTex, staged, spare, inFrame,
                         asked, shown>>
      PROVE  FramesInv'
  <2>1. ContextInv' BY <1>3, ContextKeeps DEF FramesInv
  <2>2. Batch(FramesNow, asked)'
    <3>1. Batch(FramesNow, asked) BY DEF FramesInv
    <3> QED BY <3>1, <1>3 DEF Batch, QuadOK, FramesNow
  <2>3. ~lost' => GLOK(glTex)'
    BY <1>3 DEF FramesInv, contextVars, GLOK, UploadOK
  <2>4. lost' = lost BY <1>3 DEF contextVars
  <2> QED BY <1>3, <2>1, <2>2, <2>3, <2>4 DEF FramesInv
<1>4. ASSUME NEW x \in Turn, PushTransform(x) PROVE FramesInv'
  <2>1. <<x>> \in Seq(Turn) OBVIOUS
  <2> QED BY <1>3, <1>4, <2>1 DEF PushTransform
<1>5. CASE PopTransform
  <2>1. Front(stack) \in Seq(Turn) BY <1>0, <1>5 DEF PopTransform, Front
  <2> QED BY <1>3, <1>5, <2>1 DEF PopTransform
<1>6. CASE AtlasChanges
  <2>1. staged = << >> /\ asked \in Seq(Quad) BY <1>6 DEF AtlasChanges, FramesInv
  <2>2. ContextInv' BY <1>6, ContextKeeps DEF AtlasChanges, FramesInv
  <2>3. Batch(FramesNow, asked)'
    <3>1. Batch(FramesNow, asked) BY DEF FramesInv
    <3>2. \A i \in 1..Len(staged) : FALSE BY <2>1
    <3>3. UNCHANGED <<batchTex, staged, asked, shown>> BY <1>6 DEF AtlasChanges
    <3>4. /\ FramesNow'.tex = FramesNow.tex /\ FramesNow'.staged = staged
          /\ FramesNow.staged = staged /\ FramesNow'.shown = FramesNow.shown
      BY <3>3 DEF FramesNow
    <3> HIDE DEF FramesNow
    <3> QED BY <3>1, <3>2, <3>3, <3>4 DEF Batch
  <2>4. ~lost' => GLOK(glTex)'
    BY <1>6 DEF AtlasChanges, FramesInv, contextVars, GLOK, UploadOK
  <2>5. atlas' \in Nat BY <1>0, <1>6 DEF AtlasChanges
  <2> QED BY <1>6, <2>1, <2>2, <2>3, <2>4, <2>5 DEF AtlasChanges, FramesInv
<1>7. CASE Restored
  <2>1. GLOK(glTex)' BY <1>7, NoTextures DEF Restored, TexturesForgotten, GLOK
  <2> QED BY <1>7, <2>1, FrameStands DEF Restored, ContextNext
<1>8. CASE Disposed
  <2>1. GLOK(glTex)' BY <1>8 DEF Disposed, TexturesForgotten, GLOK
  <2>2. staged = << >> BY <1>8 DEF Disposed, FramesInv
  <2>3. batchTex = NoTexture BY <2>2 DEF FramesInv, Batch, FramesNow
  <2>4. ContextNext BY <1>8 DEF Disposed, ContextNext
  <2>5. ContextInv' BY <2>4, ContextKeeps DEF FramesInv
  <2>6. Batch(FramesNow, asked)'
    <3>1. Batch(FramesNow, asked) BY DEF FramesInv
    <3> QED BY <3>1, <2>2, <2>3, <1>8 DEF Batch, QuadOK, FramesNow, Disposed
  <2>7. stack' \in Seq(Turn) /\ staged' = << >> BY <1>8 DEF Disposed
  <2> QED BY <1>8, <2>1, <2>5, <2>6, <2>7 DEF Disposed, FramesInv
<1>9. CASE Quiet
  <2>1. ContextNext BY <1>9 DEF Quiet, ContextNext
  <2>2. ~lost' => GLOK(glTex)'
    <3>1. ASSUME ~lost' PROVE ~lost /\ generation' = generation
      <4>1. ~ContextLost BY <3>1 DEF ContextLost
      <4>2. \A a \in SUBSET Backend : Create(a) => lost' = lost /\ generation' = generation
        BY DEF Create
      <4>3. \A k \in Backend : CreateFromContext(k) => lost' = lost /\ generation' = generation
        BY DEF CreateFromContext
      <4>4. lost' = lost /\ generation' = generation
        BY <1>9, <4>1, <4>2, <4>3 DEF Quiet, WatchdogFires
      <4> QED BY <3>1, <4>4
    <3> QED BY <1>9, <3>1 DEF Quiet, frameVars, FramesInv, GLOK, UploadOK
  <2> QED BY <1>9, <2>1, <2>2, FrameStands DEF Quiet, frameVars
<1>10. ASSUME NEW x \in Image, NEW n \in 1..MaxCalls, DrawImage(x, n) PROVE FramesInv'
  <2>1. QuadOK([tex |-> x, want |-> <<x, atlas>>, under |-> stack])
    BY <1>0 DEF QuadOK, Quad, Pixels, Texture
  <2>2. ~lost /\ inFrame /\ GLOK(glTex) /\ texts' \in Nat
    BY <1>0, <1>10 DEF DrawImage, MayDraw, Drawing, FramesInv
  <2> QED BY <1>10, <2>1, <2>2, CallKeeps DEF DrawImage
<1>11. ASSUME NEW n \in {1, 4}, DrawRect(n) PROVE FramesInv'
  <2> DEFINE gl == EnsureTexture(glTex, WhiteId, Blank, 0, FALSE)
  <2>1. QuadOK([tex |-> WhiteId, want |-> Blank, under |-> stack])
    BY <1>0 DEF QuadOK, Quad, Pixels, Texture
  <2>2. ~lost /\ inFrame /\ GLOK(glTex) /\ texts' \in Nat
    BY <1>0, <1>11 DEF DrawRect, MayDraw, Drawing, FramesInv
  <2>3. GLOK(gl)
    <3>1. WhiteId \in Texture /\ Blank \in Pixels /\ 0 \in Nat BY DEF Texture, Pixels
    <3> QED BY <1>0, <2>2, <3>1, EnsuredTexture DEF Ensured
  <2> HIDE DEF gl
  <2>4. PushQuads(WhiteId, Blank, n, gl) BY <1>11 DEF DrawRect, gl
  <2> QED BY <1>11, <2>1, <2>2, <2>3, <2>4, CallKeeps DEF DrawRect
<1>12. ASSUME NEW s \in Text, DrawText(s) PROVE FramesInv'
  <2> DEFINE gl == EnsureTexture(glTex, TextId, <<s>>, texts + 1, TRUE)
  <2>1. QuadOK([tex |-> TextId, want |-> <<s>>, under |-> stack])
    BY <1>0 DEF QuadOK, Quad, Pixels, Texture
  <2>2. ~lost /\ inFrame /\ GLOK(glTex) /\ texts' \in Nat
    BY <1>0, <1>12 DEF DrawText, MayDraw, Drawing, FramesInv
  <2>3. GLOK(gl)
    <3>1. TextId \in Texture /\ <<s>> \in Pixels /\ texts + 1 \in Nat
      BY <1>0 DEF Texture, Pixels
    <3> QED BY <1>0, <2>2, <3>1, EnsuredTexture DEF Ensured
  <2> HIDE DEF gl
  <2>4. PushQuads(TextId, <<s>>, 1, gl) BY <1>12 DEF DrawText, gl
  <2> QED BY <1>12, <2>1, <2>2, <2>3, <2>4, CallKeeps DEF DrawText
<1>13. CASE UNCHANGED glVars
  BY <1>0, <1>3, <1>13 DEF glVars, frameVars, contextVars
<1> QED BY <1>1, <1>2, <1>4, <1>5, <1>6, <1>7, <1>8, <1>9, <1>10, <1>11, <1>12, <1>13 DEF FramesNext

\* Every quad of a frame is drawn once, in the order of the calls, with the image and the
\* context of the moment, however the batches break and the context comes and goes; and a
\* lost context is swapped for one renderer only (flushBatch, push, ensureTexture,
\* pushQuadRaw, handleUnrecoverableLoss).
THEOREM FramesAreAsAsked == FramesSpec => []FrameIsAsAsked
<1>1. FramesInv => FrameIsAsAsked
  <2> SUFFICES ASSUME FramesInv PROVE FrameIsAsAsked OBVIOUS
  <2>0. Batch(FramesNow, asked) /\ asked \in Seq(Quad) BY DEF FramesInv
  <2>1. FramesTypeOK BY <2>0 DEF FramesInv, ContextInv, FramesTypeOK, Batch, FramesNow
  <2>2. /\ Len(shown) + Len(staged) = Len(asked) /\ Len(shown) \in Nat /\ Len(staged) \in Nat
        /\ DOMAIN shown = 1..Len(shown)
    BY <2>0 DEF Batch, FramesNow
  <2>3. ASSUME NEW i \in 1..Len(asked)
        PROVE  LET q == IF i <= Len(shown) THEN shown[i] ELSE staged[i - Len(shown)]
               IN  q.want = asked[i].want /\ q.under = asked[i].under
    <3>1. CASE i <= Len(shown)
      <4>1. i \in 1..Len(shown) BY <2>2, <3>1
      <4> QED BY <2>0, <3>1, <4>1 DEF Batch, FramesNow
    <3>2. CASE ~(i <= Len(shown))
      <4>1. i - Len(shown) \in 1..Len(staged) /\ Len(shown) + (i - Len(shown)) = i BY <2>2, <3>2
      <4>2. staged[i - Len(shown)] = asked[i] BY <2>0, <4>1 DEF Batch, FramesNow
      <4> QED BY <3>2, <4>2
    <3> QED BY <3>1, <3>2
  <2>4. DrawnInOrder
    <3>1. DOMAIN asked = 1..Len(asked) BY <2>0
    <3> QED BY <2>2, <2>3, <3>1 DEF DrawnInOrder, FramesInv
  <2>5. ImagesAreCurrent BY <2>0, <2>2 DEF ImagesAreCurrent, Batch, FramesNow
  <2> QED BY <2>1, <2>4, <2>5 DEF FrameIsAsAsked, FramesInv, ContextInv
<1> QED BY <1>1, FramesInvInit, FramesInvNext, PTL DEF FramesSpec

-----------------------------------------------------------------------------
(* The view                                                                 *)

\* Products keep the order of their factors.
LEMMA Products ==
  ASSUME NEW k \in Nat \ {0}, NEW a \in Int, NEW b \in Int
  PROVE  /\ a <= b <=> k * a <= k * b
         /\ a < b <=> k * a < k * b
         /\ k * a \in Int
<1>1. a <= b => k * a <= k * b OBVIOUS
<1>2. a < b => k * a < k * b OBVIOUS
<1>3. b <= a => k * b <= k * a OBVIOUS
<1>4. b < a => k * b < k * a OBVIOUS
<1>5. k * a \in Int /\ k * b \in Int OBVIOUS
<1> QED BY <1>1, <1>2, <1>3, <1>4, <1>5

\* The tiles from one that the view's edge cuts to the last one before its other edge.
LEMMA TilesOfTheView ==
  ASSUME NEW from \in Int, NEW length \in Int, NEW tile \in Nat \ {0}, NEW tiles \in Nat
  PROVE  VisibleRange(from, length, tile, tiles)
           = {i \in 0..(tiles - 1) : i * tile < from + length /\ (i + 1) * tile > from}
<1> DEFINE q == from \div tile
           end == from + length
           c == -((-end) \div tile)
<1>1. q \in Int /\ tile * q <= from /\ from < tile * (q + 1) OBVIOUS
<1>2. c \in Int /\ end <= tile * c /\ tile * (c - 1) < end OBVIOUS
<1>3. VisibleRange(from, length, tile, tiles) = Clamp(q, 0, tiles)..(Clamp(c, 0, tiles) - 1)
  BY DEF VisibleRange, CeilTo
<1>4. end \in Int OBVIOUS
<1> HIDE DEF q, c, end
<1>5. ASSUME NEW i \in Int PROVE (i + 1) * tile > from <=> q <= i
  <2>1. (i + 1) * tile = tile * (i + 1) /\ tile * (i + 1) \in Int /\ tile * q \in Int
    BY <1>1
  <2>2. CASE q <= i
    <3>1. tile * (q + 1) <= tile * (i + 1)
      <4>1. q + 1 <= i + 1 /\ q + 1 \in Int /\ i + 1 \in Int BY <1>1, <2>2
      <4> QED BY <4>1, Products
    <3>2. tile * (q + 1) \in Int BY <1>1
    <3> QED BY <1>1, <2>1, <2>2, <3>1, <3>2
  <2>3. CASE i + 1 <= q
    <3>1. tile * (i + 1) <= tile * q
      <4>1. i + 1 \in Int BY <2>3
      <4> QED BY <1>1, <2>3, <4>1, Products
    <3> QED BY <1>1, <2>1, <2>3, <3>1
  <2> QED BY <1>1, <2>2, <2>3
<1>6. ASSUME NEW i \in Int PROVE i * tile < end <=> i <= c - 1
  <2>1. i * tile = tile * i /\ tile * i \in Int /\ tile * c \in Int /\ tile * (c - 1) \in Int
    BY <1>2
  <2>2. CASE i <= c - 1
    <3>1. tile * i <= tile * (c - 1)
      <4>1. c - 1 \in Int BY <1>2
      <4> QED BY <2>2, <4>1, Products
    <3> QED BY <1>2, <1>4, <2>1, <2>2, <3>1
  <2>3. CASE c <= i
    <3>1. tile * c <= tile * i BY <1>2, <2>3, Products
    <3> QED BY <1>2, <1>4, <2>1, <2>3, <3>1
  <2> QED BY <1>2, <2>2, <2>3
<1>7. /\ Clamp(q, 0, tiles) = IF q < 0 THEN 0 ELSE IF q < tiles THEN q ELSE tiles
      /\ Clamp(c, 0, tiles) = IF c < 0 THEN 0 ELSE IF c < tiles THEN c ELSE tiles
  BY <1>1, <1>2 DEF Clamp, Smaller, Larger
<1>8. ASSUME NEW i \in Int
      PROVE  i \in Clamp(q, 0, tiles)..(Clamp(c, 0, tiles) - 1)
               <=> i \in 0..(tiles - 1) /\ i <= c - 1 /\ q <= i
  BY <1>1, <1>2, <1>7
<1>9. ASSUME NEW i
      PROVE  i \in Clamp(q, 0, tiles)..(Clamp(c, 0, tiles) - 1)
               <=> i \in 0..(tiles - 1) /\ i * tile < end /\ (i + 1) * tile > from
  <2>1. i \in Clamp(q, 0, tiles)..(Clamp(c, 0, tiles) - 1) => i \in Int BY <1>1, <1>2, <1>7
  <2>2. i \in 0..(tiles - 1) => i \in Int OBVIOUS
  <2> QED BY <1>5, <1>6, <1>8, <2>1, <2>2
<1> QED BY <1>3, <1>9 DEF end

\* One axis of a frame: the camera stays inside the map, or has it in its middle.
Frames(pos, half, size, tile) ==
  LET at == ClampCamera(pos - half, 2 * half, size)
  IN  /\ at \in Int
      /\ 2 * half >= 2 * tile => at <= pos /\ pos + tile <= at + 2 * half
      /\ IF 2 * half <= size THEN 0 <= at /\ at + 2 * half <= size
         ELSE (0 - at) - (at + 2 * half - size) \in {0, 1}

\* The camera of an axis frames the player.
LEMMA ClampedCamera ==
  ASSUME NEW pos \in Nat, NEW half \in Nat \ {0}, NEW size \in Nat, NEW tile \in Nat \ {0},
         pos + tile <= size
  PROVE  Frames(pos, half, size, tile)
<1> DEFINE at == ClampCamera(pos - half, 2 * half, size)
<1>1. CASE 2 * half >= size
  <2>1. at = (size - 2 * half) \div 2 BY <1>1 DEF ClampCamera
  <2>2. at \in Int /\ 2 * at <= size - 2 * half /\ size - 2 * half <= 2 * at + 1 BY <2>1
  <2>3. 2 * half = size => at = 0 BY <2>2
  <2> HIDE DEF at
  <2>4. /\ at \in Int
        /\ 2 * half >= 2 * tile => at <= pos /\ pos + tile <= at + 2 * half
        /\ IF 2 * half <= size THEN 0 <= at /\ at + 2 * half <= size
           ELSE (0 - at) - (at + 2 * half - size) \in {0, 1}
    BY <1>1, <2>2, <2>3
  <2> QED BY <2>4 DEF Frames, at
<1>2. CASE 2 * half < size
  <2>1. at = Clamp(pos - half, 0, size - 2 * half) BY <1>2 DEF ClampCamera
  <2>2. at = IF pos - half < 0 THEN 0 ELSE IF pos - half < size - 2 * half THEN pos - half
             ELSE size - 2 * half
    BY <1>2, <2>1 DEF Clamp, Smaller, Larger
  <2> HIDE DEF at
  <2>3. /\ at \in Int
        /\ 2 * half >= 2 * tile => at <= pos /\ pos + tile <= at + 2 * half
        /\ IF 2 * half <= size THEN 0 <= at /\ at + 2 * half <= size
           ELSE (0 - at) - (at + 2 * half - size) \in {0, 1}
    BY <1>2, <2>2
  <2> QED BY <2>3 DEF Frames, at
<1> QED BY <1>1, <1>2

\* What the constants are.
LEMMA ViewNumbers ==
  /\ TileSize \in Nat \ {0} /\ MapWidth \in Nat \ {0} /\ MapHeight \in Nat \ {0}
  /\ Scale \in Nat \ {0} /\ Offset.x \in Int /\ Offset.y \in Int
BY CameraAssumption

\* A position on the map and the tile that begins there, at a zoom.
LEMMA TileOnTheMap ==
  ASSUME NEW zoom \in Nat \ {0}, NEW tiles \in Nat \ {0}, NEW p \in 0..((tiles - 1) * TileSize)
  PROVE  /\ World(zoom, p) \in Nat /\ World(zoom, tiles * TileSize) \in Nat
         /\ World(zoom, TileSize) \in Nat \ {0}
         /\ World(zoom, p) + World(zoom, TileSize) <= World(zoom, tiles * TileSize)
<1> DEFINE k == 2 * zoom
           size == tiles * TileSize
<1>1. k \in Nat \ {0} /\ TileSize \in Nat \ {0} BY ViewNumbers
<1>2. size \in Nat /\ p \in Nat /\ p + TileSize <= size
  <2>1. (tiles - 1) * TileSize = tiles * TileSize - TileSize BY <1>1
  <2>2. tiles * TileSize \in Nat BY <1>1
  <2> QED BY <1>1, <2>1, <2>2
<1>3. World(zoom, p) = k * p /\ World(zoom, TileSize) = k * TileSize /\ World(zoom, size) = k * size
  BY DEF World
<1> HIDE DEF k, size
<1>4. k * (p + TileSize) <= k * size
  <2>1. p + TileSize \in Int /\ size \in Int BY <1>1, <1>2
  <2> QED BY <1>1, <1>2, <2>1, Products
<1>5. k * (p + TileSize) = k * p + k * TileSize BY <1>1, <1>2
<1>6. k * p \in Nat /\ k * size \in Nat /\ k * TileSize \in Nat \ {0} BY <1>1, <1>2
<1> QED BY <1>3, <1>4, <1>5, <1>6 DEF size

\* What a frame has computed stays what it would compute, until something changes.
ViewInv ==
  /\ canvas \in Canvas /\ player \in PlayerSpot /\ speaker \in SpeakerSpot
  /\ dialogue \in DialogueSize \union {Closed}
  /\ cameraView # NoView => /\ cameraView.zoom \in Nat \ {0}
                            /\ cameraView.w \in Int /\ cameraView.h \in Int
                            /\ cameraView.x \in Int /\ cameraView.y \in Int
  /\ drawn => /\ cameraView = CameraViewport
              /\ dialogueBox = IF dialogue = Closed THEN Fallback ELSE Placement(cameraView, dialogue)

\* The camera of a frame, with one axis after the other.
LEMMA Viewport ==
  ASSUME canvas \in Canvas, player \in PlayerSpot, NEW v, v = CameraViewport
  PROVE  /\ v.zoom \in Nat \ {0} /\ v.w \in Nat /\ v.h \in Nat
         /\ \E w \in Nat \ {0} : /\ v.w = 2 * w
                                 /\ v.x = ClampCamera(World(v.zoom, player.x) - w, 2 * w,
                                                      World(v.zoom, MapWidth * TileSize))
         /\ \E h \in Nat \ {0} : /\ v.h = 2 * h
                                 /\ v.y = ClampCamera(World(v.zoom, player.y) - h, 2 * h,
                                                      World(v.zoom, MapHeight * TileSize))
<1> DEFINE zoom == CameraZoom(canvas.h)
           w == IF canvas.w > 0 THEN canvas.w ELSE 320
           h == IF canvas.h > 0 THEN canvas.h ELSE 240
<1>1. canvas.w \in Nat /\ canvas.h \in Nat BY CameraAssumption
<1>2. w \in Nat \ {0} /\ h \in Nat \ {0} BY <1>1
<1>3. zoom \in Nat \ {0}
  <2>1. TileSize * 14 \in Nat \ {0} BY ViewNumbers
  <2>2. h \div (TileSize * 14) \in Int BY <1>2, <2>1
  <2> DEFINE z == h \div (TileSize * 14)
  <2>3. zoom = Smaller(16, Larger(2, z)) BY DEF CameraZoom
  <2>4. z \in Int BY <2>2
  <2> HIDE DEF z, zoom
  <2> QED BY <2>3, <2>4 DEF Smaller, Larger
<1>4. v = [zoom |-> zoom, w |-> 2 * w, h |-> 2 * h,
           x |-> ClampCamera(World(zoom, player.x) - w, 2 * w, World(zoom, MapWidth * TileSize)),
           y |-> ClampCamera(World(zoom, player.y) - h, 2 * h, World(zoom, MapHeight * TileSize))]
  BY DEF CameraViewport
<1> HIDE DEF zoom, w, h
<1>5. /\ v.zoom = zoom /\ v.w = 2 * w /\ v.h = 2 * h
      /\ v.x = ClampCamera(World(v.zoom, player.x) - w, 2 * w, World(v.zoom, MapWidth * TileSize))
      /\ v.y = ClampCamera(World(v.zoom, player.y) - h, 2 * h, World(v.zoom, MapHeight * TileSize))
  BY <1>4
<1> QED BY <1>2, <1>3, <1>5

\* What a frame's camera v has on the canvas.
FramesThePlayer(v) ==
  LET tile == World(v.zoom, TileSize)
      shows(at, length, pos, size) ==
        /\ length >= 2 * tile => at <= pos /\ pos + tile <= at + length
        /\ IF length <= size THEN 0 <= at /\ at + length <= size
           ELSE (0 - at) - (at + length - size) \in {0, 1}
  IN  /\ shows(v.x, v.w, World(v.zoom, player.x), World(v.zoom, MapWidth * TileSize))
      /\ shows(v.y, v.h, World(v.zoom, player.y), World(v.zoom, MapHeight * TileSize))

\* The player of any frame is on the canvas.
LEMMA PlayerIsShown ==
  ASSUME canvas \in Canvas, player \in PlayerSpot, NEW v, v = CameraViewport
  PROVE  FramesThePlayer(v) /\ v.x \in Int /\ v.y \in Int
<1> DEFINE tile == World(v.zoom, TileSize)
           px == World(v.zoom, player.x)
           py == World(v.zoom, player.y)
           width == World(v.zoom, MapWidth * TileSize)
           height == World(v.zoom, MapHeight * TileSize)
<1>1. /\ v.zoom \in Nat \ {0}
      /\ \E w \in Nat \ {0} : v.w = 2 * w /\ v.x = ClampCamera(px - w, 2 * w, width)
      /\ \E h \in Nat \ {0} : v.h = 2 * h /\ v.y = ClampCamera(py - h, 2 * h, height)
  BY Viewport
<1>2. player.x \in 0..((MapWidth - 1) * TileSize) /\ player.y \in 0..((MapHeight - 1) * TileSize)
  BY CameraAssumption
<1>3. px \in Nat /\ width \in Nat /\ tile \in Nat \ {0} /\ px + tile <= width
  BY <1>1, <1>2, TileOnTheMap, ViewNumbers
<1>4. py \in Nat /\ height \in Nat /\ py + tile <= height
  BY <1>1, <1>2, TileOnTheMap, ViewNumbers
<1> HIDE DEF tile, px, py, width, height
<1>5. /\ v.x \in Int
      /\ v.w >= 2 * tile => v.x <= px /\ px + tile <= v.x + v.w
      /\ IF v.w <= width THEN 0 <= v.x /\ v.x + v.w <= width
         ELSE (0 - v.x) - (v.x + v.w - width) \in {0, 1}
  <2>1. PICK w \in Nat \ {0} : v.w = 2 * w /\ v.x = ClampCamera(px - w, 2 * w, width) BY <1>1
  <2> DEFINE at == ClampCamera(px - w, 2 * w, width)
  <2>2. /\ at \in Int
        /\ 2 * w >= 2 * tile => at <= px /\ px + tile <= at + 2 * w
        /\ IF 2 * w <= width THEN 0 <= at /\ at + 2 * w <= width
           ELSE (0 - at) - (at + 2 * w - width) \in {0, 1}
    <3>1. Frames(px, w, width, tile) BY <1>3, ClampedCamera
    <3> QED BY <3>1 DEF Frames
  <2>3. v.w = 2 * w /\ v.x = at BY <2>1
  <2> HIDE DEF at
  <2> QED BY <2>2, <2>3
<1>6. /\ v.y \in Int
      /\ v.h >= 2 * tile => v.y <= py /\ py + tile <= v.y + v.h
      /\ IF v.h <= height THEN 0 <= v.y /\ v.y + v.h <= height
         ELSE (0 - v.y) - (v.y + v.h - height) \in {0, 1}
  <2>1. PICK h \in Nat \ {0} : v.h = 2 * h /\ v.y = ClampCamera(py - h, 2 * h, height) BY <1>1
  <2> DEFINE at == ClampCamera(py - h, 2 * h, height)
  <2>2. /\ at \in Int
        /\ 2 * h >= 2 * tile => at <= py /\ py + tile <= at + 2 * h
        /\ IF 2 * h <= height THEN 0 <= at /\ at + 2 * h <= height
           ELSE (0 - at) - (at + 2 * h - height) \in {0, 1}
    <3>1. Frames(py, h, height, tile) BY <1>3, <1>4, ClampedCamera
    <3> QED BY <3>1 DEF Frames
  <2>3. v.h = 2 * h /\ v.y = at BY <2>1
  <2> HIDE DEF at
  <2> QED BY <2>2, <2>3
<1> QED BY <1>5, <1>6 DEF FramesThePlayer, tile, px, py, width, height

\* A box that fits between the canvas's sides stays between them.
LEMMA BetweenTheSides ==
  ASSUME NEW middle \in Int, NEW width \in Nat, canvas.w \in Nat, NEW left, left = LeftFor(middle, width),
         2 * width + 2 * Margin <= 2 * Scale * canvas.w
  PROVE  left >= 2 * Offset.x /\ left + 2 * width <= PageEdge(Offset.x, canvas.w)
<1> DEFINE edge == Scale * canvas.w
           o == Offset.x
           least == 2 * o + Margin
           most == PageEdge(o, canvas.w) - 2 * width - Margin
<1>1. o \in Int /\ edge \in Int /\ 2 * Scale * canvas.w = 2 * edge BY ViewNumbers
<1>2. PageEdge(o, canvas.w) = 2 * (o + edge) /\ Margin = 16 BY DEF PageEdge, Margin
<1>3. left = IF most >= least THEN Clamp(middle - width, least, most) ELSE 2 * o BY DEF LeftFor
<1> HIDE DEF edge, o
<1>4. least \in Int /\ most \in Int /\ most >= least BY <1>1, <1>2
<1>5. left = Clamp(middle - width, least, most) BY <1>3, <1>4
<1>6. least = 2 * o + 16 /\ most = 2 * (o + edge) - 2 * width - 16 BY <1>2
<1> HIDE DEF least, most
<1>7. left = IF middle - width > least THEN (IF middle - width < most THEN middle - width ELSE most)
             ELSE (IF least < most THEN least ELSE most)
  BY <1>5 DEF Clamp, Smaller, Larger
<1>8. left >= 2 * o /\ left + 2 * width <= 2 * (o + edge) BY <1>1, <1>4, <1>6, <1>7
<1> QED BY <1>2, <1>8 DEF o

\* A box beside a tile of the canvas: inside the canvas if it fits in there, and clear of
\* the tile if there is room for it above or below.
LEMMA BesideTheTile ==
  ASSUME NEW r, r.top \in Int, r.bottom \in Int, NEW height \in Nat, canvas.h \in Nat,
         NEW top, top = 2 * Offset.y, NEW bottom, bottom = PageEdge(Offset.y, canvas.h),
         NEW t, t = TopFor(r, height), NEW room, room = 2 * height + Gap + Margin,
         top <= r.top, r.top <= r.bottom, r.bottom <= bottom
  PROVE  /\ t \in Int
         /\ 2 * height <= 2 * Scale * canvas.h => top <= t /\ t + 2 * height <= bottom
         /\ r.top - top >= room \/ bottom - r.bottom >= room =>
              t + 2 * height <= r.top \/ r.bottom <= t
<1> DEFINE edge == Scale * canvas.h
           above == r.top - Gap - 2 * height
           below == r.bottom + Gap
<1>1. top \in Int /\ edge \in Int /\ 2 * Scale * canvas.h = 2 * edge BY ViewNumbers
<1>2. bottom = top + 2 * edge /\ Margin = 16 /\ Gap = 16
  <2>1. Offset.y \in Int /\ bottom = 2 * (Offset.y + edge) BY ViewNumbers DEF PageEdge
  <2> HIDE DEF edge
  <2> QED BY <1>1, <2>1 DEF Margin, Gap
<1>3. t = IF above >= top + Margin THEN above
          ELSE IF below + 2 * height + Margin <= bottom THEN below
          ELSE Smaller(Larger(above, top), Larger(top, bottom - 2 * height))
  BY DEF TopFor
<1> HIDE DEF edge
<1>4. above = r.top - 16 - 2 * height /\ below = r.bottom + 16 BY <1>2
<1>5. bottom \in Int /\ above \in Int /\ below \in Int BY <1>1, <1>2
<1> HIDE DEF above, below
<1>6. CASE above >= top + 16
  <2>1. t = above BY <1>2, <1>3, <1>6
  <2> QED BY <1>1, <1>2, <1>4, <1>5, <1>6, <2>1
<1>7. CASE ~(above >= top + 16) /\ below + 2 * height + 16 <= bottom
  <2>1. t = below BY <1>2, <1>3, <1>7
  <2> QED BY <1>1, <1>2, <1>4, <1>5, <1>7, <2>1
<1>8. CASE ~(above >= top + 16) /\ ~(below + 2 * height + 16 <= bottom)
  <2>1. t = Smaller(Larger(above, top), Larger(top, bottom - 2 * height)) BY <1>2, <1>3, <1>8
  <2> DEFINE a == IF above > top THEN above ELSE top
             b == IF top > bottom - 2 * height THEN top ELSE bottom - 2 * height
  <2>2. t = IF a < b THEN a ELSE b BY <2>1 DEF Smaller, Larger
  <2>3. 2 * height <= 2 * edge => top <= t /\ t + 2 * height <= bottom
    BY <1>1, <1>2, <1>5, <2>2
  <2>4. ~(r.top - top >= room) /\ ~(bottom - r.bottom >= room)
    BY <1>1, <1>2, <1>4, <1>5, <1>8
  <2>5. t \in Int BY <1>1, <1>5, <1>2, <2>2
  <2> QED BY <1>1, <2>3, <2>4, <2>5
<1> QED BY <1>6, <1>7, <1>8

\* Where the speaker is on the page.
LEMMA SpeakerPlace ==
  ASSUME speaker \in SpeakerSpot, NEW v, v.zoom \in Nat \ {0}, v.x \in Int, v.y \in Int,
         NEW r, r = SpeakerRect(v)
  PROVE  /\ r.left \in Int /\ r.right \in Int /\ r.top \in Int /\ r.bottom \in Int
         /\ r.top <= r.bottom
<1>1. speaker.x \in Int /\ speaker.y \in Int BY CameraAssumption
<1>2. \A n \in Int : World(v.zoom, n) \in Int BY DEF World
<1>3. \A o, at, n \in Int : OnPage(v, o, at, n) \in Int
  <2> TAKE o \in Int, at \in Int, n \in Int
  <2>1. World(v.zoom, n) - at \in Int BY <1>2
  <2> DEFINE d == World(v.zoom, n) - at
  <2>2. d \in Int BY <2>1
  <2>3. OnPage(v, o, at, n) = 2 * o + Scale * d BY DEF OnPage
  <2> HIDE DEF d
  <2> QED BY <2>2, <2>3, ViewNumbers
<1>4. /\ speaker.x * TileSize \in Int /\ (speaker.x + 1) * TileSize \in Int
      /\ speaker.y * TileSize \in Int /\ (speaker.y + 1) * TileSize \in Int
      /\ speaker.y * TileSize <= (speaker.y + 1) * TileSize
  <2>1. (speaker.y + 1) * TileSize = speaker.y * TileSize + TileSize BY <1>1, ViewNumbers
  <2> QED BY <1>1, <2>1, ViewNumbers
<1>5. /\ r.left = OnPage(v, Offset.x, v.x, speaker.x * TileSize)
      /\ r.right = OnPage(v, Offset.x, v.x, (speaker.x + 1) * TileSize)
      /\ r.top = OnPage(v, Offset.y, v.y, speaker.y * TileSize)
      /\ r.bottom = OnPage(v, Offset.y, v.y, (speaker.y + 1) * TileSize)
  BY DEF SpeakerRect
<1>6. r.left \in Int /\ r.right \in Int /\ r.top \in Int /\ r.bottom \in Int
  <2> DEFINE left == speaker.x * TileSize
             right == (speaker.x + 1) * TileSize
             top == speaker.y * TileSize
             bottom == (speaker.y + 1) * TileSize
             ox == Offset.x
             oy == Offset.y
  <2>1. left \in Int /\ right \in Int /\ top \in Int /\ bottom \in Int BY <1>4
  <2>2. /\ r.left = OnPage(v, ox, v.x, left) /\ r.right = OnPage(v, ox, v.x, right)
        /\ r.top = OnPage(v, oy, v.y, top) /\ r.bottom = OnPage(v, oy, v.y, bottom)
    BY <1>5
  <2>3. ox \in Int /\ oy \in Int BY ViewNumbers
  <2> HIDE DEF left, right, top, bottom, ox, oy
  <2>4. \A at, n \in Int : OnPage(v, ox, at, n) \in Int /\ OnPage(v, oy, at, n) \in Int
    BY <1>3, <2>3
  <2>5. OnPage(v, ox, v.x, left) \in Int /\ OnPage(v, ox, v.x, right) \in Int
    BY <2>1, <2>4
  <2>6. OnPage(v, oy, v.y, top) \in Int /\ OnPage(v, oy, v.y, bottom) \in Int
    BY <2>1, <2>4
  <2> QED BY <2>2, <2>5, <2>6
<1>7. r.top <= r.bottom
  <2> DEFINE a == speaker.y * TileSize
             b == (speaker.y + 1) * TileSize
             c == World(v.zoom, a) - v.y
             d == World(v.zoom, b) - v.y
             oy == Offset.y
  <2>1. a \in Int /\ b \in Int /\ a <= b BY <1>4
  <2>2. World(v.zoom, a) <= World(v.zoom, b)
    <3> DEFINE k == 2 * v.zoom
    <3>1. k \in Nat \ {0} OBVIOUS
    <3>2. World(v.zoom, a) = k * a /\ World(v.zoom, b) = k * b BY DEF World
    <3> HIDE DEF k, a, b
    <3> QED BY <2>1, <3>1, <3>2, Products
  <2>3. r.top = 2 * oy + Scale * c /\ r.bottom = 2 * oy + Scale * d BY <1>5 DEF OnPage
  <2>4. World(v.zoom, a) \in Int /\ World(v.zoom, b) \in Int BY <1>2, <2>1
  <2> HIDE DEF a, b
  <2>5. c \in Int /\ d \in Int /\ c <= d BY <2>2, <2>4
  <2>6. oy \in Int /\ Scale \in Nat \ {0} BY ViewNumbers
  <2> HIDE DEF c, d, oy
  <2>7. Scale * c <= Scale * d /\ Scale * c \in Int /\ Scale * d \in Int BY <2>5, <2>6, Products
  <2> QED BY <2>3, <2>6, <2>7
<1> QED BY <1>6, <1>7

\* The dialogue of any frame can be read.
LEMMA DialogueIsShown ==
  ASSUME ViewInv PROVE DialogueIsReadable
<1> SUFFICES ASSUME drawn, dialogueBox # Fallback PROVE DialogueIsReadable BY DEF DialogueIsReadable
<1> DEFINE v == cameraView
           r == SpeakerRect(v)
           top == 2 * Offset.y
           bottom == PageEdge(Offset.y, canvas.h)
           room == 2 * dialogue.h + Gap + Margin
           box == dialogueBox
           middle == (r.left + r.right) \div 2
<1>1. dialogue # Closed /\ box = Placement(v, dialogue) /\ v = CameraViewport
      /\ canvas \in Canvas /\ player \in PlayerSpot /\ speaker \in SpeakerSpot
  BY DEF ViewInv
<1>2. dialogue.w \in Nat /\ dialogue.h \in Nat /\ canvas.w \in Nat /\ canvas.h \in Nat
  BY <1>1, CameraAssumption DEF ViewInv
<1>3. v.zoom \in Nat \ {0} /\ v.x \in Int /\ v.y \in Int
  <2>1. v.zoom \in Nat \ {0} BY <1>1, Viewport
  <2> QED BY <1>1, <2>1, PlayerIsShown
<1>4. /\ ~(r.top < top) /\ ~(r.bottom > bottom)
      /\ box = [left |-> LeftFor(middle, dialogue.w), top |-> TopFor(r, dialogue.h)]
  BY <1>1 DEF Placement
<1> HIDE DEF r, v
<1>5. /\ r.left \in Int /\ r.right \in Int /\ r.top \in Int /\ r.bottom \in Int
      /\ r.top <= r.bottom
  BY <1>1, <1>3, SpeakerPlace DEF r
<1>6. middle \in Int BY <1>5
<1>7. box.left = LeftFor(middle, dialogue.w) /\ box.top = TopFor(r, dialogue.h) BY <1>4
<1> HIDE DEF middle, box
<1>8. 2 * dialogue.w + 2 * Margin <= 2 * Scale * canvas.w =>
        /\ box.left >= 2 * Offset.x
        /\ box.left + 2 * dialogue.w <= PageEdge(Offset.x, canvas.w)
  BY <1>2, <1>6, <1>7, BetweenTheSides
<1>9. top \in Int /\ bottom \in Int
  <2>1. Scale * canvas.h \in Int BY <1>2, ViewNumbers
  <2> QED BY <2>1, ViewNumbers DEF PageEdge
<1>10. /\ box.top \in Int
       /\ 2 * dialogue.h <= 2 * Scale * canvas.h =>
            box.top >= top /\ box.top + 2 * dialogue.h <= bottom
       /\ r.top - top >= room \/ bottom - r.bottom >= room =>
            box.top + 2 * dialogue.h <= r.top \/ r.bottom <= box.top
  <2>1. top <= r.top /\ r.bottom <= bottom BY <1>4, <1>5, <1>9
  <2> DEFINE t == TopFor(r, dialogue.h)
             height == dialogue.h
  <2>2. /\ top = 2 * Offset.y /\ bottom = PageEdge(Offset.y, canvas.h) /\ t = TopFor(r, height)
        /\ room = 2 * height + Gap + Margin /\ height \in Nat
    BY <1>2
  <2> HIDE DEF top, bottom, room, t, height
  <2>3. /\ t \in Int
        /\ 2 * height <= 2 * Scale * canvas.h => top <= t /\ t + 2 * height <= bottom
        /\ r.top - top >= room \/ bottom - r.bottom >= room =>
             t + 2 * height <= r.top \/ r.bottom <= t
    BY <1>2, <1>5, <2>1, <2>2, BesideTheTile
  <2> QED BY <1>7, <2>2, <2>3, <1>9 DEF t, height
<1>11. \/ r.top - top >= room
       \/ bottom - r.bottom >= room
       => ~Overlaps(box, dialogue, r)
  <2>1. ASSUME box.top + 2 * dialogue.h <= r.top \/ r.bottom <= box.top
        PROVE  ~Overlaps(box, dialogue, r)
    BY <1>2, <1>5, <1>10, <2>1 DEF Overlaps
  <2> QED BY <1>10, <2>1
<1> QED BY <1>8, <1>10, <1>11 DEF DialogueIsReadable, box, r, v

\* Every step keeps what the frame has laid out.
LEMMA ViewInvNext == ViewInv /\ [ViewNext]_viewVars => ViewInv'
<1> SUFFICES ASSUME ViewInv, [ViewNext]_viewVars PROVE ViewInv' OBVIOUS
<1>1. CASE RenderFrame
  <2> DEFINE v == CameraViewport
  <2>1. v.zoom \in Nat \ {0} /\ v.w \in Nat /\ v.h \in Nat
    BY Viewport DEF ViewInv
  <2>2. cameraView' = v /\ UNCHANGED <<canvas, player, speaker, dialogue>> BY <1>1 DEF RenderFrame
  <2>3. dialogueBox' = IF dialogue = Closed THEN Fallback ELSE Placement(v, dialogue)
    BY <1>1 DEF RenderFrame, Layout
  <2>4. CameraViewport' = CameraViewport BY <2>2 DEF CameraViewport
  <2>5. v.x \in Int /\ v.y \in Int BY PlayerIsShown DEF ViewInv
  <2>6. Placement(cameraView, dialogue)' = Placement(v, dialogue)
    BY <2>2 DEF Placement, SpeakerRect, LeftFor, TopFor
  <2> HIDE DEF v
  <2> QED BY <2>1, <2>2, <2>3, <2>4, <2>5, <2>6 DEF ViewInv, v
<1>2. ASSUME NEW c \in Canvas, Resize(c) PROVE ViewInv' BY <1>2 DEF Resize, ViewInv
<1>3. ASSUME NEW p \in PlayerSpot, PlayerMoves(p) PROVE ViewInv' BY <1>3 DEF PlayerMoves, ViewInv
<1>4. ASSUME NEW s \in SpeakerSpot, SpeakerMoves(s) PROVE ViewInv' BY <1>4 DEF SpeakerMoves, ViewInv
<1>5. ASSUME NEW d \in DialogueSize \union {Closed}, RenderDialogue(d) PROVE ViewInv'
  BY <1>5 DEF RenderDialogue, ViewInv
<1>6. ASSUME NEW c \in ChoiceSize \union {Closed}, RenderChoice(c) PROVE ViewInv'
  BY <1>6 DEF RenderChoice, ViewInv
<1>7. CASE UNCHANGED viewVars
  BY <1>7 DEF viewVars, ViewInv, CameraViewport, Placement, SpeakerRect, LeftFor, TopFor
<1> QED BY <1>1, <1>2, <1>3, <1>4, <1>5, <1>6, <1>7 DEF ViewNext

\* For every map, canvas and zoom: a frame has the player's tile on the canvas and nothing
\* beyond the map it need not show, draws exactly the tiles that meet the view, and lays a
\* dialogue out where it can be read (computeCameraViewport, computeVisibleTileRange,
\* speakerPlacement).
THEOREM ViewAlwaysShowsThePlay == ViewSpec => []ViewShowsThePlay
<1>1. ViewInit => ViewInv BY DEF ViewInit, ViewInv
<1>2. ViewInv => ViewShowsThePlay
  <2> SUFFICES ASSUME ViewInv PROVE ViewShowsThePlay OBVIOUS
  <2>1. PlayerInView
    <3>1. CASE drawn
      <4>1. FramesThePlayer(cameraView) BY <3>1, PlayerIsShown DEF ViewInv
      <4> QED BY <4>1 DEF FramesThePlayer, PlayerInView
    <3>2. CASE ~drawn BY <3>2 DEF PlayerInView
    <3> QED BY <3>1, <3>2
  <2>2. DrawsWhatMeetsTheView
    <3> SUFFICES ASSUME cameraView # NoView PROVE DrawsWhatMeetsTheView BY DEF DrawsWhatMeetsTheView
    <3> DEFINE v == cameraView
               tile == World(v.zoom, TileSize)
    <3>1. v.zoom \in Nat \ {0} /\ v.w \in Int /\ v.h \in Int /\ v.x \in Int /\ v.y \in Int
      BY DEF ViewInv
    <3>2. tile \in Nat \ {0} BY <3>1, ViewNumbers DEF World
    <3> HIDE DEF tile
    <3>3. VisibleRange(v.x, v.w, tile, MapWidth)
            = {i \in 0..(MapWidth - 1) : i * tile < v.x + v.w /\ (i + 1) * tile > v.x}
      BY <3>1, <3>2, TilesOfTheView, ViewNumbers
    <3>4. VisibleRange(v.y, v.h, tile, MapHeight)
            = {i \in 0..(MapHeight - 1) : i * tile < v.y + v.h /\ (i + 1) * tile > v.y}
      BY <3>1, <3>2, TilesOfTheView, ViewNumbers
    <3>5. VisibleTiles(v) = VisibleRange(v.x, v.w, tile, MapWidth) \X VisibleRange(v.y, v.h, tile, MapHeight)
      BY DEF VisibleTiles, tile
    <3> QED BY <3>3, <3>4, <3>5 DEF DrawsWhatMeetsTheView, tile
  <2> QED BY <2>1, <2>2, DialogueIsShown DEF ViewShowsThePlay
<1> QED BY <1>1, <1>2, ViewInvNext, PTL DEF ViewSpec

-----------------------------------------------------------------------------
(* The scene graph                                                          *)

\* Parents and children tell the same tree.
Tree(pa, kids) ==
  /\ pa \in [Node -> Node \union {Nobody}] /\ kids \in [Node -> Seq(Node)]
  /\ \A n, p \in Node : pa[n] = p <=> n \in ToSet(kids[p])
  /\ \A p \in Node : IsInjective(kids[p])

\* A set of objects with their children, and the least one with n: what is below n.
Down(S, pa) == \A c \in Node : pa[c] \in S => c \in S
Below(kids, n) == {m \in Node : \A S \in SUBSET Node :
                     n \in S /\ (\A p \in S : ToSet(kids[p]) \subseteq S) => m \in S}

\* The registry files what is in the scene, and all of it unless an index has thrown.
Registry(by, scene, threw) ==
  /\ by \in [Ids -> Node \union {Nobody}] /\ by[IdOf[Root]] = Root
  /\ \A i \in Ids : by[i] # Nobody => IdOf[by[i]] = i /\ by[i] \in scene
  /\ threw \/ \A m \in scene : by[IdOf[m]] = m

\* An object has one component of a type, and has those that name it.
Fitted(of, to) ==
  /\ of \in [Node -> SUBSET Component] /\ to \in [Component -> Node \union {Nobody}]
  /\ \A n \in Node, c, d \in Component : {c, d} \subseteq of[n] /\ TypeOf[c] = TypeOf[d] => c = d
  /\ \A n \in Node, c \in Component : to[c] = n => c \in of[n]

\* The invariant.
GraphInv ==
  /\ Tree(parent, children) /\ parent[Root] = Nobody
  /\ Registry(byId, InScene, thrown) /\ thrown \in BOOLEAN
  /\ Fitted(has, owner) /\ NothingDangles /\ gone \subseteq Node

\* The subtree of the module, and the tree of its invariant.
LEMMA SubtreeIsBelow == /\ \A n : Subtree(n) = Below(children, n) /\ InScene = Below(children, Root)
                        /\ \A n : Subtree(n)' = Below(children', n)
                        /\ InScene' = Below(children', Root)
BY DEF Subtree, Below, InScene

\* A tree of the invariant is one of the checked property.
LEMMA TreeIsTree ==
  ASSUME NEW pa, NEW kids, Tree(pa, kids)
  PROVE  /\ pa \in [Node -> Node \union {Nobody}] /\ kids \in [Node -> Seq(Node)]
         /\ \A n, p \in Node : pa[n] = p <=> Contains(kids[p], n)
         /\ \A p \in Node : IsInjective(kids[p])
<1>1. ASSUME NEW n \in Node, NEW p \in Node PROVE n \in ToSet(kids[p]) <=> Contains(kids[p], n)
  <2>1. kids[p] \in Seq(Node) BY DEF Tree
  <2> QED BY <2>1, ContainsIsIn
<1> QED BY <1>1 DEF Tree

\* What is below n is n and the children of what is below n, and no more.
LEMMA BelowIs ==
  ASSUME NEW pa, NEW kids, Tree(pa, kids), NEW n \in Node
  PROVE  /\ Below(kids, n) \subseteq Node /\ n \in Below(kids, n) /\ Down(Below(kids, n), pa)
         /\ \A S \in SUBSET Node : n \in S /\ Down(S, pa) => Below(kids, n) \subseteq S
         /\ \A m \in Below(kids, n) : m # n => pa[m] \in Below(kids, n)
<1>1. \A p \in Node : ToSet(kids[p]) \subseteq Node
  <2> TAKE p \in Node
  <2>1. kids[p] \in Seq(Node) BY DEF Tree
  <2> QED BY <2>1 DEF ToSet
<1>2. ASSUME NEW S \in SUBSET Node
      PROVE  (\A p \in S : ToSet(kids[p]) \subseteq S) <=> Down(S, pa)
  <2>1. \A c \in Node, p \in Node : pa[c] = p <=> c \in ToSet(kids[p]) BY DEF Tree
  <2> QED BY <1>1, <2>1 DEF Down
<1>3. Below(kids, n) = {m \in Node : \A S \in SUBSET Node : n \in S /\ Down(S, pa) => m \in S}
  BY <1>2 DEF Below
<1> DEFINE B == Below(kids, n)
<1>4. B \subseteq Node /\ n \in B BY <1>3
<1>5. Down(B, pa)
  <2> SUFFICES ASSUME NEW c \in Node, pa[c] \in B PROVE c \in B BY DEF Down
  <2>1. ASSUME NEW S \in SUBSET Node, n \in S, Down(S, pa) PROVE c \in S
    <3>1. pa[c] \in S BY <1>3, <2>1
    <3> QED BY <2>1, <3>1 DEF Down
  <2> QED BY <1>3, <2>1
<1>6. \A S \in SUBSET Node : n \in S /\ Down(S, pa) => B \subseteq S BY <1>3
<1>7. ASSUME NEW m \in B, m # n PROVE pa[m] \in B
  <2> DEFINE T == {x \in B : x = n \/ pa[x] \in B}
  <2>1. T \in SUBSET Node /\ n \in T BY <1>4
  <2>2. Down(T, pa) BY <1>4, <1>5 DEF Down
  <2>3. B \subseteq T
    <3> HIDE DEF T, B
    <3> QED BY <1>6, <2>1, <2>2
  <2> QED BY <1>7, <2>3
<1> QED BY <1>4, <1>5, <1>6, <1>7

\* Adopting moves one object.
LEMMA AdoptMoves ==
  ASSUME Tree(parent, children), NEW p \in Node, NEW n \in Node, p # n, Adopt(p, n)
  PROVE  Tree(parent', children') /\ \A c \in Node : parent'[c] = IF c = n THEN p ELSE parent[c]
<1>1. CASE parent[n] = p /\ UNCHANGED <<parent, children>> BY <1>1 DEF Tree
<1>2. CASE parent[n] # p /\ parent' = [parent EXCEPT ![n] = p]
           /\ children' = [Without(n) EXCEPT ![p] = Append(@, n)]
  <2>1. children'[p] = Append(children[p], n) BY <1>2 DEF Without
  <2>2. \A q \in Node : q # p => children'[q] = IF q = parent[n] THEN RemoveFirst(children[q], n)
                                                ELSE children[q]
    BY <1>2 DEF Without
  <2>3. DOMAIN children' = Node /\ children' = [q \in Node |-> children'[q]] BY <1>2 DEF Without
  <2>4. ASSUME NEW q \in Node
        PROVE  /\ children'[q] \in Seq(Node) /\ IsInjective(children'[q])
               /\ \A m \in Node : parent'[m] = q <=> m \in ToSet(children'[q])
    <3>1. /\ children[q] \in Seq(Node) /\ IsInjective(children[q])
          /\ \A m \in Node : parent[m] = q <=> m \in ToSet(children[q])
      BY DEF Tree
    <3>2. \A m \in Node : parent'[m] = IF m = n THEN p ELSE parent[m] BY <1>2 DEF Tree
    <3>3. CASE q = p
      <4>1. n \notin ToSet(children[q]) BY <1>2, <3>1, <3>3
      <4>2. IsInjective(Append(children[q], n))
            /\ ToSet(Append(children[q], n)) = ToSet(children[q]) \union {n}
        BY <3>1, <4>1, AppendedAlone
      <4>3. Append(children[q], n) \in Seq(Node) BY <3>1
      <4> QED BY <2>1, <3>1, <3>2, <3>3, <4>2, <4>3
    <3>4. CASE q # p /\ q = parent[n]
      <4>1. /\ RemoveFirst(children[q], n) \in Seq(Node)
            /\ IsInjective(RemoveFirst(children[q], n))
            /\ ToSet(RemoveFirst(children[q], n)) = ToSet(children[q]) \ {n}
        BY <3>1, RemovedRest
      <4> QED BY <2>2, <3>1, <3>2, <3>4, <4>1
    <3>5. CASE q # p /\ q # parent[n] BY <2>2, <3>1, <3>2, <3>5
    <3> QED BY <3>3, <3>4, <3>5
  <2>5. children' \in [Node -> Seq(Node)] BY <2>3, <2>4
  <2>6. parent' \in [Node -> Node \union {Nobody}] BY <1>2 DEF Tree
  <2> QED BY <1>2, <2>4, <2>5, <2>6 DEF Tree
<1> QED BY <1>1, <1>2 DEF Adopt

\* Destroying takes one subtree apart.
LEMMA DestroyTakes ==
  ASSUME Tree(parent, children), NEW n \in Node, NEW nodes, nodes = Below(children, n),
         Destroyed(n, nodes), Nobody \notin Node
  PROVE  /\ Tree(parent', children')
         /\ \A m \in Node : parent'[m] = IF m \in nodes THEN Nobody ELSE parent[m]
<1>1. /\ nodes \subseteq Node /\ n \in nodes /\ Down(nodes, parent)
      /\ \A m \in nodes : m # n => parent[m] \in nodes
  BY BelowIs
<1>2. \A m \in Node : parent'[m] = IF m \in nodes THEN Nobody ELSE parent[m] BY DEF Destroyed
<1>3. \A q \in Node : children'[q] = IF q \in nodes THEN << >>
                                     ELSE IF q = parent[n] THEN RemoveFirst(children[q], n)
                                     ELSE children[q]
  BY DEF Destroyed, Without
<1>4. children' = [q \in Node |-> children'[q]]
  <2>1. \E f : children' = [m \in Node |-> IF m \in nodes THEN << >> ELSE f[m]] BY DEF Destroyed
  <2> QED BY <2>1
<1>5. ASSUME NEW q \in Node
      PROVE  /\ children'[q] \in Seq(Node) /\ IsInjective(children'[q])
             /\ \A m \in Node : parent'[m] = q <=> m \in ToSet(children'[q])
  <2>1. /\ children[q] \in Seq(Node) /\ IsInjective(children[q])
        /\ \A m \in Node : parent[m] = q <=> m \in ToSet(children[q])
    BY DEF Tree
  <2>2. CASE q \in nodes
    <3>1. children'[q] = << >> BY <1>3, <2>2
    <3>2. << >> \in Seq(Node) /\ IsInjective(<< >>) /\ ToSet(<< >>) = {} BY DEF IsInjective, ToSet
    <3>3. \A m \in Node : parent'[m] # q BY <1>1, <1>2, <2>2 DEF Down
    <3> QED BY <3>1, <3>2, <3>3
  <2>3. CASE q \notin nodes /\ q = parent[n]
    <3>1. /\ RemoveFirst(children[q], n) \in Seq(Node)
          /\ IsInjective(RemoveFirst(children[q], n))
          /\ ToSet(RemoveFirst(children[q], n)) = ToSet(children[q]) \ {n}
      BY <2>1, RemovedRest
    <3>2. \A m \in Node : parent'[m] = q <=> parent[m] = q /\ m # n BY <1>1, <1>2, <2>3
    <3> QED BY <1>3, <2>1, <2>3, <3>1, <3>2
  <2>4. CASE q \notin nodes /\ q # parent[n]
    <3>1. \A m \in Node : parent'[m] = q <=> parent[m] = q BY <1>1, <1>2, <2>4
    <3> QED BY <1>3, <2>1, <2>4, <3>1
  <2> QED BY <2>2, <2>3, <2>4
<1>6. children' \in [Node -> Seq(Node)] BY <1>4, <1>5
<1>7. parent' \in [Node -> Node \union {Nobody}]
  <2>1. parent' = [m \in Node |-> IF m \in nodes THEN Nobody ELSE parent[m]] BY DEF Destroyed
  <2>2. \A m \in Node : parent[m] \in Node \union {Nobody} BY DEF Tree
  <2> QED BY <2>1, <2>2
<1> QED BY <1>2, <1>5, <1>6, <1>7 DEF Tree

\* What the assumption says of the root and its id.
LEMMA SceneNumbers ==
  /\ Root \in Node /\ Nobody \notin Node /\ IdOf[Root] \in Ids
  /\ \A n \in Node : IdOf[n] \in Ids
  /\ \A n \in Node : n # Root => IdOf[n] # IdOf[Root]
BY SceneAssumption DEF Ids

\* An object adopted by one of the scene brings what is below it, and nothing else.
LEMMA SceneGrows ==
  ASSUME NEW pa, NEW kids, Tree(pa, kids), pa[Root] = Nobody, NEW n \in Node, n # Root,
         NEW p \in Below(kids, Root), p \notin Below(kids, n),
         NEW pb, NEW kidb, Tree(pb, kidb),
         \A c \in Node : pb[c] = IF c = n THEN p ELSE pa[c]
  PROVE  Below(kidb, Root) = Below(kids, Root) \union Below(kids, n)
<1> DEFINE A == Below(kids, Root)
           B == Below(kids, n)
           C == Below(kidb, Root)
<1>1. /\ A \subseteq Node /\ Root \in A /\ Down(A, pa)
      /\ \A S \in SUBSET Node : Root \in S /\ Down(S, pa) => A \subseteq S
  BY BelowIs, SceneNumbers
<1>2. /\ B \subseteq Node /\ n \in B /\ Down(B, pa)
      /\ \A S \in SUBSET Node : n \in S /\ Down(S, pa) => B \subseteq S
  BY BelowIs
<1>3. /\ C \subseteq Node /\ Root \in C /\ Down(C, pb)
      /\ \A S \in SUBSET Node : Root \in S /\ Down(S, pb) => C \subseteq S
  BY BelowIs, SceneNumbers
<1>4. \A c \in Node : pb[c] = IF c = n THEN p ELSE pa[c] OBVIOUS
<1>5. p \in A /\ p \notin B OBVIOUS
<1> HIDE DEF A, B, C
<1>6. C \subseteq A \union B
  <2> DEFINE S == A \union B
  <2>1. S \in SUBSET Node /\ Root \in S BY <1>1, <1>2
  <2>2. Down(S, pb) BY <1>1, <1>2, <1>4 DEF Down
  <2> HIDE DEF S
  <2>3. C \subseteq S BY <1>3, <2>1, <2>2
  <2> QED BY <2>3 DEF S
<1>7. A \subseteq C \union B
  <2> DEFINE S == C \union B
  <2>1. S \in SUBSET Node /\ Root \in S BY <1>2, <1>3
  <2>2. Down(S, pa) BY <1>2, <1>3, <1>4 DEF Down
  <2> HIDE DEF S
  <2>3. A \subseteq S BY <1>1, <2>1, <2>2
  <2> QED BY <2>3 DEF S
<1>8. n \in C
  <2>1. p \in C BY <1>5, <1>7
  <2> QED BY <1>3, <1>4, <2>1 DEF Down
<1>9. B \subseteq C
  <2> DEFINE S == B \intersect C
  <2>1. S \in SUBSET Node /\ n \in S BY <1>2, <1>8
  <2>2. Down(S, pa) BY <1>2, <1>3, <1>4, <1>8 DEF Down
  <2> HIDE DEF S
  <2>3. B \subseteq S BY <1>2, <2>1, <2>2
  <2> QED BY <2>3 DEF S
<1>10. C = A \union B BY <1>6, <1>7, <1>9
<1> QED BY <1>10 DEF A, B, C

\* An object outside, adopted outside, leaves the scene alone.
LEMMA SceneStays ==
  ASSUME NEW pa, NEW kids, Tree(pa, kids), NEW n \in Node, n \notin Below(kids, Root),
         NEW p \in Node, p \notin Below(kids, Root),
         NEW pb, NEW kidb, Tree(pb, kidb),
         \A c \in Node : pb[c] = IF c = n THEN p ELSE pa[c]
  PROVE  Below(kidb, Root) = Below(kids, Root)
<1> DEFINE A == Below(kids, Root)
           C == Below(kidb, Root)
<1>1. /\ A \subseteq Node /\ Root \in A /\ Down(A, pa)
      /\ \A S \in SUBSET Node : Root \in S /\ Down(S, pa) => A \subseteq S
  BY BelowIs, SceneNumbers
<1>2. /\ C \subseteq Node /\ Root \in C /\ Down(C, pb)
      /\ \A S \in SUBSET Node : Root \in S /\ Down(S, pb) => C \subseteq S
  BY BelowIs, SceneNumbers
<1>3. \A c \in Node : pb[c] = IF c = n THEN p ELSE pa[c] OBVIOUS
<1>4. n \notin A /\ p \notin A OBVIOUS
<1> HIDE DEF A, C
<1>5. Down(A, pb) BY <1>1, <1>3, <1>4 DEF Down
<1>6. C \subseteq A BY <1>1, <1>2, <1>5
<1>7. A \subseteq C
  <2> DEFINE S == A \intersect C
  <2>1. S \in SUBSET Node /\ Root \in S BY <1>1, <1>2
  <2>2. Down(S, pa) BY <1>1, <1>2, <1>3, <1>4 DEF Down
  <2> HIDE DEF S
  <2>3. A \subseteq S BY <1>1, <2>1, <2>2
  <2> QED BY <2>3 DEF S
<1> QED BY <1>6, <1>7 DEF A, C

\* A subtree taken apart is missing from the scene, and nothing else.
LEMMA SceneShrinks ==
  ASSUME NEW pa, NEW kids, Tree(pa, kids), pa[Root] = Nobody, NEW n \in Node, n # Root,
         NEW pb, NEW kidb, Tree(pb, kidb),
         \A m \in Node : pb[m] = IF m \in Below(kids, n) THEN Nobody ELSE pa[m]
  PROVE  Below(kidb, Root) = Below(kids, Root) \ Below(kids, n) /\ Root \notin Below(kids, n)
<1> DEFINE A == Below(kids, Root)
           B == Below(kids, n)
           C == Below(kidb, Root)
<1>1. /\ A \subseteq Node /\ Root \in A /\ Down(A, pa)
      /\ \A S \in SUBSET Node : Root \in S /\ Down(S, pa) => A \subseteq S
  BY BelowIs, SceneNumbers
<1>2. /\ B \subseteq Node /\ n \in B /\ Down(B, pa)
      /\ \A m \in B : m # n => pa[m] \in B
  BY BelowIs
<1>3. /\ C \subseteq Node /\ Root \in C /\ Down(C, pb)
      /\ \A S \in SUBSET Node : Root \in S /\ Down(S, pb) => C \subseteq S
  BY BelowIs, SceneNumbers
<1>4. \A m \in Node : pb[m] = IF m \in B THEN Nobody ELSE pa[m] OBVIOUS
<1> HIDE DEF A, B, C
<1>5. Root \notin B BY <1>2, SceneNumbers
<1>6. C \subseteq A \ B
  <2> DEFINE S == A \ B
  <2>1. S \in SUBSET Node /\ Root \in S BY <1>1, <1>5
  <2>2. Down(S, pb) BY <1>1, <1>2, <1>4, SceneNumbers DEF Down
  <2> HIDE DEF S
  <2>3. C \subseteq S BY <1>3, <2>1, <2>2
  <2> QED BY <2>3 DEF S
<1>7. A \subseteq C \union B
  <2> DEFINE S == C \union B
  <2>1. S \in SUBSET Node /\ Root \in S BY <1>2, <1>3
  <2>2. Down(S, pa) BY <1>2, <1>3, <1>4 DEF Down
  <2> HIDE DEF S
  <2>3. A \subseteq S BY <1>1, <2>1, <2>2
  <2> QED BY <2>3 DEF S
<1> QED BY <1>5, <1>6, <1>7 DEF A, B, C

\* The parts that a step leaves alone.
LEMMA RestStays ==
  ASSUME GraphInv, gone' = {}, Tree(parent', children'), parent'[Root] = Nobody,
         Registry(byId', InScene', thrown'), thrown' \in BOOLEAN, Fitted(has', owner')
  PROVE  GraphInv'
BY DEF GraphInv, Tree, Registry, Fitted, NothingDangles

\* Building a subtree outside.
LEMMA AddChildKeeps ==
  ASSUME GraphInv, NEW n \in Node, n # Root, NEW p \in Node, AddChild(p, n)
  PROVE  GraphInv'
<1>1. /\ Tree(parent, children) /\ parent[Root] = Nobody /\ Registry(byId, InScene, thrown)
      /\ thrown \in BOOLEAN /\ Fitted(has, owner)
  BY DEF GraphInv
<1>2. /\ p \notin Below(children, Root) /\ n \notin Below(children, Root)
      /\ p \notin Below(children, n) /\ Adopt(p, n) /\ gone' = {}
      /\ UNCHANGED <<byId, has, owner, thrown>>
  BY SubtreeIsBelow DEF AddChild
<1>3. p # n BY <1>1, <1>2, BelowIs
<1>4. Tree(parent', children') /\ \A c \in Node : parent'[c] = IF c = n THEN p ELSE parent[c]
  BY <1>1, <1>2, <1>3, AdoptMoves
<1>5. InScene' = InScene
  <2>1. Below(children', Root) = Below(children, Root) BY <1>1, <1>2, <1>4, SceneStays
  <2> QED BY <2>1, SubtreeIsBelow
<1>6. parent'[Root] = Nobody BY <1>1, <1>4, SceneNumbers DEF Tree
<1>7. Registry(byId', InScene', thrown') /\ thrown' \in BOOLEAN /\ Fitted(has', owner')
  BY <1>1, <1>2, <1>5
<1> QED BY <1>2, <1>4, <1>6, <1>7, RestStays

\* What is below an object is the object and what is below its children.
LEMMA BelowChildren ==
  ASSUME NEW pa, NEW kids, Tree(pa, kids), NEW n \in Node, NEW m \in Below(kids, n), m # n
  PROVE  \E i \in DOMAIN kids[n] : m \in Below(kids, kids[n][i])
<1>1. kids[n] \in Seq(Node) /\ \A c \in Node : pa[c] = n <=> c \in ToSet(kids[n]) BY DEF Tree
<1>2. \A i \in DOMAIN kids[n] : kids[n][i] \in Node BY <1>1
<1>3. ToSet(kids[n]) = {kids[n][i] : i \in DOMAIN kids[n]} BY <1>1 DEF ToSet
<1> DEFINE T == {x \in Below(kids, n) : x = n \/ \E i \in DOMAIN kids[n] : x \in Below(kids, kids[n][i])}
<1>4. /\ Below(kids, n) \subseteq Node /\ n \in Below(kids, n) /\ Down(Below(kids, n), pa)
      /\ \A S \in SUBSET Node : n \in S /\ Down(S, pa) => Below(kids, n) \subseteq S
  BY BelowIs
<1>5. Down(T, pa)
  <2> SUFFICES ASSUME NEW c \in Node, pa[c] \in T PROVE c \in T BY DEF Down
  <2>1. c \in Below(kids, n) BY <1>4 DEF Down
  <2>2. CASE pa[c] = n
    <3>1. PICK i \in DOMAIN kids[n] : c = kids[n][i] BY <1>1, <1>3, <2>2
    <3>2. c \in Below(kids, c) BY BelowIs
    <3> QED BY <2>1, <3>1, <3>2
  <2>3. CASE pa[c] # n
    <3>1. PICK i \in DOMAIN kids[n] : pa[c] \in Below(kids, kids[n][i]) BY <2>3
    <3>2. c \in Below(kids, kids[n][i])
      <4>1. Down(Below(kids, kids[n][i]), pa) BY <1>2, BelowIs
      <4> QED BY <3>1, <4>1 DEF Down
    <3> QED BY <2>1, <3>2
  <2> QED BY <2>2, <2>3
<1>6. T \in SUBSET Node /\ n \in T BY <1>4
<1>7. Below(kids, n) \subseteq T
  <2> HIDE DEF T
  <2> QED BY <1>4, <1>5, <1>6
<1> QED BY <1>7

\* Depth first is an order: of two objects in a tree one is visited before the other.
LEMMA OneIsBefore ==
  ASSUME Tree(parent, children), NEW n \in Node, NEW m \in Subtree(n), NEW k \in Subtree(n), m # k
  PROVE  Before(m, k) \/ Before(k, m)
<1> DEFINE B(x) == Below(children, x)
           T == {x \in B(n) : x = m \/ Before(m, x) \/ Before(x, m)}
<1>1. /\ B(n) \subseteq Node /\ n \in B(n) /\ Down(B(n), parent)
      /\ \A S \in SUBSET Node : n \in S /\ Down(S, parent) => B(n) \subseteq S
  BY BelowIs
<1>2. m \in B(n) /\ k \in B(n) /\ m \in Node BY <1>1, SubtreeIsBelow
<1>3. \A x, y : Before(x, y) <=>
        \/ y \in B(x) \ {x}
        \/ \E p \in Node : \E i, j \in DOMAIN children[p] :
             i < j /\ x \in B(children[p][i]) /\ y \in B(children[p][j])
  BY SubtreeIsBelow DEF Before
<1>4. \A x \in Node : x \in B(x) /\ Down(B(x), parent) BY BelowIs
<1>5. /\ \A p \in Node : \A i \in DOMAIN children[p] : children[p][i] \in Node
      /\ \A p \in Node : DOMAIN children[p] \subseteq Nat
      /\ \A c, p \in Node : parent[c] = p => \E i \in DOMAIN children[p] : c = children[p][i]
  <2> SUFFICES ASSUME NEW p \in Node
               PROVE  /\ \A i \in DOMAIN children[p] : children[p][i] \in Node
                      /\ DOMAIN children[p] \subseteq Nat
                      /\ \A c \in Node : parent[c] = p => \E i \in DOMAIN children[p] : c = children[p][i]
    OBVIOUS
  <2>1. children[p] \in Seq(Node) /\ \A c \in Node : parent[c] = p => c \in ToSet(children[p]) BY DEF Tree
  <2>2. ToSet(children[p]) = {children[p][i] : i \in DOMAIN children[p]} BY <2>1 DEF ToSet
  <2> QED BY <2>1, <2>2
<1>6. \A x \in Node : \A y \in B(x) : y # x => \E i \in DOMAIN children[x] : y \in B(children[x][i])
  BY BelowChildren
<1>7. n \in T BY <1>1, <1>2, <1>3
<1>8. Down(T, parent)
  <2> SUFFICES ASSUME NEW c \in Node, parent[c] \in T PROVE c \in T BY DEF Down
  <2> DEFINE x == parent[c]
  <2>1. c \in B(n) /\ x \in Node /\ x \in T BY <1>1 DEF Down
  <2>2. SUFFICES ASSUME c # m PROVE Before(m, c) \/ Before(c, m) BY <2>1
  <2>3. \A y \in Node : x \in B(y) => c \in B(y) BY <1>4 DEF Down
  <2> HIDE DEF B
  <2>4. CASE x = m \/ x \in B(m)
    <3>1. c \in B(m) BY <1>2, <1>4, <2>3, <2>4
    <3> QED BY <1>3, <2>2, <3>1
  <2>5. CASE \E p \in Node : \E i, j \in DOMAIN children[p] :
               i < j /\ m \in B(children[p][i]) /\ x \in B(children[p][j])
    <3>1. PICK p \in Node : \E i, j \in DOMAIN children[p] :
               i < j /\ m \in B(children[p][i]) /\ x \in B(children[p][j])
      BY <2>5
    <3>2. PICK i \in DOMAIN children[p], j \in DOMAIN children[p] :
               i < j /\ m \in B(children[p][i]) /\ x \in B(children[p][j])
      BY <3>1
    <3>3. c \in B(children[p][j]) BY <1>5, <2>3, <3>2
    <3> QED BY <1>3, <3>2, <3>3
  <2>6. CASE \E p \in Node : \E i, j \in DOMAIN children[p] :
               i < j /\ x \in B(children[p][i]) /\ m \in B(children[p][j])
    <3>1. PICK p \in Node : \E i, j \in DOMAIN children[p] :
               i < j /\ x \in B(children[p][i]) /\ m \in B(children[p][j])
      BY <2>6
    <3>2. PICK i \in DOMAIN children[p], j \in DOMAIN children[p] :
               i < j /\ x \in B(children[p][i]) /\ m \in B(children[p][j])
      BY <3>1
    <3>3. c \in B(children[p][i]) BY <1>5, <2>3, <3>2
    <3> QED BY <1>3, <3>2, <3>3
  <2>7. CASE m \in B(x) \ {x}
    <3>1. PICK i \in DOMAIN children[x] : m \in B(children[x][i]) BY <1>6, <2>1, <2>7
    <3>2. PICK j \in DOMAIN children[x] : c = children[x][j] BY <1>5, <2>1
    <3>3. c \in B(children[x][j]) BY <1>4, <3>2
    <3>4. CASE i = j
      <4>1. m \in B(c) BY <3>1, <3>2, <3>4
      <4> QED BY <1>3, <2>2, <4>1
    <3>5. CASE i # j
      <4>1. i \in Nat /\ j \in Nat BY <1>5, <2>1
      <4>2. i < j \/ j < i BY <3>5, <4>1
      <4> QED BY <1>3, <2>1, <3>1, <3>3, <4>2
    <3> QED BY <3>4, <3>5
  <2> QED BY <1>3, <2>1, <2>4, <2>5, <2>6, <2>7
<1>9. B(n) \subseteq T
  <2>1. T \in SUBSET Node BY <1>1
  <2> HIDE DEF T
  <2> QED BY <1>1, <1>7, <1>8, <2>1
<1> QED BY <1>2, <1>9

\* Adding to the scene: what is indexed is in it, and all of it is unless index throws.
LEMMA AddEntityKeeps ==
  ASSUME GraphInv, NEW n \in Node, n # Root, NEW p \in Node, AddEntity(n, p)
  PROVE  GraphInv'
<1> DEFINE nodes == Subtree(n)
           clashing == Clashing(nodes)
           indexed == {m \in nodes : \A k \in clashing : m # k /\ ~Before(k, m)}
<1>1. /\ Tree(parent, children) /\ parent[Root] = Nobody /\ Registry(byId, InScene, thrown)
      /\ thrown \in BOOLEAN /\ Fitted(has, owner)
  BY DEF GraphInv
<1>2. /\ p \in InScene /\ p \notin nodes /\ Adopt(p, n) /\ gone' = {}
      /\ byId' = [i \in Ids |-> IF \E m \in indexed : IdOf[m] = i
                                THEN CHOOSE m \in indexed : IdOf[m] = i ELSE byId[i]]
      /\ thrown' = (thrown \/ clashing # {})
      /\ UNCHANGED <<has, owner>>
  BY DEF AddEntity
<1>3. nodes = Below(children, n) /\ nodes \subseteq Node /\ n \in nodes BY <1>1, BelowIs, SubtreeIsBelow
<1>4. indexed \subseteq nodes OBVIOUS
<1>5. clashing = {} => indexed = nodes OBVIOUS
<1>6. clashing = {} => \A m, k \in nodes : IdOf[m] = IdOf[k] => m = k
  <2> SUFFICES ASSUME clashing = {}, NEW m \in nodes, NEW k \in nodes, IdOf[m] = IdOf[k], m # k
               PROVE  FALSE
    OBVIOUS
  <2>1. Before(m, k) \/ Before(k, m) BY <1>1, OneIsBefore
  <2>2. k \in clashing \/ m \in clashing BY <2>1 DEF Clashing
  <2> QED BY <2>2
<1> HIDE DEF nodes, clashing, indexed
<1>7. p # n BY <1>2, <1>3
<1>8. Tree(parent', children') /\ \A c \in Node : parent'[c] = IF c = n THEN p ELSE parent[c]
  BY <1>1, <1>2, <1>7, AdoptMoves
<1>9. parent'[Root] = Nobody BY <1>1, <1>8, SceneNumbers DEF Tree
<1>10. InScene' = InScene \union nodes
  <2>1. p \in Below(children, Root) /\ p \notin Below(children, n) BY <1>2, <1>3, SubtreeIsBelow
  <2>2. Below(children', Root) = Below(children, Root) \union Below(children, n)
    BY <1>1, <1>8, <2>1, SceneGrows
  <2> QED BY <1>3, <2>2, SubtreeIsBelow
<1>11. thrown' \in BOOLEAN /\ Fitted(has', owner') BY <1>1, <1>2
<1>12. ASSUME NEW i \in Ids
       PROVE  \/ byId'[i] \in indexed /\ IdOf[byId'[i]] = i
              \/ byId'[i] = byId[i] /\ \A m \in indexed : IdOf[m] # i
  <2>1. CASE \E m \in indexed : IdOf[m] = i
    <3>1. byId'[i] = CHOOSE m \in indexed : IdOf[m] = i BY <1>2, <2>1
    <3> QED BY <2>1, <3>1
  <2>2. CASE ~ \E m \in indexed : IdOf[m] = i BY <1>2, <2>2
  <2> QED BY <2>1, <2>2
<1>13. Registry(byId', InScene', thrown')
  <2>1. byId' \in [Ids -> Node \union {Nobody}]
    <3>1. DOMAIN byId' = Ids /\ byId' = [i \in Ids |-> byId'[i]] BY <1>2
    <3>2. \A i \in Ids : byId'[i] \in Node \union {Nobody} BY <1>1, <1>3, <1>4, <1>12 DEF Registry
    <3> QED BY <3>1, <3>2
  <2>2. byId'[IdOf[Root]] = Root
    <3>1. \A m \in indexed : IdOf[m] = IdOf[Root] => m = Root BY <1>3, <1>4, SceneNumbers
    <3> QED BY <1>1, <1>12, <3>1, SceneNumbers DEF Registry
  <2>3. \A i \in Ids : byId'[i] # Nobody => IdOf[byId'[i]] = i /\ byId'[i] \in InScene'
    BY <1>1, <1>4, <1>10, <1>12 DEF Registry
  <2>4. ASSUME ~thrown', NEW m \in InScene' PROVE byId'[IdOf[m]] = m
    <3>1. ~thrown /\ clashing = {} BY <1>2, <2>4
    <3>2. m \in Node
      <4>1. InScene \subseteq Node BY <1>1, BelowIs, SubtreeIsBelow, SceneNumbers
      <4> QED BY <1>3, <1>10, <2>4, <4>1
    <3>3. IdOf[m] \in Ids BY <3>2, SceneNumbers
    <3>4. CASE m \in nodes
      <4>1. m \in indexed BY <1>5, <3>1, <3>4
      <4>2. byId'[IdOf[m]] \in nodes /\ IdOf[byId'[IdOf[m]]] = IdOf[m] BY <1>4, <1>12, <3>3, <4>1
      <4> QED BY <1>6, <3>1, <3>4, <4>2
    <3>5. CASE m \notin nodes
      <4>1. m \in InScene BY <1>10, <2>4, <3>5
      <4>2. byId[IdOf[m]] = m BY <1>1, <3>1, <4>1 DEF Registry
      <4>3. ASSUME NEW k \in indexed, IdOf[k] = IdOf[m] PROVE FALSE
        <5>1. k \in nodes /\ k \notin clashing BY <1>4, <3>1, <4>3
        <5>2. byId[IdOf[k]] \in {Nobody, k} BY <5>1 DEF clashing, Clashing
        <5>3. m # Nobody BY <3>2, SceneNumbers
        <5> QED BY <3>5, <4>2, <4>3, <5>1, <5>2, <5>3
      <4> QED BY <1>12, <3>3, <4>2, <4>3
    <3> QED BY <3>4, <3>5
  <2> QED BY <2>1, <2>2, <2>3, <2>4 DEF Registry
<1> QED BY <1>2, <1>8, <1>9, <1>11, <1>13, RestStays

\* Removing from the scene: the registry forgets what is taken apart, and nothing else.
LEMMA RemoveEntityKeeps == ASSUME GraphInv, NEW i \in Ids, RemoveEntity(i) PROVE GraphInv'
<1> DEFINE n == byId[i]
           nodes == Subtree(n)
<1>1. /\ Tree(parent, children) /\ parent[Root] = Nobody /\ Registry(byId, InScene, thrown)
      /\ thrown \in BOOLEAN /\ Fitted(has, owner)
  BY DEF GraphInv
<1>2. /\ n \notin {Nobody, Root} /\ Destroyed(n, nodes) /\ thrown' = thrown
      /\ byId' = [j \in Ids |-> IF \E m \in nodes : IdOf[m] = j THEN Nobody ELSE byId[j]]
  BY DEF RemoveEntity
<1>3. n \in Node /\ n # Root /\ n \in InScene BY <1>1, <1>2 DEF Registry
<1> HIDE DEF n
<1>4. /\ nodes = Below(children, n) /\ nodes \subseteq Node /\ n \in nodes
      /\ Down(nodes, parent)
      /\ \A S \in SUBSET Node : n \in S /\ Down(S, parent) => nodes \subseteq S
  BY <1>1, <1>3, BelowIs, SubtreeIsBelow
<1>5. InScene \subseteq Node /\ Down(InScene, parent) BY <1>1, BelowIs, SubtreeIsBelow, SceneNumbers
<1> HIDE DEF nodes
<1>6. nodes \subseteq InScene BY <1>3, <1>4, <1>5
<1>7. /\ Tree(parent', children')
      /\ \A m \in Node : parent'[m] = IF m \in nodes THEN Nobody ELSE parent[m]
  BY <1>1, <1>2, <1>3, <1>4, DestroyTakes, SceneNumbers
<1>8. InScene' = InScene \ nodes /\ Root \notin nodes
  <2>1. Below(children', Root) = Below(children, Root) \ Below(children, n)
        /\ Root \notin Below(children, n)
    BY <1>1, <1>3, <1>4, <1>7, SceneShrinks
  <2> QED BY <1>4, <2>1, SubtreeIsBelow
<1>9. parent'[Root] = Nobody BY <1>1, <1>7, <1>8, SceneNumbers
<1>10. \A j \in Ids : byId'[j] = IF \E m \in nodes : IdOf[m] = j THEN Nobody ELSE byId[j] BY <1>2
<1>11. Registry(byId', InScene', thrown')
  <2>1. byId' \in [Ids -> Node \union {Nobody}]
    <3>1. \A j \in Ids : byId[j] \in Node \union {Nobody} BY <1>1 DEF Registry
    <3> QED BY <1>2, <3>1
  <2>2. byId'[IdOf[Root]] = Root
    <3>1. \A m \in nodes : IdOf[m] # IdOf[Root] BY <1>4, <1>8, SceneNumbers
    <3> QED BY <1>1, <1>10, <3>1, SceneNumbers DEF Registry
  <2>3. ASSUME NEW j \in Ids, byId'[j] # Nobody PROVE IdOf[byId'[j]] = j /\ byId'[j] \in InScene'
    <3>1. byId'[j] = byId[j] /\ \A m \in nodes : IdOf[m] # j BY <1>10, <2>3
    <3>2. IdOf[byId[j]] = j /\ byId[j] \in InScene BY <1>1, <2>3, <3>1 DEF Registry
    <3> QED BY <1>8, <3>1, <3>2
  <2>4. ASSUME ~thrown', NEW m \in InScene' PROVE byId'[IdOf[m]] = m
    <3>1. ~thrown /\ m \in InScene /\ m \notin nodes BY <1>2, <1>8, <2>4
    <3>2. \A k \in InScene : byId[IdOf[k]] = k BY <1>1, <3>1 DEF Registry
    <3>3. \A k \in nodes : IdOf[k] # IdOf[m] BY <1>6, <3>1, <3>2
    <3>4. IdOf[m] \in Ids BY <1>5, <3>1, SceneNumbers
    <3> QED BY <1>10, <3>1, <3>2, <3>3, <3>4
  <2> QED BY <2>1, <2>2, <2>3, <2>4 DEF Registry
<1>12. /\ has' = [m \in Node |-> IF m \in nodes THEN {} ELSE has[m]]
       /\ owner' = [c \in Component |-> IF \E m \in nodes : c \in has[m] THEN Nobody ELSE owner[c]]
       /\ children' = [m \in Node |-> IF m \in nodes THEN << >> ELSE Without(n)[m]]
       /\ gone' = nodes
  BY <1>2 DEF Destroyed
<1>13. \A m \in Node : has'[m] = IF m \in nodes THEN {} ELSE has[m] BY <1>12
<1>14. \A c \in Component : owner'[c] = IF \E m \in nodes : c \in has[m] THEN Nobody ELSE owner[c]
  BY <1>12
<1>15. \A m \in Node, c \in Component : owner'[c] = m => owner[c] = m /\ m \notin nodes /\ c \in has'[m]
  BY <1>1, <1>13, <1>14, SceneNumbers DEF Fitted
<1>16. Fitted(has', owner')
  <2>1. \A m \in Node : has[m] \in SUBSET Component BY <1>1 DEF Fitted
  <2>2. has' \in [Node -> SUBSET Component] BY <1>12, <2>1
  <2>3. \A c \in Component : owner[c] \in Node \union {Nobody} BY <1>1 DEF Fitted
  <2>4. owner' \in [Component -> Node \union {Nobody}] BY <1>12, <2>3
  <2>5. \A m \in Node, c, d \in Component :
          {c, d} \subseteq has'[m] /\ TypeOf[c] = TypeOf[d] => c = d
    BY <1>1, <1>13 DEF Fitted
  <2> QED BY <1>15, <2>2, <2>4, <2>5 DEF Fitted
<1>17. NothingDangles'
  <2>1. \A m \in nodes : parent'[m] = Nobody /\ children'[m] = << >> /\ has'[m] = {}
    BY <1>4, <1>7, <1>12
  <2>2. \A m \in nodes, c \in Component : owner'[c] # m BY <1>4, <1>15
  <2> QED BY <1>12, <2>1, <2>2 DEF NothingDangles
<1>18. gone' \subseteq Node /\ thrown' \in BOOLEAN BY <1>1, <1>2, <1>4, <1>12
<1> QED BY <1>7, <1>9, <1>11, <1>16, <1>17, <1>18 DEF GraphInv, Tree, Registry, Fitted

\* Components are put on and taken off.
LEMMA ComponentKeeps ==
  ASSUME GraphInv, NEW n \in Node, NEW c \in Component, AddComponent(n, c) \/ RemoveComponent(n, c)
  PROVE  GraphInv'
<1>1. /\ Tree(parent, children) /\ parent[Root] = Nobody /\ Registry(byId, InScene, thrown)
      /\ thrown \in BOOLEAN /\ Fitted(has, owner)
  BY DEF GraphInv
<1>2. UNCHANGED <<parent, children, byId, thrown>> /\ gone' = {} BY DEF AddComponent, RemoveComponent
<1>3. InScene' = InScene BY <1>2, SubtreeIsBelow
<1>4. Fitted(has', owner')
  <2>1. CASE AddComponent(n, c)
    <3>1. /\ \A d \in has[n] : TypeOf[d] # TypeOf[c]
          /\ has' = [has EXCEPT ![n] = @ \union {c}]
          /\ owner' = IF owner[c] \in {Nobody, n} THEN [owner EXCEPT ![c] = n] ELSE owner
      BY <2>1 DEF AddComponent
    <3>2. \A m \in Node : has'[m] = IF m = n THEN has[m] \union {c} ELSE has[m]
      BY <1>1, <3>1 DEF Fitted
    <3>3. has' \in [Node -> SUBSET Component] /\ owner' \in [Component -> Node \union {Nobody}]
      BY <1>1, <3>1 DEF Fitted
    <3>4. ASSUME NEW m \in Node, NEW d \in Component, NEW e \in Component,
                 d \in has'[m], e \in has'[m], TypeOf[d] = TypeOf[e]
          PROVE  d = e
      <4>1. {d, e} \subseteq has[m] => d = e BY <1>1, <3>4 DEF Fitted
      <4>2. (d \in has[m] \/ (m = n /\ d = c)) /\ (e \in has[m] \/ (m = n /\ e = c)) BY <3>2, <3>4
      <4> QED BY <3>1, <3>4, <4>1, <4>2
    <3>5. \A d \in Component : owner'[d] = owner[d] \/ (d = c /\ owner'[d] = n)
      BY <1>1, <3>1 DEF Fitted
    <3>6. ASSUME NEW m \in Node, NEW d \in Component, owner'[d] = m PROVE d \in has'[m]
      <4>1. owner[d] = m => d \in has[m] BY <1>1 DEF Fitted
      <4> QED BY <3>2, <3>5, <3>6, <4>1
    <3> QED BY <3>3, <3>4, <3>6 DEF Fitted
  <2>2. CASE RemoveComponent(n, c)
    <3>1. has' = [has EXCEPT ![n] = @ \ {c}] /\ owner' = [owner EXCEPT ![c] = Nobody]
      BY <2>2 DEF RemoveComponent
    <3>2. \A m \in Node : has'[m] = IF m = n THEN has[m] \ {c} ELSE has[m]
      BY <1>1, <3>1 DEF Fitted
    <3>3. \A d \in Component : owner'[d] = IF d = c THEN Nobody ELSE owner[d]
      BY <1>1, <3>1 DEF Fitted
    <3>4. has' \in [Node -> SUBSET Component] /\ owner' \in [Component -> Node \union {Nobody}]
      BY <1>1, <3>1 DEF Fitted
    <3>5. \A m \in Node : has'[m] \subseteq has[m] /\ \A d \in has[m] : d # c => d \in has'[m]
      BY <3>2
    <3>6. ASSUME NEW m \in Node, NEW d \in Component, NEW e \in Component,
                 d \in has'[m], e \in has'[m], TypeOf[d] = TypeOf[e]
          PROVE  d = e
      <4>1. {d, e} \subseteq has[m] BY <3>5, <3>6
      <4> QED BY <1>1, <3>6, <4>1 DEF Fitted
    <3>7. ASSUME NEW m \in Node, NEW d \in Component, owner'[d] = m PROVE d \in has'[m]
      <4>1. d # c /\ owner[d] = m BY <3>3, <3>7, SceneNumbers
      <4>2. d \in has[m] BY <1>1, <4>1 DEF Fitted
      <4> QED BY <3>5, <4>1, <4>2
    <3> QED BY <3>4, <3>6, <3>7 DEF Fitted
  <2> QED BY <2>1, <2>2
<1>5. Tree(parent', children') /\ parent'[Root] = Nobody /\ Registry(byId', InScene', thrown')
      /\ thrown' \in BOOLEAN
  BY <1>1, <1>2, <1>3
<1> QED BY <1>2, <1>4, <1>5, RestStays

\* The invariant holds at first: the root is alone.
LEMMA GraphInvInit == GraphInit => GraphInv
<1> SUFFICES ASSUME GraphInit PROVE GraphInv OBVIOUS
<1>1. /\ parent = [n \in Node |-> Nobody] /\ children = [n \in Node |-> << >>]
      /\ byId = [i \in Ids |-> IF i = IdOf[Root] THEN Root ELSE Nobody]
      /\ has = [n \in Node |-> {}] /\ owner = [c \in Component |-> Nobody]
      /\ gone = {} /\ thrown = FALSE
  BY DEF GraphInit
<1>2. Tree(parent, children)
  <2>1. << >> \in Seq(Node) /\ IsInjective(<< >>) /\ ToSet(<< >>) = {} BY DEF IsInjective, ToSet
  <2> QED BY <1>1, <2>1, SceneNumbers DEF Tree
<1>3. InScene = {Root}
  <2>1. /\ Root \in InScene /\ InScene \subseteq Node
        /\ \A S \in SUBSET Node : Root \in S /\ Down(S, parent) => InScene \subseteq S
    BY <1>2, BelowIs, SubtreeIsBelow, SceneNumbers
  <2>2. {Root} \in SUBSET Node /\ Down({Root}, parent) BY <1>1, SceneNumbers DEF Down
  <2>3. InScene \subseteq {Root} BY <2>1, <2>2
  <2> QED BY <2>1, <2>3
<1>4. Registry(byId, InScene, thrown) BY <1>1, <1>3, SceneNumbers DEF Registry
<1>5. Fitted(has, owner) BY <1>1, SceneNumbers DEF Fitted
<1>6. parent[Root] = Nobody /\ NothingDangles BY <1>1, SceneNumbers DEF NothingDangles
<1> QED BY <1>1, <1>2, <1>4, <1>5, <1>6 DEF GraphInv

\* Every operation preserves it.
LEMMA GraphInvNext == GraphInv /\ [GraphNext]_graphVars => GraphInv'
<1> SUFFICES ASSUME GraphInv, [GraphNext]_graphVars PROVE GraphInv' OBVIOUS
<1>1. CASE UNCHANGED graphVars
  <2>1. InScene' = InScene BY <1>1, SubtreeIsBelow DEF graphVars
  <2> QED BY <1>1, <2>1 DEF graphVars, GraphInv, NothingDangles
<1> QED BY <1>1, AddChildKeeps, AddEntityKeeps, RemoveEntityKeeps, ComponentKeeps DEF GraphNext

\* For any objects, ids and components, also when ids are given twice or a component is
\* offered twice: parents and children are one tree, what left the scene can no longer be
\* looked up and is bare, and what is in it can be looked up as long as no addEntity has
\* thrown half-way (addChild, removeChild, destroy, addEntity, removeEntity, index).
THEOREM IndexAlwaysFollows == GraphSpec => []IndexFollowsTree
<1>1. GraphInv => IndexFollowsTree
  <2> SUFFICES ASSUME GraphInv PROVE IndexFollowsTree OBVIOUS
  <2>1. /\ Tree(parent, children) /\ Registry(byId, InScene, thrown) /\ Fitted(has, owner)
        /\ NothingDangles
    BY DEF GraphInv
  <2>2. GraphTypeOK BY <2>1 DEF GraphTypeOK, Tree, Registry, Fitted
  <2>3. TreeIsOne BY <2>1, TreeIsTree DEF TreeIsOne
  <2>4. IndexIsTree
    <3> DEFINE known == {byId[i] : i \in Ids} \ {Nobody}
    <3>1. InScene \subseteq Node BY <2>1, BelowIs, SubtreeIsBelow, SceneNumbers
    <3>2. known \subseteq InScene BY <2>1 DEF Registry
    <3>3. ~thrown => InScene \subseteq known BY <2>1, <3>1, SceneNumbers DEF Registry
    <3> QED BY <3>2, <3>3 DEF IndexIsTree
  <2> QED BY <2>1, <2>2, <2>3, <2>4 DEF IndexFollowsTree
<1> QED BY <1>1, GraphInvInit, GraphInvNext, PTL DEF GraphSpec
=============================================================================
