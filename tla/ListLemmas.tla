---------------------------- MODULE ListLemmas ----------------------------
(***************************************************************************)
(* Facts about numbers, sequences and the operators of SequencesExt that   *)
(* the proofs of several components need.                                  *)
(***************************************************************************)
EXTENDS Integers, SequencesExt, SequenceTheorems, WellFoundedInduction, TLAPS

-----------------------------------------------------------------------------
(* Numbers                                                                  *)

\* The order of the naturals, as a well-founded relation.
LEMMA NaturalOrder ==
  \E less : /\ IsWellFoundedOn(less, Nat)
            /\ \A a, b \in Nat : <<a, b>> \in less <=> a < b
<1>1. IsWellFoundedOn(OpToRel(<, Nat), Nat) BY NatLessThanWellFounded
<1>2. \A a, b \in Nat : <<a, b>> \in OpToRel(<, Nat) <=> a < b BY DEF OpToRel
<1> QED BY <1>1, <1>2

\* A non-empty set of naturals has a least element.
LEMMA Least ==
  ASSUME NEW S, S \subseteq Nat, S # {}
  PROVE  \E n \in S : \A k \in S : n <= k
<1>1. PICK less : /\ IsWellFoundedOn(less, Nat)
                  /\ \A a, b \in Nat : <<a, b>> \in less <=> a < b
  BY NaturalOrder
<1>2. \E n \in S : \A k \in S : ~ (<<k, n>> \in less)
  <2>1. IsWellFoundedOn(less, Nat) BY <1>1
  <2> QED BY <2>1, WFMin, Zenon
<1>3. PICK n \in S : \A k \in S : ~ (<<k, n>> \in less) BY <1>2
<1>4. \A k \in S : k \in Nat /\ n \in Nat /\ ~(k < n) BY <1>1, <1>3
<1> QED BY <1>4

\* A non-empty set of naturals that a bound limits has a greatest element.
LEMMA Greatest ==
  ASSUME NEW N \in Nat, NEW S, S \subseteq 0..N, S # {}
  PROVE  \E n \in S : \A k \in S : k <= n
<1> DEFINE room == {N - k : k \in S}
<1>1. \A k \in S : k \in 0..N /\ N - k \in Nat OBVIOUS
<1>2. room \subseteq Nat /\ room # {} BY <1>1
<1>3. PICK x \in room : \A y \in room : x <= y
  <2> HIDE DEF room
  <2> QED BY <1>2, Least
<1>4. PICK n \in S : x = N - n OBVIOUS
<1>5. \A k \in S : N - n <= N - k BY <1>3, <1>4
<1> QED BY <1>1, <1>4, <1>5

\* Min names the least element.
LEMMA MinIsLeast ==
  ASSUME NEW S, S \subseteq Nat, S # {}
  PROVE  Min(S) \in S /\ \A k \in S : Min(S) <= k
BY Least DEF Min

\* A set of numbers that holds 0, and with each number the next, up to n, holds n.
LEMMA CountUp ==
  ASSUME NEW n \in Nat, NEW S, 0 \in S, \A k \in 0..(n - 1) : k \in S => k + 1 \in S
  PROVE  \A k \in 0..n : k \in S
<1> DEFINE missing == {k \in 0..n : k \notin S}
<1>1. SUFFICES ASSUME missing # {} PROVE FALSE OBVIOUS
<1>2. missing \subseteq Nat OBVIOUS
<1>3. PICK m \in missing : \A k \in missing : m <= k
  <2> HIDE DEF missing
  <2> QED BY <1>1, <1>2, Least
<1>4. m \in 1..n /\ m - 1 \in 0..(n - 1) OBVIOUS
<1>5. m - 1 \in S BY <1>3, <1>4
<1> QED BY <1>4, <1>5

-----------------------------------------------------------------------------
(* Sequences                                                                *)

\* The elements of one sequence after another, by where they come from.
LEMMA Joined ==
  ASSUME NEW S, NEW s \in Seq(S), NEW u \in Seq(S), NEW all, all = s \o u, NEW n, n = Len(s)
  PROVE  /\ all \in Seq(S) /\ Len(all) = n + Len(u)
         /\ \A i \in 1..n : all[i] = s[i]
         /\ \A i \in 1..Len(all) : i > n => i - n \in 1..Len(u) /\ all[i] = u[i - n]
<1>1. s \o u \in Seq(S) /\ Len(s \o u) = Len(s) + Len(u) OBVIOUS
<1>2. \A i \in 1..(Len(s) + Len(u)) : (s \o u)[i] = IF i <= Len(s) THEN s[i] ELSE u[i - Len(s)]
  OBVIOUS
<1>3. Len(s) \in Nat /\ Len(u) \in Nat OBVIOUS
<1>4. \A i \in 1..Len(s) : (s \o u)[i] = s[i] BY <1>2, <1>3
<1>5. \A i \in 1..(Len(s) + Len(u)) : i > Len(s) => /\ i - Len(s) \in 1..Len(u)
                                                 /\ (s \o u)[i] = u[i - Len(s)]
  <2> TAKE i \in 1..(Len(s) + Len(u))
  <2>1. (s \o u)[i] = IF i <= Len(s) THEN s[i] ELSE u[i - Len(s)] BY <1>2
  <2> QED BY <1>3, <2>1
<1> QED BY <1>1, <1>4, <1>5

\* Contains, said of the set of elements.
LEMMA ContainsIsIn ==
  ASSUME NEW S, NEW s \in Seq(S), NEW e
  PROVE  Contains(s, e) <=> e \in ToSet(s)
BY DEF Contains, ToSet

\* One more element.
LEMMA AppendedSet ==
  ASSUME NEW S, NEW s \in Seq(S), NEW e \in S
  PROVE  ToSet(Append(s, e)) = ToSet(s) \union {e}
<1> DEFINE n == Len(s)
           a == Append(s, e)
<1>1. /\ n \in Nat /\ DOMAIN s = 1..n /\ DOMAIN a = 1..(n + 1)
      /\ \A i \in 1..n : a[i] = s[i]
      /\ a[n + 1] = e
  OBVIOUS
<1> HIDE DEF n, a
<1>2. \A i : i \in 1..(n + 1) <=> i \in 1..n \/ i = n + 1 BY <1>1
<1>3. ToSet(a) = ToSet(s) \union {e} BY <1>1, <1>2 DEF ToSet
<1> QED BY <1>3 DEF a

\* Appending to a sequence without repetitions what is not in it.
LEMMA AppendedAlone ==
  ASSUME NEW S, NEW s \in Seq(S), NEW e \in S, IsInjective(s), e \notin ToSet(s)
  PROVE  IsInjective(Append(s, e)) /\ ToSet(Append(s, e)) = ToSet(s) \union {e}
<1>1. /\ Len(s) \in Nat /\ DOMAIN s = 1..Len(s) /\ DOMAIN Append(s, e) = 1..(Len(s) + 1)
      /\ \A i \in 1..Len(s) : Append(s, e)[i] = s[i]
      /\ Append(s, e)[Len(s) + 1] = e
  OBVIOUS
<1> DEFINE n == Len(s)
           a == Append(s, e)
<1> HIDE DEF n, a
<1>2. /\ n \in Nat /\ DOMAIN s = 1..n /\ DOMAIN a = 1..(n + 1)
      /\ \A i \in 1..n : a[i] = s[i]
      /\ a[n + 1] = e
  BY <1>1 DEF n, a
<1>3. \A i \in 1..n : s[i] # e BY <1>2 DEF ToSet
<1>4. \A i \in 1..(n + 1) : i \in 1..n \/ i = n + 1 BY <1>2
<1>5. \A i, j \in 1..n : s[i] = s[j] => i = j BY <1>2 DEF IsInjective
<1>6. \A i, j \in 1..(n + 1) : a[i] = a[j] => i = j BY <1>2, <1>3, <1>4, <1>5
<1>7. IsInjective(a) BY <1>2, <1>6 DEF IsInjective
<1>8. \A x \in ToSet(a) : x \in ToSet(s) \union {e} BY <1>2, <1>4 DEF ToSet
<1>9. \A x \in ToSet(s) : x \in ToSet(a)
  <2>1. \A i \in 1..n : i \in 1..(n + 1) BY <1>2
  <2> QED BY <1>2, <2>1 DEF ToSet
<1>10. e \in ToSet(a)
  <2>1. n + 1 \in 1..(n + 1) BY <1>2
  <2> QED BY <1>2, <2>1 DEF ToSet
<1> QED BY <1>7, <1>8, <1>9, <1>10 DEF a

\* Two lists with nothing in common.
LEMMA JoinedAlone ==
  ASSUME NEW S, NEW s \in Seq(S), NEW u \in Seq(S), ToSet(s) \intersect ToSet(u) = {}
  PROVE  /\ s \o u \in Seq(S) /\ ToSet(s \o u) = ToSet(s) \union ToSet(u)
         /\ IsInjective(s) /\ IsInjective(u) => IsInjective(s \o u)
<1> DEFINE a == s \o u
           n == Len(s)
           m == Len(u)
<1>1. /\ n \in Nat /\ m \in Nat /\ DOMAIN s = 1..n /\ DOMAIN u = 1..m /\ a \in Seq(S)
      /\ DOMAIN a = 1..(n + m)
  OBVIOUS
<1>2. /\ \A i \in 1..n : a[i] = s[i]
      /\ \A i \in 1..(n + m) : i > n => i - n \in 1..m /\ a[i] = u[i - n]
  <2>1. Len(a) = n + m BY <1>1
  <2> QED BY <2>1, Joined
<1> HIDE DEF a, n, m
<1>3. \A i \in 1..(n + m) : i \in 1..n \/ (i > n /\ i - n \in 1..m) BY <1>1
<1>4. \A i \in 1..(n + m) : IF i \in 1..n THEN a[i] \in ToSet(s) ELSE a[i] \in ToSet(u)
  BY <1>1, <1>2, <1>3 DEF ToSet
<1>5. ToSet(a) \subseteq ToSet(s) \union ToSet(u)
  <2>1. ToSet(a) = {a[i] : i \in 1..(n + m)} BY <1>1 DEF ToSet
  <2> QED BY <2>1, <1>4
<1>6. ToSet(s) \subseteq ToSet(a)
  <2>1. \A i \in 1..n : i \in 1..(n + m) BY <1>1
  <2> QED BY <1>1, <1>2, <2>1 DEF ToSet
<1>7. ToSet(u) \subseteq ToSet(a)
  <2>1. \A i \in 1..m : i + n \in 1..(n + m) /\ i + n > n /\ (i + n) - n = i BY <1>1
  <2>2. \A i \in 1..m : i + n \in 1..(n + m) /\ a[i + n] = u[i]
    <3> TAKE i \in 1..m
    <3>1. i + n \in 1..(n + m) /\ i + n > n /\ (i + n) - n = i BY <2>1
    <3>2. a[i + n] = u[(i + n) - n] BY <1>2, <3>1
    <3> QED BY <3>1, <3>2
  <2> QED BY <1>1, <2>2 DEF ToSet
<1>8. ASSUME IsInjective(s), IsInjective(u) PROVE IsInjective(a)
  <2>1. \A i, j \in 1..n : s[i] = s[j] => i = j BY <1>1, <1>8 DEF IsInjective
  <2>2. \A i, j \in 1..m : u[i] = u[j] => i = j BY <1>1, <1>8 DEF IsInjective
  <2>3. ASSUME NEW i \in 1..(n + m), NEW j \in 1..(n + m), a[i] = a[j] PROVE i = j
    <3>1. i \in 1..n <=> j \in 1..n BY <1>4, <2>3
    <3>2. CASE i \in 1..n BY <1>2, <2>1, <2>3, <3>1, <3>2
    <3>3. CASE i \notin 1..n
      <4>1. /\ i > n /\ j > n /\ i - n \in 1..m /\ j - n \in 1..m
            /\ a[i] = u[i - n] /\ a[j] = u[j - n]
        BY <1>2, <1>3, <3>1, <3>3
      <4>2. i - n = j - n BY <2>2, <2>3, <4>1
      <4> QED BY <1>1, <4>2
    <3> QED BY <3>2, <3>3
  <2> QED BY <1>1, <2>3 DEF IsInjective
<1> QED BY <1>1, <1>5, <1>6, <1>7, <1>8 DEF a

\* A sequence with one of its elements replaced.
LEMMA Replaced ==
  ASSUME NEW S, NEW s \in Seq(S), NEW i \in 1..Len(s), NEW e \in S, NEW r, r = [s EXCEPT ![i] = e]
  PROVE  /\ r \in Seq(S) /\ Len(r) = Len(s) /\ r[i] = e
         /\ \A j \in 1..Len(s) : j # i => r[j] = s[j]
OBVIOUS

\* What RemoveFirst takes out: the first place that holds the element, if there is one.
LEMMA RemovedPlace ==
  ASSUME NEW S, NEW q \in Seq(S), NEW e
  PROVE  \/ /\ \A j \in DOMAIN q : q[j] # e
            /\ RemoveFirst(q, e) = q
         \/ \E i \in DOMAIN q :
              /\ q[i] = e
              /\ RemoveFirst(q, e) \in Seq(S)
              /\ DOMAIN RemoveFirst(q, e) = 1..(Len(q) - 1)
              /\ \A j \in 1..(Len(q) - 1) :
                   RemoveFirst(q, e)[j] = IF j < i THEN q[j] ELSE q[j + 1]
<1>1. Len(q) \in Nat /\ DOMAIN q = 1..Len(q) OBVIOUS
<1>2. CASE ~ \E i \in 1..Len(q) : q[i] = e BY <1>1, <1>2 DEF RemoveFirst
<1>3. CASE \E i \in 1..Len(q) : q[i] = e
  <2> DEFINE places == {i \in 1..Len(q) : q[i] = e}
             i == Min(places)
             front == SubSeq(q, 1, i - 1)
             back == SubSeq(q, i + 1, Len(q))
  <2>1. places \subseteq Nat /\ places # {} BY <1>3
  <2>2. i \in places
    <3> HIDE DEF places
    <3> QED BY <2>1, MinIsLeast
  <2>3. RemoveFirst(q, e) = front \o back BY <1>3, <2>1 DEF RemoveFirst, RemoveAt, SelectInSeq
  <2>4. i \in 1..Len(q) /\ q[i] = e BY <2>2
  <2> HIDE DEF i, places
  <2>5. /\ front \in Seq(S) /\ Len(front) = i - 1
        /\ \A j \in 1..(i - 1) : front[j] = q[j]
    <3>1. 1 \in Int /\ i - 1 \in Int /\ \A k \in 1..(i - 1) : q[k] \in S BY <1>1, <2>4
    <3>2. /\ front \in Seq(S) /\ Len(front) = IF 1 <= i - 1 THEN (i - 1) - 1 + 1 ELSE 0
          /\ \A j \in 1..((i - 1) - 1 + 1) : front[j] = q[1 + j - 1]
      BY <3>1, SubSeqProperties
    <3> HIDE DEF front
    <3> QED BY <1>1, <2>4, <3>2
  <2>6. /\ back \in Seq(S) /\ Len(back) = Len(q) - i
        /\ \A j \in 1..(Len(q) - i) : back[j] = q[j + i]
    <3>1. i + 1 \in Int /\ Len(q) \in Int /\ \A k \in (i + 1)..Len(q) : q[k] \in S
      BY <1>1, <2>4
    <3>2. /\ back \in Seq(S)
          /\ Len(back) = IF i + 1 <= Len(q) THEN Len(q) - (i + 1) + 1 ELSE 0
          /\ \A j \in 1..(Len(q) - (i + 1) + 1) : back[j] = q[(i + 1) + j - 1]
      BY <3>1, SubSeqProperties
    <3> HIDE DEF back
    <3>3. ASSUME NEW j \in 1..(Len(q) - i) PROVE back[j] = q[j + i]
      <4>1. j \in 1..(Len(q) - (i + 1) + 1) /\ (i + 1) + j - 1 = j + i BY <1>1, <2>4
      <4> QED BY <3>2, <4>1
    <3>4. Len(back) = Len(q) - i
      <4>1. CASE i = Len(q) BY <1>1, <3>2, <4>1
      <4>2. CASE i + 1 <= Len(q)
        <5>1. Len(back) = Len(q) - (i + 1) + 1 BY <3>2, <4>2
        <5> QED BY <1>1, <2>4, <5>1
      <4>3. i = Len(q) \/ i + 1 <= Len(q)
        <5>1. i \in Nat /\ Len(q) \in Nat /\ i <= Len(q) BY <1>1, <2>4
        <5> QED BY <5>1
      <4> QED BY <4>1, <4>2, <4>3
    <3> QED BY <3>2, <3>3, <3>4
  <2> HIDE DEF front, back
  <2>7. front \o back \in Seq(S) /\ Len(front \o back) = Len(q) - 1
    <3>1. Len(front \o back) = Len(front) + Len(back) BY <2>5, <2>6, ConcatProperties
    <3> QED BY <1>1, <2>4, <2>5, <2>6, <3>1
  <2>8. \A j \in 1..(Len(q) - 1) :
          (front \o back)[j] = IF j < i THEN q[j] ELSE q[j + 1]
    <3> SUFFICES ASSUME NEW j \in 1..(Len(q) - 1)
                 PROVE  (front \o back)[j] = IF j < i THEN q[j] ELSE q[j + 1]
      OBVIOUS
    <3>1. CASE j < i BY <1>1, <2>4, <2>5, <2>6, <3>1
    <3>2. CASE ~(j < i)
      <4>1. (front \o back)[j] = back[j - (i - 1)] BY <1>1, <2>4, <2>5, <2>6, <3>2
      <4>2. j - (i - 1) \in 1..(Len(q) - i) /\ (j - (i - 1)) + i = j + 1
        BY <1>1, <2>4, <3>2
      <4> QED BY <2>6, <3>2, <4>1, <4>2
    <3> QED BY <3>1, <3>2
  <2>9. DOMAIN (front \o back) = 1..(Len(q) - 1) BY <2>7
  <2> QED BY <1>1, <2>3, <2>4, <2>7, <2>8, <2>9
<1> QED BY <1>2, <1>3

\* What is left of a sequence without repetitions: the same elements but the one.
LEMMA RemovedRest ==
  ASSUME NEW S, NEW q \in Seq(S), NEW e
  PROVE  /\ RemoveFirst(q, e) \in Seq(S)
         /\ IsInjective(q) => /\ IsInjective(RemoveFirst(q, e))
                              /\ ToSet(RemoveFirst(q, e)) = ToSet(q) \ {e}
<1> DEFINE r == RemoveFirst(q, e)
<1>1. Len(q) \in Nat /\ DOMAIN q = 1..Len(q) OBVIOUS
<1>3. ASSUME NEW i \in DOMAIN q, q[i] = e, r \in Seq(S), DOMAIN r = 1..(Len(q) - 1),
             \A j \in 1..(Len(q) - 1) : r[j] = IF j < i THEN q[j] ELSE q[j + 1]
      PROVE  r \in Seq(S) /\ (IsInjective(q) => IsInjective(r) /\ ToSet(r) = ToSet(q) \ {e})
  <2> HIDE DEF r
  <2> SUFFICES ASSUME IsInjective(q) PROVE IsInjective(r) /\ ToSet(r) = ToSet(q) \ {e}
    BY <1>3
  <2> DEFINE from(j) == IF j < i THEN j ELSE j + 1
  <2>1. \A j \in DOMAIN r : from(j) \in DOMAIN q /\ from(j) # i /\ r[j] = q[from(j)]
    BY <1>1, <1>3
  <2>2. \A j, k \in DOMAIN r : from(j) = from(k) => j = k BY <1>1, <1>3
  <2>3. \A k \in DOMAIN q : k # i => \E j \in DOMAIN r : from(j) = k
    <3> SUFFICES ASSUME NEW k \in DOMAIN q, k # i PROVE \E j \in DOMAIN r : from(j) = k
      OBVIOUS
    <3>1. CASE k < i BY <1>1, <1>3, <3>1
    <3>2. CASE k > i
      <4>1. k - 1 \in DOMAIN r /\ from(k - 1) = k BY <1>1, <1>3, <3>2
      <4> QED BY <4>1
    <3> QED BY <1>1, <3>1, <3>2
  <2> HIDE DEF from
  <2>4. \A k, j \in DOMAIN q : q[k] = q[j] => k = j BY DEF IsInjective
  <2>5. IsInjective(r)
    <3>1. \A j, k \in DOMAIN r : r[j] = r[k] => from(j) = from(k) BY <2>1, <2>4
    <3> QED BY <2>2, <3>1 DEF IsInjective
  <2>6. ASSUME NEW x \in ToSet(r) PROVE x \in ToSet(q) \ {e}
    <3>1. PICK j \in DOMAIN r : x = r[j] BY <2>6 DEF ToSet
    <3>2. x = q[from(j)] /\ from(j) \in DOMAIN q /\ from(j) # i BY <2>1, <3>1
    <3> QED BY <1>3, <2>4, <3>2 DEF ToSet
  <2>7. ASSUME NEW x \in ToSet(q), x # e PROVE x \in ToSet(r)
    <3>1. PICK k \in DOMAIN q : x = q[k] BY <2>7 DEF ToSet
    <3>2. PICK j \in DOMAIN r : from(j) = k BY <1>3, <2>3, <2>7, <3>1
    <3> QED BY <2>1, <3>1, <3>2 DEF ToSet
  <2> QED BY <2>5, <2>6, <2>7
<1>4. \/ (\A j \in DOMAIN q : q[j] # e) /\ r = q
      \/ \E i \in DOMAIN q :
           /\ q[i] = e /\ r \in Seq(S) /\ DOMAIN r = 1..(Len(q) - 1)
           /\ \A j \in 1..(Len(q) - 1) : r[j] = IF j < i THEN q[j] ELSE q[j + 1]
  BY RemovedPlace
<1> HIDE DEF r
<1>5. r \in Seq(S) /\ (IsInjective(q) => IsInjective(r) /\ ToSet(r) = ToSet(q) \ {e})
  <2>1. CASE (\A j \in DOMAIN q : q[j] # e) /\ r = q
    <3>1. q \in Seq(S) /\ e \notin ToSet(q) BY <2>1 DEF ToSet
    <3> QED BY <2>1, <3>1
  <2>2. CASE \E i \in DOMAIN q :
               /\ q[i] = e /\ r \in Seq(S) /\ DOMAIN r = 1..(Len(q) - 1)
               /\ \A j \in 1..(Len(q) - 1) : r[j] = IF j < i THEN q[j] ELSE q[j + 1]
    BY <1>3, <2>2
  <2> QED BY <1>4, <2>1, <2>2
<1> QED BY <1>5 DEF r
=============================================================================
