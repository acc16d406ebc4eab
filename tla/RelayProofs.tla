----------------------------- MODULE RelayProofs ------------------------------
(***************************************************************************)
(* The room registry's promises for any set of rooms, names and projects   *)
(* and any cap.  Uniqueness of session ids needs the bound below the       *)
(* counter, and the cap needs finiteness, so the inductive invariant RInv  *)
(* is the conjunction of everything the runs check.                        *)
(*                                                                         *)
(* And what holds of the relay for any number of connections, rooms and    *)
(* messages and any thresholds: its sessions are well typed, a queued      *)
(* message of an open connection always has a drain posted, and seen       *)
(* through its room registry the relay only takes steps of RoomRegistry,   *)
(* so that all that is proved of the registry holds of the running server. *)
(* The three maps of the relay and its rooms agree between any two         *)
(* handlers, and a room plays one project. The views of its peers are the  *)
(* matter of RelayViewProofs.                                              *)
(***************************************************************************)
EXTENDS Relay, FiniteSetTheorems, SequenceTheorems, TLAPS

RInv == RegistryTypeOK /\ RoomCap /\ NamesUnique /\ SessionsUnique

Newcomer(n) == [sessionId |-> nextSessionId, playerName |-> n, lastState |-> 0]

-----------------------------------------------------------------------------
(* The effect of each operation, room by room. *)

\* A hello either leaves members, locks and counter alone, or adds one member
\* under the next id to a room with a free place and a free name.
LEMMA AdmitEffect ==
  ASSUME RegistryTypeOK,
         NEW r \in RoomIds, NEW n \in Names, NEW p \in OptProject, Admit(r, n, p)
  PROVE  /\ rooms' \in [RoomIds -> Room]
         /\ \A q \in RoomIds \ {r} : rooms'[q] = rooms[q]
         /\ \/ /\ rooms'[r].members = rooms[r].members
               /\ rooms'[r].projectId = rooms[r].projectId
               /\ nextSessionId' = nextSessionId
            \/ /\ rooms'[r].members = rooms[r].members \union {Newcomer(n)}
               /\ rooms'[r].projectId = rooms[r].projectId
                    \/ rooms[r].projectId = NoProject
               /\ ~IsFull(rooms[r])
               /\ ~NameTaken(rooms[r], n)
               /\ nextSessionId \in SessionId
               /\ nextSessionId' = nextSessionId + 1
<1> USE RegistryAssumption DEF RegistryTypeOK
<1> DEFINE R == GetOrCreateRoom(rooms, r)
<1>1. /\ R \in [RoomIds -> Room]
      /\ \A q \in RoomIds \ {r} : R[q] = rooms[q]
      /\ R[r].members = rooms[r].members
      /\ R[r].projectId = rooms[r].projectId
  BY DEF GetOrCreateRoom, Room
<1>2. CASE JoinResult(R, r, n, p) # "ok"
  BY <1>1, <1>2 DEF Admit
<1>3. CASE JoinResult(R, r, n, p) = "ok"
  <2>1. /\ nextSessionId <= MaxSessions
        /\ rooms' = AddMember(R, r, n, p, nextSessionId)
        /\ nextSessionId' = nextSessionId + 1
    BY <1>3 DEF Admit
  <2>2. nextSessionId \in SessionId /\ Newcomer(n) \in Member
    BY <2>1 DEF SessionId, Newcomer, Member
  <2>3. ~IsFull(R[r]) /\ ~NameTaken(R[r], n)
    BY <1>3 DEF JoinResult
  <2>4. ~IsFull(rooms[r]) /\ ~NameTaken(rooms[r], n)
    BY <1>1, <2>3 DEF IsFull, NameTaken
  <2>5. R[r] \in Room
    BY <1>1
  <2> HIDE DEF R
  <2>6. rooms' = [R EXCEPT ![r] =
                    [[R[r] EXCEPT !.projectId = IF p # NoProject /\ @ = NoProject
                                                THEN p ELSE @]
                       EXCEPT !.members = @ \union {Newcomer(n)}]]
    BY <1>1, <2>1 DEF AddMember, Newcomer, Room
  <2>7. /\ rooms' \in [RoomIds -> Room]
        /\ \A q \in RoomIds \ {r} : rooms'[q] = R[q]
        /\ rooms'[r].members = R[r].members \union {Newcomer(n)}
        /\ rooms'[r].projectId = R[r].projectId \/ R[r].projectId = NoProject
    BY <1>1, <2>2, <2>5, <2>6 DEF Room
  <2> QED
    BY <1>1, <2>1, <2>2, <2>4, <2>7
<1> QED
  BY <1>2, <1>3

\* removeMember takes the members with that id out of one room.
LEMMA ExpelEffect ==
  ASSUME RegistryTypeOK, NEW r \in RoomIds, NEW s \in SessionId, Expel(r, s)
  PROVE  /\ rooms' \in [RoomIds -> Room]
         /\ \A q \in RoomIds \ {r} : rooms'[q] = rooms[q]
         /\ rooms'[r].members \subseteq rooms[r].members
         /\ rooms'[r].projectId = rooms[r].projectId
         /\ nextSessionId' = nextSessionId
  BY DEF RegistryTypeOK, Expel, RemoveMember, Room

\* updateMemberState changes the last state of one id, and nothing else.
LEMMA RecordEffect ==
  ASSUME RegistryTypeOK,
         NEW r \in RoomIds, NEW s \in SessionId, NEW v \in 1..MaxVersion,
         RecordState(r, s, v)
  PROVE  /\ rooms' \in [RoomIds -> Room]
         /\ \A q \in RoomIds \ {r} : rooms'[q] = rooms[q]
         /\ rooms'[r].members =
              {IF m.sessionId = s THEN [m EXCEPT !.lastState = v] ELSE m :
                 m \in rooms[r].members}
         /\ rooms'[r].projectId = rooms[r].projectId
         /\ nextSessionId' = nextSessionId
<1> USE RegistryAssumption DEF RegistryTypeOK
<1> DEFINE Touched(m) == IF m.sessionId = s THEN [m EXCEPT !.lastState = v] ELSE m
           New == {Touched(m) : m \in rooms[r].members}
<1>1. rooms' = [rooms EXCEPT ![r].members = New] /\ nextSessionId' = nextSessionId
  BY DEF RecordState, UpdateMemberState
<1>2. rooms[r] \in Room
  OBVIOUS
<1>3. \A m \in rooms[r].members : Touched(m) \in Member
  BY <1>2 DEF Room, Member
<1>4. New \subseteq Member
  BY <1>3
<1> HIDE DEF New
<1>5. /\ rooms' \in [RoomIds -> Room]
      /\ \A q \in RoomIds \ {r} : rooms'[q] = rooms[q]
      /\ rooms'[r].members = New
      /\ rooms'[r].projectId = rooms[r].projectId
  BY <1>1, <1>2, <1>4 DEF Room
<1> QED
  BY <1>1, <1>5 DEF New

-----------------------------------------------------------------------------
\* No rooms, no sessions.
LEMMA InitRInv == RegistryInit => RInv
<1> USE RegistryAssumption
<1> SUFFICES ASSUME RegistryInit PROVE RInv
  OBVIOUS
<1>1. \A r \in RoomIds : rooms[r].members = {}
  BY DEF RegistryInit
<1>2. RegistryTypeOK
  BY DEF RegistryInit, RegistryTypeOK, Room, OptProject
<1>3. RoomCap
  BY <1>1, FS_EmptySet DEF RoomCap
<1> QED
  BY <1>1, <1>2, <1>3 DEF RInv, NamesUnique, SessionsUnique

\* tryJoin: cap, name and project are checked before the member goes in.
LEMMA AdmitKeepsRInv ==
  ASSUME RInv, NEW r \in RoomIds, NEW n \in Names, NEW p \in OptProject,
         Admit(r, n, p)
  PROVE  RInv'
<1> USE RegistryAssumption
<1>t. RegistryTypeOK
  BY DEF RInv
<1>e. /\ rooms' \in [RoomIds -> Room]
      /\ \A q \in RoomIds \ {r} : rooms'[q] = rooms[q]
  BY <1>t, AdmitEffect
<1>1. CASE /\ rooms'[r].members = rooms[r].members
           /\ nextSessionId' = nextSessionId
  <2>1. \A q \in RoomIds : rooms'[q].members = rooms[q].members
    BY <1>e, <1>1
  <2> QED
    BY <1>e, <1>1, <2>1 DEF RInv, RegistryTypeOK, RoomCap, NamesUnique, SessionsUnique
<1>2. CASE /\ rooms'[r].members = rooms[r].members \union {Newcomer(n)}
           /\ ~IsFull(rooms[r])
           /\ ~NameTaken(rooms[r], n)
           /\ nextSessionId \in SessionId
           /\ nextSessionId' = nextSessionId + 1
  <2>1. RegistryTypeOK'
    BY <1>e, <1>2 DEF RInv, RegistryTypeOK, SessionId
  <2>2. RoomCap'
    <3>1. /\ IsFiniteSet(rooms[r].members)
          /\ Cardinality(rooms[r].members) < MaxPlayers
          /\ Cardinality(rooms[r].members) \in Nat
      BY <1>2, FS_CardinalityType DEF RInv, RoomCap, IsFull
    <3>2. /\ IsFiniteSet(rooms'[r].members)
          /\ Cardinality(rooms'[r].members) <= MaxPlayers
      <4> DEFINE S == rooms[r].members
                 x == Newcomer(n)
      <4>1. IsFiniteSet(S) /\ Cardinality(S) \in Nat /\ Cardinality(S) < MaxPlayers
        BY <3>1
      <4>2. rooms'[r].members = S \union {x}
        BY <1>2
      <4> HIDE DEF S, x
      <4>3. /\ IsFiniteSet(S \union {x})
            /\ Cardinality(S \union {x}) = IF x \in S THEN Cardinality(S)
                                                     ELSE Cardinality(S) + 1
        BY <4>1, FS_AddElement
      <4>4. Cardinality(S \union {x}) <= MaxPlayers
        BY <4>1, <4>3
      <4> QED
        BY <4>2, <4>3, <4>4
    <3> QED
      BY <1>e, <3>2 DEF RInv, RoomCap
  <2>3. NamesUnique'
    <3>1. \A m \in rooms[r].members : m.playerName # Newcomer(n).playerName
      BY <1>2 DEF NameTaken, Newcomer
    <3> QED
      BY <1>e, <1>2, <3>1 DEF RInv, NamesUnique
  <2>4. SessionsUnique'
    <3>1. \A q \in RoomIds : \A m \in rooms[q].members :
             m.sessionId < nextSessionId /\ m.sessionId \in Nat
      BY <1>t DEF RInv, SessionsUnique, RegistryTypeOK, Room, Member, SessionId
    <3>2. Newcomer(n).sessionId = nextSessionId /\ nextSessionId \in Nat
      BY <1>2 DEF Newcomer, SessionId
    <3>3. \A q \in RoomIds : \A m \in rooms'[q].members :
             m \in rooms[q].members \/ (q = r /\ m = Newcomer(n))
      BY <1>e, <1>2
    <3> SUFFICES ASSUME NEW r1 \in RoomIds, NEW r2 \in RoomIds,
                        NEW m1 \in rooms'[r1].members, NEW m2 \in rooms'[r2].members
                 PROVE  /\ m1.sessionId = m2.sessionId => r1 = r2 /\ m1 = m2
                        /\ m1.sessionId < nextSessionId'
      BY DEF SessionsUnique
    <3>4. m1.sessionId < nextSessionId'
      BY <1>2, <3>1, <3>2, <3>3
    <3>5. ASSUME m1.sessionId = m2.sessionId
          PROVE  r1 = r2 /\ m1 = m2
      <4>1. CASE m1 \in rooms[r1].members /\ m2 \in rooms[r2].members
        BY <3>5, <4>1 DEF RInv, SessionsUnique
      <4>2. CASE m1 \in rooms[r1].members /\ r2 = r /\ m2 = Newcomer(n)
        BY <3>1, <3>2, <3>5, <4>2
      <4>3. CASE m2 \in rooms[r2].members /\ r1 = r /\ m1 = Newcomer(n)
        BY <3>1, <3>2, <3>5, <4>3
      <4>4. CASE r1 = r /\ m1 = Newcomer(n) /\ r2 = r /\ m2 = Newcomer(n)
        BY <4>4
      <4> QED
        BY <3>3, <4>1, <4>2, <4>3, <4>4
    <3> QED
      BY <3>4, <3>5
  <2> QED
    BY <2>1, <2>2, <2>3, <2>4 DEF RInv
<1> QED
  BY <1>t, <1>1, <1>2, AdmitEffect

\* removeMember: an empty room is erased.
LEMMA ExpelKeepsRInv ==
  ASSUME RInv, NEW r \in RoomIds, NEW s \in SessionId, Expel(r, s)
  PROVE  RInv'
<1>t. RegistryTypeOK
  BY DEF RInv
<1>1. /\ rooms' \in [RoomIds -> Room]
      /\ \A q \in RoomIds : rooms'[q].members \subseteq rooms[q].members
      /\ nextSessionId' = nextSessionId
  BY <1>t, ExpelEffect
<1>2. RegistryTypeOK'
  BY <1>1 DEF RInv, RegistryTypeOK
<1>3. RoomCap'
  <2> SUFFICES ASSUME NEW q \in RoomIds
               PROVE  /\ IsFiniteSet(rooms'[q].members)
                      /\ Cardinality(rooms'[q].members) <= MaxPlayers
    BY DEF RoomCap
  <2>1. IsFiniteSet(rooms[q].members) /\ Cardinality(rooms[q].members) <= MaxPlayers
    BY DEF RInv, RoomCap
  <2>2. /\ IsFiniteSet(rooms'[q].members)
        /\ Cardinality(rooms'[q].members) <= Cardinality(rooms[q].members)
    BY <1>1, <2>1, FS_Subset
  <2> QED
    BY <2>1, <2>2, FS_CardinalityType, RegistryAssumption
<1> QED
  BY <1>1, <1>2, <1>3 DEF RInv, NamesUnique, SessionsUnique

\* updateMemberState touches no membership.
LEMMA RecordKeepsRInv ==
  ASSUME RInv, NEW r \in RoomIds, NEW s \in SessionId, NEW v \in 1..MaxVersion,
         RecordState(r, s, v)
  PROVE  RInv'
<1> DEFINE Touched(m) == IF m.sessionId = s THEN [m EXCEPT !.lastState = v] ELSE m
<1>t. RegistryTypeOK
  BY DEF RInv
<1>1. /\ rooms' \in [RoomIds -> Room]
      /\ \A q \in RoomIds \ {r} : rooms'[q] = rooms[q]
      /\ rooms'[r].members = {Touched(m) : m \in rooms[r].members}
      /\ nextSessionId' = nextSessionId
  BY <1>t, RecordEffect
<1>2. RegistryTypeOK'
  BY <1>1 DEF RInv, RegistryTypeOK
<1>3. \A m \in rooms[r].members :
         Touched(m).sessionId = m.sessionId /\ Touched(m).playerName = m.playerName
  BY <1>t DEF RegistryTypeOK, Room, Member
<1>4. RoomCap'
  <2>1. IsFiniteSet(rooms[r].members) /\ Cardinality(rooms[r].members) <= MaxPlayers
    BY DEF RInv, RoomCap
  <2> DEFINE f == [m \in rooms[r].members |-> Touched(m)]
  <2>2. f \in Surjection(rooms[r].members, rooms'[r].members)
    BY <1>1 DEF Surjection
  <2>3. /\ IsFiniteSet(rooms'[r].members)
        /\ Cardinality(rooms'[r].members) <= Cardinality(rooms[r].members)
    BY <2>1, <2>2, FS_Surjection
  <2>4. Cardinality(rooms'[r].members) <= MaxPlayers
    BY <2>1, <2>3, FS_CardinalityType, RegistryAssumption
  <2> QED
    BY <1>1, <2>3, <2>4 DEF RInv, RoomCap
<1>5. ASSUME NEW q \in RoomIds, NEW m \in rooms'[q].members
      PROVE  \E o \in rooms[q].members :
               /\ m.sessionId = o.sessionId
               /\ m.playerName = o.playerName
               /\ m = IF q = r THEN Touched(o) ELSE o
  <2>1. CASE q = r
    <3>1. PICK o \in rooms[r].members : m = Touched(o)
      BY <1>1, <2>1
    <3> QED
      BY <1>3, <2>1, <3>1
  <2>2. CASE q # r
    BY <1>1, <2>2
  <2> QED
    BY <2>1, <2>2
<1> HIDE DEF Touched
<1>6. NamesUnique'
  BY <1>5 DEF RInv, NamesUnique
<1>7. SessionsUnique'
  <2> SUFFICES ASSUME NEW r1 \in RoomIds, NEW r2 \in RoomIds,
                      NEW m1 \in rooms'[r1].members, NEW m2 \in rooms'[r2].members
               PROVE  /\ m1.sessionId = m2.sessionId => r1 = r2 /\ m1 = m2
                      /\ m1.sessionId < nextSessionId'
    BY DEF SessionsUnique
  <2>1. PICK o1 \in rooms[r1].members :
          m1.sessionId = o1.sessionId /\ m1 = IF r1 = r THEN Touched(o1) ELSE o1
    BY <1>5
  <2>2. PICK o2 \in rooms[r2].members :
          m2.sessionId = o2.sessionId /\ m2 = IF r2 = r THEN Touched(o2) ELSE o2
    BY <1>5
  <2>3. /\ o1.sessionId = o2.sessionId => r1 = r2 /\ o1 = o2
        /\ o1.sessionId < nextSessionId
    BY DEF RInv, SessionsUnique
  <2> QED
    BY <1>1, <2>1, <2>2, <2>3
<1> QED
  BY <1>2, <1>4, <1>6, <1>7 DEF RInv

\* Every step keeps the invariant.
LEMMA StepKeepsRInv == RInv /\ [RegistryNext]_registryVars => RInv'
<1> SUFFICES ASSUME RInv, [RegistryNext]_registryVars PROVE RInv'
  OBVIOUS
<1>1. CASE UNCHANGED registryVars
  BY <1>1 DEF registryVars, RInv, RegistryTypeOK, RoomCap, NamesUnique, SessionsUnique
<1>2. ASSUME NEW r \in RoomIds, NEW n \in Names, NEW p \in OptProject, Admit(r, n, p)
      PROVE  RInv'
  BY <1>2, AdmitKeepsRInv
<1>3. ASSUME NEW r \in RoomIds, NEW s \in SessionId, Expel(r, s)
      PROVE  RInv'
  BY <1>3, ExpelKeepsRInv
<1>4. ASSUME NEW r \in RoomIds, NEW s \in SessionId, NEW v \in 1..MaxVersion,
             RecordState(r, s, v)
      PROVE  RInv'
  BY <1>4, RecordKeepsRInv
<1> QED
  BY <1>1, <1>2, <1>3, <1>4 DEF RegistryNext

\* Every reachable registry satisfies the whole invariant.
THEOREM RegistryInvariant == RegistrySpec => []RInv
  BY InitRInv, StepKeepsRInv, PTL DEF RegistrySpec

\* No room ever exceeds its cap.
THEOREM CapHolds == RegistrySpec => []RoomCap
<1>1. RInv => RoomCap
  BY DEF RInv
<1> QED
  BY <1>1, RegistryInvariant, PTL

\* Names are unique in a room, and session ids in the whole server.
THEOREM MembersAreDistinct == RegistrySpec => [](NamesUnique /\ SessionsUnique)
<1>1. RInv => NamesUnique /\ SessionsUnique
  BY DEF RInv
<1> QED
  BY <1>1, RegistryInvariant, PTL

\* Once a room has a project it keeps it, whoever joins, leaves or is refused.
THEOREM ProjectStays == RegistrySpec => ProjectPinned
<1> DEFINE Pin == \A r \in RoomIds :
                    \/ rooms'[r].projectId = rooms[r].projectId
                    \/ /\ rooms[r].projectId = NoProject
                       /\ rooms'[r].members # rooms[r].members
<1>1. ASSUME RInv, [RegistryNext]_registryVars
      PROVE  [Pin]_registryVars
  <2>t. RegistryTypeOK
    BY <1>1 DEF RInv
  <2>1. CASE UNCHANGED registryVars
    BY <2>1
  <2>2. ASSUME NEW r \in RoomIds, NEW n \in Names, NEW p \in OptProject, Admit(r, n, p)
        PROVE  Pin
    <3>1. /\ \A q \in RoomIds \ {r} : rooms'[q] = rooms[q]
          /\ \/ rooms'[r].projectId = rooms[r].projectId
             \/ /\ rooms[r].projectId = NoProject
                /\ rooms'[r].members = rooms[r].members \union {Newcomer(n)}
                /\ ~NameTaken(rooms[r], n)
      BY <2>t, <2>2, AdmitEffect
    <3>2. ~NameTaken(rooms[r], n) => Newcomer(n) \notin rooms[r].members
      BY DEF NameTaken, Newcomer
    <3> QED
      BY <3>1, <3>2
  <2>3. ASSUME NEW r \in RoomIds, NEW s \in SessionId, Expel(r, s)
        PROVE  Pin
    BY <2>t, <2>3, ExpelEffect
  <2>4. ASSUME NEW r \in RoomIds, NEW s \in SessionId, NEW v \in 1..MaxVersion,
               RecordState(r, s, v)
        PROVE  Pin
    <3>1. /\ \A q \in RoomIds \ {r} : rooms'[q] = rooms[q]
          /\ rooms'[r].projectId = rooms[r].projectId
      BY <2>t, <2>4, RecordEffect
    <3> QED
      BY <3>1
  <2> QED
    BY <1>1, <2>1, <2>2, <2>3, <2>4 DEF RegistryNext
<1> QED
  BY <1>1, RegistryInvariant, PTL DEF RegistrySpec, ProjectPinned

-----------------------------------------------------------------------------
(* The relay.                                                               *)

WsState == {"none", "open", "closing", "closed"}

QueueType == [messages : Seq(RelayMessage), stateIndex : Nat]

Session ==
  [sessionId : SessionId \union {0}, helloDone : BOOLEAN, helloUsed : BOOLEAN,
   playerName : Names \union {NoName}, roomId : RoomIds \union {NoRoom},
   projectId : OptProject, left : BOOLEAN, unknownTypeReported : BOOLEAN,
   consecutiveErrors : Nat, stateDrops : Nat, stateErrors : Nat, chatHits : Nat,
   outbound : QueueType, drainPending : BOOLEAN,
   backpressure : {"none", "fresh", "old"},
   version : Version, broadcast : Version, lost : BOOLEAN, dropped : BOOLEAN]

\* The slot index lies in the queue, and the queue within its capacity.
QueueOK(q) == /\ q \in QueueType
              /\ q.stateIndex <= Len(q.messages)
              /\ Len(q.messages) <= Capacity

HelloOK(s) == s.helloDone => s.sessionId \in SessionId /\ s.roomId \in RoomIds

SessionOK(s) == s \in Session /\ QueueOK(s.outbound) /\ HelloOK(s)

DrainOK(s) == s.outbound.messages # << >> => s.drainPending

SInv == /\ RInv
        /\ ws \in [Conn -> WsState]
        /\ sessions \subseteq Conn
        /\ sess \in [Conn -> Session]
        /\ \A c \in Conn : SessionOK(sess[c])
        /\ \A c \in sessions : sess[c].sessionId # 0 => sess[c].helloDone
        /\ \A c \in sessions : ws[c] = "open" => DrainOK(sess[c])

\* t is s after calls that change neither who the session is nor unpost a drain.
Kept(s, t) == /\ SessionOK(t)
              /\ t.sessionId = s.sessionId
              /\ t.helloDone = s.helloDone
              /\ DrainOK(s) => DrainOK(t)

-----------------------------------------------------------------------------
(* Queues and sessions, one call at a time. *)

\* Every push keeps a queue well formed and within capacity.
LEMMA PushKeepsQueueOK ==
  ASSUME NEW q, QueueOK(q), NEW m \in RelayMessage
  PROVE  QueueOK(PushState(q, m)) /\ QueueOK(PushControl(q, m))
<1> USE CapacityAssumption DEF QueueOK, QueueType
<1>0. Len(q.messages) \in Nat
  OBVIOUS
<1>1. QueueOK(PushControl(q, m))
  <2>1. CASE Full(q)
    BY <2>1 DEF PushControl
  <2>2. CASE ~Full(q)
    <3>1. /\ Append(q.messages, m) \in Seq(RelayMessage)
          /\ Len(Append(q.messages, m)) = Len(q.messages) + 1
      OBVIOUS
    <3> QED
      BY <1>0, <2>2, <3>1 DEF PushControl, Full
  <2> QED
    BY <2>1, <2>2
<1>2. QueueOK(PushState(q, m))
  <2>1. CASE q.stateIndex # 0
    <3>1. q.stateIndex \in 1..Len(q.messages)
      BY <1>0, <2>1
    <3>2. /\ [q.messages EXCEPT ![q.stateIndex] = m] \in Seq(RelayMessage)
          /\ Len([q.messages EXCEPT ![q.stateIndex] = m]) = Len(q.messages)
      BY <3>1, ExceptSeq
    <3> QED
      BY <2>1, <3>2 DEF PushState
  <2>2. CASE q.stateIndex = 0 /\ Full(q)
    BY <2>2 DEF PushState
  <2>3. CASE q.stateIndex = 0 /\ ~Full(q)
    <3>1. /\ Append(q.messages, m) \in Seq(RelayMessage)
          /\ Len(Append(q.messages, m)) = Len(q.messages) + 1
      OBVIOUS
    <3> QED
      BY <1>0, <2>3, <3>1 DEF PushState, Full
  <2> QED
    BY <2>1, <2>2, <2>3
<1> QED
  BY <1>1, <1>2

\* enqueueTo keeps a session: whatever is queued, a drain is on its way.
LEMMA EnqueueKeeps ==
  ASSUME NEW s, SessionOK(s), NEW m \in RelayMessage, NEW isState \in BOOLEAN
  PROVE  Kept(s, EnqueueTo(s, m, isState))
<1> DEFINE q == IF isState THEN PushState(s.outbound, m) ELSE PushControl(s.outbound, m)
<1>1. QueueOK(s.outbound) /\ s \in Session /\ HelloOK(s)
  BY DEF SessionOK
<1>2. QueueOK(q) /\ q \in QueueType
  BY <1>1, PushKeepsQueueOK DEF QueueOK
<1>3. CASE ~isState /\ Full(s.outbound)
  <2>1. EnqueueTo(s, m, isState) =
          [s EXCEPT !.backpressure = IF s.backpressure = "none" THEN "fresh"
                                                              ELSE s.backpressure,
                    !.lost = TRUE]
    BY <1>3 DEF EnqueueTo
  <2> QED
    BY <1>1, <2>1 DEF Kept, SessionOK, HelloOK, DrainOK, Session
<1>4. CASE isState \/ ~Full(s.outbound)
  <2>1. EnqueueTo(s, m, isState) =
          [s EXCEPT !.outbound = q,
                    !.dropped = s.dropped \/ (isState /\ StateDropped(s.outbound)),
                    !.drainPending = TRUE]
    BY <1>4 DEF EnqueueTo
  <2>2. (s.dropped \/ (isState /\ StateDropped(s.outbound))) \in BOOLEAN
    OBVIOUS
  <2> HIDE DEF q
  <2> QED
    BY <1>1, <1>2, <2>1, <2>2 DEF Kept, SessionOK, HelloOK, DrainOK, Session
<1> QED
  BY <1>3, <1>4

\* A broadcast keeps every session it reaches and leaves the others alone.
LEMMA BroadcastKeeps ==
  ASSUME NEW S, \A d \in Conn : SessionOK(S[d]),
         NEW r, NEW x, NEW m \in RelayMessage, NEW isState \in BOOLEAN
  PROVE  /\ BroadcastToRoom(S, r, x, m, isState) \in [Conn -> Session]
         /\ \A d \in Conn : Kept(S[d], BroadcastToRoom(S, r, x, m, isState)[d])
<1>1. \A d \in Conn : Kept(S[d], EnqueueTo(S[d], m, isState))
  BY EnqueueKeeps
<1>2. \A d \in Conn : Kept(S[d], S[d])
  BY DEF Kept
<1>3. \A d \in Conn : Kept(S[d], BroadcastToRoom(S, r, x, m, isState)[d])
  BY <1>1, <1>2 DEF BroadcastToRoom
<1>4. \A d \in Conn : BroadcastToRoom(S, r, x, m, isState)[d] \in Session
  BY <1>3 DEF Kept, SessionOK
<1> QED
  BY <1>3, <1>4 DEF BroadcastToRoom

\* The messages the handlers build are messages.
LEMMA MessagesAreTyped ==
  /\ ErrorMsg \in RelayMessage
  /\ \A x \in SessionId : /\ ChatMsg(x) \in RelayMessage
                          /\ LeaveMsg(x) \in RelayMessage
                          /\ \A v \in Version : StateMsg(x, v) \in RelayMessage
  /\ \A x \in SessionId, X \in SUBSET SessionId : \A f \in [X -> Version] :
        WelcomeMsg(x, f) \in RelayMessage
BY DEF RelayMessage

\* onOpen: a fresh session has an empty queue and no drain.
LEMMA NewSessionIsOK == SessionOK(NewSession) /\ DrainOK(NewSession)
                        /\ NewSession.sessionId = 0
<1>1. EmptyQueue \in QueueType /\ EmptyQueue.messages = << >> /\ EmptyQueue.stateIndex = 0
  BY DEF EmptyQueue, QueueType
<1>2. QueueOK(EmptyQueue)
  BY <1>1, CapacityAssumption DEF QueueOK
<1>3. NoProject \in OptProject /\ 0 \in Version
  BY RegistryAssumption DEF OptProject, Version
<1> QED
  BY <1>1, <1>2, <1>3 DEF NewSession, SessionOK, Session, HelloOK, DrainOK

\* Calls on a session can follow one another.
LEMMA KeptTwice ==
  ASSUME NEW s, NEW t, NEW u, Kept(s, t), Kept(t, u) PROVE Kept(s, u)
BY DEF Kept

\* The counters and marks a handler sets say nothing of who the session is.
LEMMA MarksKeep ==
  ASSUME NEW s, SessionOK(s)
  PROVE  /\ Kept(s, [s EXCEPT !.unknownTypeReported = TRUE])
         /\ Kept(s, [s EXCEPT !.helloUsed = TRUE])
         /\ Kept(s, [s EXCEPT !.left = TRUE])
         /\ \A k \in Nat : /\ Kept(s, [s EXCEPT !.consecutiveErrors = k])
                           /\ Kept(s, [s EXCEPT !.chatHits = k])
         /\ \A v, w \in Version : Kept(s, [s EXCEPT !.version = v, !.broadcast = w])
         /\ \A v \in Version, k, l \in Nat :
              Kept(s, [s EXCEPT !.version = v, !.stateDrops = k, !.stateErrors = l])
<1> USE DEF Kept, SessionOK, Session, HelloOK, DrainOK
<1>1. /\ Kept(s, [s EXCEPT !.unknownTypeReported = TRUE])
      /\ Kept(s, [s EXCEPT !.helloUsed = TRUE])
      /\ Kept(s, [s EXCEPT !.left = TRUE])
  OBVIOUS
<1>2. \A k \in Nat : Kept(s, [s EXCEPT !.consecutiveErrors = k])
  OBVIOUS
<1>5. \A k \in Nat : Kept(s, [s EXCEPT !.chatHits = k])
  OBVIOUS
<1>3. \A v, w \in Version : Kept(s, [s EXCEPT !.version = v, !.broadcast = w])
  OBVIOUS
<1>4. \A v \in Version, k, l \in Nat :
        Kept(s, [s EXCEPT !.version = v, !.stateDrops = k, !.stateErrors = l])
  <2> TAKE v \in Version, k, l \in Nat
  <2> DEFINE t == [s EXCEPT !.version = v, !.stateDrops = k, !.stateErrors = l]
  <2>1. t \in Session
    OBVIOUS
  <2>2. /\ t.outbound = s.outbound /\ t.drainPending = s.drainPending
        /\ t.sessionId = s.sessionId /\ t.helloDone = s.helloDone
        /\ t.roomId = s.roomId
    OBVIOUS
  <2> HIDE DEF t
  <2>3. Kept(s, t)
    BY <2>1, <2>2
  <2> QED
    BY <2>3 DEF t
<1> HIDE DEF Kept
<1> QED
  BY <1>1, <1>2, <1>3, <1>4, <1>5

\* An error queued after any of them.
LEMMA ErrorKeeps ==
  ASSUME NEW s, NEW t, Kept(s, t) PROVE Kept(s, SendError(t))
<1>1. Kept(t, EnqueueTo(t, ErrorMsg, FALSE))
  BY EnqueueKeeps, MessagesAreTyped DEF Kept
<1> QED
  BY <1>1, KeptTwice DEF SendError

-----------------------------------------------------------------------------
(* Steps that keep every session. *)

\* Such a step keeps SInv when it opens no connection.
LEMMA KeptStep ==
  ASSUME SInv, RInv', sessions' = sessions,
         ws' \in [Conn -> WsState],
         \A d \in Conn : ws'[d] = "open" => ws[d] = "open",
         sess' \in [Conn -> Session],
         \A d \in Conn : Kept(sess[d], sess'[d])
  PROVE  SInv'
BY DEF SInv, Kept

\* The sessions as they are keep to the invariant.
LEMMA SameSession ==
  ASSUME SInv
  PROVE  /\ sess \in [Conn -> Session]
         /\ \A d \in Conn : SessionOK(sess[d]) /\ Kept(sess[d], sess[d])
BY DEF SInv, Kept

\* close moves an open connection to closing and touches no other.
LEMMA CloseCloses ==
  ASSUME SInv, NEW c \in Conn, CloseConnection(c) \/ UNCHANGED ws
  PROVE  /\ ws' \in [Conn -> WsState]
         /\ \A d \in Conn : ws'[d] = "open" => ws[d] = "open"
BY DEF SInv, CloseConnection, WsState

\* A handler that changes its own session only, and perhaps closes it.
LEMMA OwnStep ==
  ASSUME SInv, RInv', sessions' = sessions, NEW c \in Conn,
         CloseConnection(c) \/ UNCHANGED ws,
         NEW t, Kept(sess[c], t), sess' = [sess EXCEPT ![c] = t]
  PROVE  SInv'
<1>1. /\ sess' \in [Conn -> Session]
      /\ \A d \in Conn : Kept(sess[d], sess'[d])
  BY SameSession DEF Kept, SessionOK
<1> QED
  BY <1>1, CloseCloses, KeptStep

\* A handler that changes no session.
LEMMA IdleStep ==
  ASSUME SInv, RInv', sessions' = sessions, sess' = sess, NEW c \in Conn,
         CloseConnection(c) \/ UNCHANGED ws
  PROVE  SInv'
BY SameSession, CloseCloses, KeptStep

\* An answer to the sender of a message.
LEMMA ReplyKeeps ==
  ASSUME SInv, RInv', sessions' = sessions, NEW c \in Conn, ReplyError(c)
  PROVE  SInv'
<1>1. Kept(sess[c], SendError(sess[c]))
  BY SameSession, ErrorKeeps
<1> QED
  BY <1>1, OwnStep DEF ReplyError

\* sendErrorAndClose: the error is queued and the connection closing.
LEMMA RefuseKeeps ==
  ASSUME SInv, RInv', sessions' = sessions, NEW c \in Conn, SendErrorAndClose(c)
  PROVE  SInv'
BY IdleStep DEF SendErrorAndClose

-----------------------------------------------------------------------------
(* The handlers that concern one session. *)
LEMMA MalformedKeeps ==
  ASSUME SInv, RInv', NEW c \in Conn, OnMalformedMessage(c)
  PROVE  SInv'
<1> DEFINE t == [sess[c] EXCEPT !.consecutiveErrors = @ + 1]
<1>1. sess[c].consecutiveErrors + 1 \in Nat
  BY DEF SInv, Session
<1>2. Kept(sess[c], t)
  BY <1>1, SameSession, MarksKeep
<1> HIDE DEF t
<1>3. Kept(sess[c], SendError(t))
  BY <1>2, ErrorKeeps
<1>4. /\ sessions' = sessions
      /\ sess' = [sess EXCEPT ![c] = SendError(t)]
      /\ CloseConnection(c) \/ UNCHANGED ws
  BY DEF OnMalformedMessage, Receive, CloseIf, t
<1> QED
  BY <1>3, <1>4, OwnStep

\* A message of an unknown type is counted and nothing else.
LEMMA UnknownKeeps ==
  ASSUME SInv, RInv', NEW c \in Conn, OnUnknownType(c)
  PROVE  SInv'
<1> DEFINE t == [sess[c] EXCEPT !.unknownTypeReported = TRUE]
<1>t. Kept(sess[c], t)
  BY SameSession, MarksKeep
<1> HIDE DEF t
<1>1. Kept(sess[c], SendError(t))
  BY <1>t, ErrorKeeps
<1>2. sessions' = sessions /\ UNCHANGED ws
  BY DEF OnUnknownType, Receive
<1>3. CASE sess' = sess
  BY <1>2, <1>3, IdleStep
<1>4. CASE sess' = [sess EXCEPT ![c] = SendError(t)]
  BY <1>1, <1>2, <1>4, OwnStep
<1> QED
  BY <1>3, <1>4 DEF OnUnknownType, t

\* A limited state is recorded and not relayed.
LEMMA LimitStateKeeps ==
  ASSUME SInv, RInv', sessions' = sessions, NEW c \in Conn,
         sess[c].version < MaxVersion, LimitState(c)
  PROVE  SInv'
<1> DEFINE s == sess[c]
           full == s.stateDrops + 1 >= StateDropsPerError
           drops == IF full THEN 0 ELSE s.stateDrops + 1
           errors == IF full THEN s.stateErrors + 1 ELSE s.stateErrors
           t == [s EXCEPT !.version = s.version + 1, !.stateDrops = drops,
                          !.stateErrors = errors]
<1>1. SessionOK(s) /\ s \in Session
  BY DEF SInv
<1>2. s.version + 1 \in Version /\ drops \in Nat /\ errors \in Nat
  BY <1>1, RegistryAssumption DEF Session, Version
<1>3. /\ sess' = [sess EXCEPT ![c] = IF full THEN SendError(t) ELSE t]
      /\ CloseConnection(c) \/ UNCHANGED ws
  BY DEF LimitState, CloseIf
<1> HIDE DEF full, drops, errors
<1>4. Kept(s, t)
  BY <1>1, <1>2, MarksKeep
<1> HIDE DEF t
<1>5. Kept(s, SendError(t))
  BY <1>4, ErrorKeeps
<1>6. Kept(s, IF full THEN SendError(t) ELSE t)
  BY <1>4, <1>5
<1> QED
  BY <1>3, <1>6, OwnStep

\* A limited chat message is counted.
LEMMA LimitChatKeeps ==
  ASSUME SInv, RInv', sessions' = sessions, NEW c \in Conn, LimitChat(c)
  PROVE  SInv'
<1> DEFINE t == [sess[c] EXCEPT !.chatHits = @ + 1]
<1>1. sess[c].chatHits + 1 \in Nat
  BY DEF SInv, Session
<1>2. Kept(sess[c], t)
  BY <1>1, SameSession, MarksKeep
<1>3. /\ sess' = [sess EXCEPT ![c] = SendError(t)]
      /\ CloseConnection(c) \/ UNCHANGED ws
  BY DEF LimitChat, CloseIf
<1> HIDE DEF t
<1>4. Kept(sess[c], SendError(t))
  BY <1>2, ErrorKeeps
<1> QED
  BY <1>3, <1>4, OwnStep

-----------------------------------------------------------------------------
(* The handlers that reach the whole room. *)

\* A broadcast of c, after a mark on its own session.
LEMMA BroadcastStep ==
  ASSUME SInv, RInv', sessions' = sessions, NEW c \in Conn,
         CloseConnection(c) \/ UNCHANGED ws,
         NEW t, Kept(sess[c], t), NEW r, NEW x, NEW m \in RelayMessage,
         NEW isState \in BOOLEAN,
         sess' = BroadcastToRoom([sess EXCEPT ![c] = t], r, x, m, isState)
  PROVE  SInv'
<1> DEFINE S == [sess EXCEPT ![c] = t]
<1>1. \A d \in Conn : SessionOK(S[d]) /\ Kept(sess[d], S[d])
  BY SameSession DEF Kept
<1> HIDE DEF S
<1>2. /\ sess' \in [Conn -> Session]
      /\ \A d \in Conn : Kept(S[d], sess'[d])
  BY <1>1, BroadcastKeeps DEF S
<1>3. \A d \in Conn : Kept(sess[d], sess'[d])
  BY <1>1, <1>2, KeptTwice
<1> QED
  BY <1>2, <1>3, CloseCloses, KeptStep

\* Someone who said hello has a session id and a room.
LEMMA HelloHasId ==
  ASSUME SInv, NEW c \in Conn, sess[c].helloDone
  PROVE  sess[c].sessionId \in SessionId /\ sess[c].roomId \in RoomIds
BY DEF SInv, SessionOK, HelloOK

\* A state goes to every other member of the room.
LEMMA RelayStateKeeps ==
  ASSUME SInv, RInv', sessions' = sessions, NEW c \in Conn,
         sess[c].helloDone, sess[c].version < MaxVersion, RelayState(c)
  PROVE  SInv'
<1> DEFINE v == sess[c].version + 1
           t == [sess[c] EXCEPT !.version = v, !.broadcast = v]
           m == StateMsg(sess[c].sessionId, v)
<1>1. v \in Version
  BY RegistryAssumption DEF SInv, Session, Version
<1>2. m \in RelayMessage
  BY <1>1, HelloHasId, MessagesAreTyped
<1>3. Kept(sess[c], t)
  BY <1>1, SameSession, MarksKeep
<1>4. [sess EXCEPT ![c].version = v, ![c].broadcast = v] = [sess EXCEPT ![c] = t]
  BY DEF SInv, Session
<1>5. /\ sess' = BroadcastToRoom([sess EXCEPT ![c] = t], sess[c].roomId,
                                 sess[c].sessionId, m, TRUE)
      /\ UNCHANGED ws
  BY <1>4 DEF RelayState
<1> HIDE DEF t, m
<1> QED
  BY <1>2, <1>3, <1>5, BroadcastStep

\* A chat message goes to every other member of the room.
LEMMA RelayChatKeeps ==
  ASSUME SInv, RInv', sessions' = sessions, NEW c \in Conn,
         sess[c].helloDone, RelayChat(c)
  PROVE  SInv'
<1>1. ChatMsg(sess[c].sessionId) \in RelayMessage
  BY HelloHasId, MessagesAreTyped
<1>2. Kept(sess[c], sess[c]) /\ [sess EXCEPT ![c] = sess[c]] = sess
  BY SameSession
<1> QED
  BY <1>1, <1>2, BroadcastStep DEF RelayChat

\* handleLeave announces and closes, the member stays until onClose.
LEMMA LeaveKeeps ==
  ASSUME SInv, RInv', NEW c \in Conn, HandleLeave(c)
  PROVE  SInv'
<1> DEFINE t == [sess[c] EXCEPT !.left = TRUE]
<1>1. CASE SendErrorAndClose(c) /\ sessions' = sessions
  BY <1>1, RefuseKeeps
<1>2. CASE /\ sess[c].helloDone
           /\ sess' = BroadcastLeave([sess EXCEPT ![c].left = TRUE], c)
           /\ CloseConnection(c)
           /\ sessions' = sessions
  <2>1. LeaveMsg(sess[c].sessionId) \in RelayMessage
    BY <1>2, HelloHasId, MessagesAreTyped
  <2>2. Kept(sess[c], t)
    BY SameSession, MarksKeep
  <2>3. sess' = BroadcastToRoom([sess EXCEPT ![c] = t], sess[c].roomId,
                                sess[c].sessionId, LeaveMsg(sess[c].sessionId), FALSE)
    BY <1>2 DEF BroadcastLeave
  <2> HIDE DEF t
  <2> QED
    BY <1>2, <2>1, <2>2, <2>3, BroadcastStep
<1> QED
  BY <1>1, <1>2 DEF HandleLeave, Receive

-----------------------------------------------------------------------------
(* hello: the one handler that gives a session its id. *)

\* The occupants listed in a welcome are session ids with state numbers.
LEMMA OccupantsAreTyped ==
  ASSUME NEW room \in Room
  PROVE  \E X \in SUBSET SessionId : Occupants(room) \in [X -> Version]
<1> DEFINE X == {m.sessionId : m \in room.members}
<1>1. X \in SUBSET SessionId
  BY DEF Room, Member
<1>2. ASSUME NEW x \in X
      PROVE  (CHOOSE m \in room.members : m.sessionId = x).lastState \in Version
  <2>1. \E m \in room.members : m.sessionId = x
    BY <1>2
  <2>2. (CHOOSE m \in room.members : m.sessionId = x) \in room.members
    BY <2>1
  <2> QED
    BY <2>2 DEF Room, Member, Version
<1>3. Occupants(room) \in [X -> Version]
  BY <1>2 DEF Occupants
<1> QED
  BY <1>1, <1>3

\* A greeted session is one that said hello, and its drain is not unposted.
LEMMA GreetedIsOK ==
  ASSUME NEW s, SessionOK(s), NEW n \in Names, NEW r \in RoomIds, NEW p \in OptProject,
         NEW x \in SessionId
  PROVE  LET t == Greeted(s, n, r, p, x)
         IN  SessionOK(t) /\ t.helloDone /\ (DrainOK(s) => DrainOK(t))
<1> DEFINE t == Greeted(s, n, r, p, x)
<1>1. t \in Session
  BY DEF Greeted, SessionOK, Session
<1>2. /\ t.outbound = s.outbound /\ t.drainPending = s.drainPending
      /\ t.helloDone = TRUE /\ t.sessionId = x /\ t.roomId = r
  BY DEF Greeted, SessionOK, Session
<1> HIDE DEF t
<1>3. SessionOK(t) /\ t.helloDone /\ (DrainOK(s) => DrainOK(t))
  BY <1>1, <1>2 DEF SessionOK, HelloOK, DrainOK
<1> QED
  BY <1>3 DEF t

\* handleHello: the newcomer is admitted and welcomed, the others are told.
LEMMA GreetKeeps ==
  ASSUME SInv, RInv', sessions' = sessions, NEW c \in Conn,
         NEW n \in Names, NEW r \in RoomIds, NEW p \in OptProject, Greet(c, n, r, p)
  PROVE  SInv'
<1>1. CASE nextSessionId' = nextSessionId
  <2> DEFINE t == [sess[c] EXCEPT !.helloUsed = TRUE]
  <2>1. Kept(sess[c], t)
    BY SameSession, MarksKeep
  <2>2. CloseConnection(c) /\ sess' = [sess EXCEPT ![c] = t]
    BY <1>1 DEF Greet
  <2> HIDE DEF t
  <2> QED
    BY <2>1, <2>2, OwnStep
<1>2. CASE nextSessionId' # nextSessionId
  <2> DEFINE x == nextSessionId
             t == Greeted(sess[c], n, r, p, x)
             m == WelcomeMsg(x, Occupants(rooms'[r]))
             u == EnqueueTo(t, m, FALSE)
  <2>1. UNCHANGED ws /\ sess' = [sess EXCEPT ![c] = u]
    BY <1>2 DEF Greet
  <2>2. x \in SessionId
    BY <1>2, AdmitEffect DEF Greet, SInv, RInv
  <2>3. rooms'[r] \in Room
    BY DEF RInv, RegistryTypeOK
  <2>4. m \in RelayMessage
    BY <2>2, <2>3, OccupantsAreTyped, MessagesAreTyped
  <2>5. SessionOK(sess[c]) /\ sess \in [Conn -> Session]
    BY DEF SInv
  <2>6. SessionOK(t) /\ t.helloDone /\ (DrainOK(sess[c]) => DrainOK(t))
    BY <2>2, <2>5, GreetedIsOK
  <2> HIDE DEF t, m
  <2>7. Kept(t, u)
    BY <2>4, <2>6, EnqueueKeeps
  <2> HIDE DEF u
  <2>8. /\ SessionOK(u) /\ u \in Session /\ u.helloDone
        /\ DrainOK(sess[c]) => DrainOK(u)
    BY <2>6, <2>7 DEF Kept, SessionOK
  <2>9. /\ sess' \in [Conn -> Session]
        /\ \A d \in Conn : SessionOK(sess'[d])
        /\ \A d \in sessions : sess'[d].sessionId # 0 => sess'[d].helloDone
        /\ \A d \in sessions : ws[d] = "open" => DrainOK(sess'[d])
    BY <2>1, <2>5, <2>8 DEF SInv
  <2> QED
    BY <2>1, <2>9 DEF SInv
<1> QED
  BY <1>1, <1>2

-----------------------------------------------------------------------------
(* The life of a connection, and what is posted or timed. *)
LEMMA OpenKeeps ==
  ASSUME SInv, RInv', NEW c \in Conn, OnOpen(c)
  PROVE  SInv'
<1>1. /\ ws' = [ws EXCEPT ![c] = "open"]
      /\ sessions' = sessions \union {c}
      /\ sess' = [sess EXCEPT ![c] = NewSession]
  BY DEF OnOpen
<1>2. SessionOK(NewSession) /\ DrainOK(NewSession) /\ NewSession.sessionId = 0
      /\ NewSession \in Session
  BY NewSessionIsOK DEF SessionOK
<1>3. /\ sess' \in [Conn -> Session]
      /\ \A d \in Conn : SessionOK(sess'[d])
      /\ \A d \in sessions' : sess'[d].sessionId # 0 => sess'[d].helloDone
      /\ \A d \in sessions' : ws'[d] = "open" => DrainOK(sess'[d])
  BY <1>1, <1>2 DEF SInv
<1> QED
  BY <1>1, <1>3 DEF SInv, WsState

\* The socket closes: no session changes.
LEMMA TransportKeeps ==
  ASSUME SInv, RInv', NEW c \in Conn, TransportClosed(c)
  PROVE  SInv'
<1>1. /\ ws' \in [Conn -> WsState]
      /\ \A d \in Conn : ws'[d] = "open" => ws[d] = "open"
  BY DEF SInv, TransportClosed, WsState
<1>2. sess' = sess /\ sessions' = sessions
  BY DEF TransportClosed
<1> QED
  BY <1>1, <1>2, SameSession, KeptStep

\* What remains of an erased session is a session that never said hello.
LEMMA RemainsIsOK ==
  ASSUME NEW s \in Session PROVE SessionOK(Remains(s))
<1> DEFINE t == Remains(s)
<1>1. NewSession \in Session /\ QueueOK(NewSession.outbound)
  BY NewSessionIsOK DEF SessionOK
<1>2. NewSession.helloDone = FALSE
  BY DEF NewSession
<1> HIDE DEF NewSession
<1>3. t \in Session
  BY <1>1 DEF Remains, Session
<1>4. t.outbound = NewSession.outbound /\ t.helloDone = NewSession.helloDone
  BY <1>1 DEF Remains, Session
<1> QED
  BY <1>1, <1>2, <1>3, <1>4 DEF SessionOK, HelloOK

\* onClose removes what the session had.
LEMMA CloseKeeps ==
  ASSUME SInv, RInv', NEW c \in Conn, OnClose(c)
  PROVE  SInv'
<1> DEFINE S == Announce(c)
<1>1. /\ sess' = [S EXCEPT ![c] = Remains(S[c])]
      /\ sessions' = sessions \ {c}
      /\ ws' = ws
      /\ c \in sessions
  BY DEF OnClose
<1>2. S \in [Conn -> Session] /\ \A d \in Conn : Kept(sess[d], S[d])
  <2>1. CASE sess[c].sessionId # 0 /\ ~sess[c].left
    <3>1. LeaveMsg(sess[c].sessionId) \in RelayMessage
      BY <1>1, <2>1, HelloHasId, MessagesAreTyped DEF SInv
    <3>2. S = BroadcastToRoom(sess, sess[c].roomId, sess[c].sessionId,
                              LeaveMsg(sess[c].sessionId), FALSE)
      BY <2>1 DEF Announce, BroadcastLeave
    <3> HIDE DEF S
    <3> QED
      BY <3>1, <3>2, SameSession, BroadcastKeeps
  <2>2. CASE ~(sess[c].sessionId # 0 /\ ~sess[c].left)
    BY <2>2, SameSession DEF Announce
  <2> QED
    BY <2>1, <2>2
<1> HIDE DEF S
<1>3. SessionOK(Remains(S[c])) /\ Remains(S[c]) \in Session
  BY <1>2, RemainsIsOK DEF SessionOK
<1>4. /\ sess' \in [Conn -> Session]
      /\ \A d \in Conn : SessionOK(sess'[d])
  BY <1>1, <1>2, <1>3 DEF Kept
<1>5. \A d \in sessions' : d \in sessions /\ sess'[d] = S[d] /\ Kept(sess[d], sess'[d])
  BY <1>1, <1>2 DEF SInv
<1> QED
  BY <1>1, <1>4, <1>5 DEF SInv, Kept

\* A popped queue is well formed: the slot index moves with the messages.
LEMMA PopKeepsQueueOK ==
  ASSUME NEW q, QueueOK(q), q.messages # << >>
  PROVE  QueueOK(PopFront(q))
<1>1. /\ q.messages \in Seq(RelayMessage) /\ q.stateIndex \in Nat
      /\ q.stateIndex <= Len(q.messages) /\ Len(q.messages) <= Capacity
  BY DEF QueueOK, QueueType
<1>2. /\ Tail(q.messages) \in Seq(RelayMessage)
      /\ Len(Tail(q.messages)) = Len(q.messages) - 1
      /\ Len(q.messages) \in Nat
  BY <1>1
<1>3. PopFront(q).messages = Tail(q.messages)
  BY DEF PopFront
<1>4. CASE q.stateIndex = 0
  BY <1>1, <1>2, <1>4, CapacityAssumption DEF PopFront, QueueOK, QueueType
<1>5. CASE q.stateIndex # 0
  BY <1>1, <1>2, <1>5, CapacityAssumption DEF PopFront, QueueOK, QueueType
<1> QED
  BY <1>4, <1>5

\* drain empties the queue of an open connection.
LEMMA DrainKeeps ==
  ASSUME SInv, RInv', NEW c \in Conn, Drain(c)
  PROVE  SInv'
<1> DEFINE s == sess[c]
           q == Unsent(c)
           b == IF q.messages = << >> THEN "none" ELSE s.backpressure
           t == [s EXCEPT !.drainPending = FALSE, !.outbound = q, !.backpressure = b]
<1>1. SessionOK(s) /\ s \in Session /\ QueueOK(s.outbound) /\ HelloOK(s)
  BY DEF SInv, SessionOK
<1>2. EmptyQueue.messages = << >> /\ QueueOK(EmptyQueue)
  BY CapacityAssumption DEF EmptyQueue, QueueOK, QueueType
<1>3. QueueOK(q) /\ (ws[c] = "open" => q.messages = << >>)
  BY <1>1, <1>2, PopKeepsQueueOK DEF Unsent
<1>4. /\ sess' = [sess EXCEPT ![c] = t]
      /\ sessions' = sessions /\ ws' = ws
  BY DEF Drain, SInv, Session
<1> HIDE DEF q
<1>5. q \in QueueType /\ b \in {"none", "fresh", "old"}
  BY <1>1, <1>3 DEF QueueOK, Session
<1> HIDE DEF b
<1>6. /\ t \in Session
      /\ t.outbound = q /\ t.helloDone = s.helloDone
      /\ t.sessionId = s.sessionId /\ t.roomId = s.roomId
  BY <1>1, <1>5 DEF Session
<1> HIDE DEF t
<1>7. SessionOK(t) /\ (ws[c] = "open" => DrainOK(t))
  BY <1>1, <1>3, <1>6 DEF SessionOK, HelloOK, DrainOK
<1>8. /\ sess' \in [Conn -> Session]
      /\ \A d \in Conn : SessionOK(sess'[d])
      /\ \A d \in sessions : sess'[d].sessionId # 0 => sess'[d].helloDone
      /\ \A d \in sessions : ws[d] = "open" => DrainOK(sess'[d])
  BY <1>4, <1>6, <1>7 DEF SInv
<1> QED
  BY <1>4, <1>8 DEF SInv

\* Time passes for the marks of the slow consumers.
LEMMA AgesKeeps ==
  ASSUME SInv, RInv', NEW c \in Conn, BackpressureAges(c)
  PROVE  SInv'
<1> DEFINE t == [sess[c] EXCEPT !.backpressure = "old"]
<1>s. SessionOK(sess[c]) /\ sess[c] \in Session
  BY DEF SInv
<1>t. /\ t \in Session
      /\ t.outbound = sess[c].outbound /\ t.drainPending = sess[c].drainPending
      /\ t.sessionId = sess[c].sessionId /\ t.helloDone = sess[c].helloDone
      /\ t.roomId = sess[c].roomId
  BY <1>s DEF Session
<1>2. sess' = [sess EXCEPT ![c] = t] /\ sessions' = sessions /\ UNCHANGED ws
  BY <1>s DEF BackpressureAges, Session
<1> HIDE DEF t
<1>1. Kept(sess[c], t)
  BY <1>s, <1>t DEF Kept, SessionOK, HelloOK, DrainOK
<1> QED
  BY <1>1, <1>2, OwnStep

\* The monitor closes what was slow for too long.
LEMMA MonitorKeeps ==
  ASSUME SInv, RInv', CheckBackpressure
  PROVE  SInv'
<1>1. /\ ws' \in [Conn -> WsState]
      /\ \A d \in Conn : ws'[d] = "open" => ws[d] = "open"
  BY DEF SInv, CheckBackpressure, WsState
<1>2. sess' = sess /\ sessions' = sessions
  BY DEF CheckBackpressure
<1> QED
  BY <1>1, <1>2, SameSession, KeptStep

-----------------------------------------------------------------------------
(* The whole relay. *)
LEMMA InitSInv == Init => SInv
<1> SUFFICES ASSUME Init PROVE SInv
  OBVIOUS
<1>1. RInv
  BY InitRInv DEF Init
<1>2. SessionOK(NewSession) /\ NewSession \in Session
  BY NewSessionIsOK DEF SessionOK
<1> QED
  BY <1>1, <1>2 DEF Init, SInv, WsState

\* Every step of the relay is one whole operation of its registry or none.
LEMMA RegistryStep ==
  ASSUME SInv, Next
  PROVE  RegistryNext \/ UNCHANGED registryVars
<1> USE DEF registryVars
<1>1. CASE CheckBackpressure
  BY <1>1 DEF CheckBackpressure
<1>2. ASSUME NEW c \in Conn, OnOpen(c) PROVE UNCHANGED registryVars
  BY <1>2 DEF OnOpen
<1>3. ASSUME NEW c \in Conn, TransportClosed(c) PROVE UNCHANGED registryVars
  BY <1>3 DEF TransportClosed
<1>4. ASSUME NEW c \in Conn, OnClose(c) PROVE RegistryNext \/ UNCHANGED registryVars
  <2>1. CASE sess[c].sessionId = 0
    BY <1>4, <2>1 DEF OnClose, ForgetMember
  <2>2. CASE sess[c].sessionId # 0
    <3>1. sess[c].sessionId \in SessionId /\ sess[c].roomId \in RoomIds
      BY <1>4, <2>2, HelloHasId DEF SInv, OnClose
    <3>2. Expel(sess[c].roomId, sess[c].sessionId)
      BY <1>4, <2>2 DEF OnClose, ForgetMember, Expel
    <3> QED
      BY <3>1, <3>2 DEF RegistryNext
  <2> QED
    BY <2>1, <2>2
<1>5. ASSUME NEW c \in Conn, OnMessage(c) PROVE RegistryNext \/ UNCHANGED registryVars
  <2>1. CASE OnForeignMessage(c) \/ OnClientError(c)
    BY <2>1 DEF OnForeignMessage, OnClientError, ReplyError, SendErrorAndClose
  <2>2. CASE OnMalformedMessage(c) \/ OnUnknownType(c)
    BY <2>2 DEF OnMalformedMessage, OnUnknownType
  <2>3. ASSUME NEW n \in Names, NEW r \in RoomIds, NEW p \in OptProject,
               HandleHello(c, n, r, p)
        PROVE  RegistryNext \/ UNCHANGED registryVars
    <3>1. CASE SendErrorAndClose(c)
      BY <3>1 DEF SendErrorAndClose
    <3>2. CASE Greet(c, n, r, p)
      BY <3>2 DEF Greet, RegistryNext
    <3> QED
      BY <2>3, <3>1, <3>2 DEF HandleHello
  <2>4. CASE HandlePlayerState(c)
    <3>1. CASE ReplyError(c)
      BY <3>1 DEF ReplyError
    <3>2. CASE /\ sess[c].helloDone
               /\ sess[c].version < MaxVersion
               /\ RecordState(sess[c].roomId, sess[c].sessionId, sess[c].version + 1)
      <4>1. sess[c].version + 1 \in 1..MaxVersion
        BY <3>2, RegistryAssumption DEF SInv, Session, Version
      <4>2. sess[c].sessionId \in SessionId /\ sess[c].roomId \in RoomIds
        BY <3>2, HelloHasId
      <4> QED
        BY <3>2, <4>1, <4>2 DEF RegistryNext
    <3> QED
      BY <2>4, <3>1, <3>2 DEF HandlePlayerState
  <2>5. CASE HandleChat(c)
    BY <2>5 DEF HandleChat, ReplyError
  <2>6. CASE HandleLeave(c)
    BY <2>6 DEF HandleLeave, SendErrorAndClose
  <2>7. CASE HandlePing(c)
    BY <2>7 DEF HandlePing, ReplyError
  <2> QED
    BY <1>5, <2>1, <2>2, <2>3, <2>4, <2>5, <2>6, <2>7 DEF OnMessage
<1>6. ASSUME NEW c \in Conn, Drain(c) PROVE UNCHANGED registryVars
  BY <1>6 DEF Drain
<1>7. ASSUME NEW c \in Conn, OnIdleTimeout(c) PROVE UNCHANGED registryVars
  BY <1>7 DEF OnIdleTimeout
<1>8. ASSUME NEW c \in Conn, BackpressureAges(c) PROVE UNCHANGED registryVars
  BY <1>8 DEF BackpressureAges
<1> QED
  BY <1>1, <1>2, <1>3, <1>4, <1>5, <1>6, <1>7, <1>8 DEF Next

\* A message handler keeps SInv.
LEMMA MessageKeeps ==
  ASSUME SInv, RInv', NEW c \in Conn, OnMessage(c)
  PROVE  SInv'
<1>1. ASSUME NEW kind, Receive(c, kind) PROVE sessions' = sessions
  BY <1>1 DEF Receive
<1>2. CASE OnForeignMessage(c)
  BY <1>1, <1>2, RefuseKeeps DEF OnForeignMessage
<1>3. CASE OnMalformedMessage(c)
  BY <1>3, MalformedKeeps
<1>4. CASE OnUnknownType(c)
  BY <1>4, UnknownKeeps
<1>5. CASE OnClientError(c)
  BY <1>1, <1>5, ReplyKeeps DEF OnClientError
<1>6. ASSUME NEW n \in Names, NEW r \in RoomIds, NEW p \in OptProject,
             HandleHello(c, n, r, p)
      PROVE  SInv'
  BY <1>1, <1>6, RefuseKeeps, GreetKeeps DEF HandleHello
<1>7. CASE HandlePlayerState(c)
  <2>1. sessions' = sessions
    BY <1>1, <1>7 DEF HandlePlayerState
  <2>2. CASE ReplyError(c)
    BY <2>1, <2>2, ReplyKeeps
  <2>3. CASE sess[c].helloDone /\ sess[c].version < MaxVersion /\ LimitState(c)
    BY <2>1, <2>3, LimitStateKeeps
  <2>4. CASE sess[c].helloDone /\ sess[c].version < MaxVersion /\ RelayState(c)
    BY <2>1, <2>4, RelayStateKeeps
  <2> QED
    BY <1>7, <2>2, <2>3, <2>4 DEF HandlePlayerState
<1>8. CASE HandleChat(c)
  <2>1. sessions' = sessions
    BY <1>1, <1>8 DEF HandleChat
  <2>2. CASE ReplyError(c)
    BY <2>1, <2>2, ReplyKeeps
  <2>3. CASE sess[c].helloDone /\ LimitChat(c)
    BY <2>1, <2>3, LimitChatKeeps
  <2>4. CASE sess[c].helloDone /\ RelayChat(c)
    BY <2>1, <2>4, RelayChatKeeps
  <2> QED
    BY <1>8, <2>2, <2>3, <2>4 DEF HandleChat
<1>9. CASE HandleLeave(c)
  BY <1>9, LeaveKeeps
<1>10. CASE HandlePing(c)
  <2>1. sessions' = sessions
    BY <1>1, <1>10 DEF HandlePing
  <2>2. CASE ReplyError(c)
    BY <2>1, <2>2, ReplyKeeps
  <2>3. CASE UNCHANGED <<ws, sess>>
    BY <2>1, <2>3, IdleStep
  <2> QED
    BY <1>10, <2>2, <2>3 DEF HandlePing
<1> QED
  BY <1>2, <1>3, <1>4, <1>5, <1>6, <1>7, <1>8, <1>9, <1>10 DEF OnMessage

\* Every step keeps the invariant.
LEMMA StepKeepsSInv == SInv /\ [Next]_vars => SInv'
<1> SUFFICES ASSUME SInv, [Next]_vars PROVE SInv'
  OBVIOUS
<1>1. CASE UNCHANGED vars
  <2>1. RInv'
    BY <1>1, StepKeepsRInv DEF SInv, vars, registryVars
  <2> QED
    BY <1>1, <2>1 DEF SInv, vars
<1>2. CASE Next
  <2>1. RInv'
    BY <1>2, RegistryStep, StepKeepsRInv DEF SInv
  <2>2. CASE CheckBackpressure
    BY <2>1, <2>2, MonitorKeeps
  <2>3. ASSUME NEW c \in Conn, OnIdleTimeout(c) PROVE SInv'
    BY <2>1, <2>3, IdleStep DEF OnIdleTimeout
  <2>4. ASSUME NEW c \in Conn,
               \/ OnOpen(c) \/ OnMessage(c) \/ TransportClosed(c) \/ OnClose(c)
               \/ Drain(c) \/ BackpressureAges(c)
        PROVE  SInv'
    BY <2>1, <2>4, OpenKeeps, MessageKeeps, TransportKeeps, CloseKeeps, DrainKeeps,
       AgesKeeps
  <2> QED
    BY <1>2, <2>2, <2>3, <2>4 DEF Next
<1> QED
  BY <1>1, <1>2

\* Sessions, their queues and the registry stay well formed, whatever the
\* handlers, timers, drains and closes do in whatever order.
THEOREM RelayInvariant == Spec => []SInv
  BY InitSInv, StepKeepsSInv, PTL DEF Spec

\* A message queued for an open connection never waits for a drain nobody
\* posted.
THEOREM DrainIsAlwaysPosted == Spec => []DrainIsPosted
<1>1. SInv => DrainIsPosted
  BY DEF SInv, DrainOK, DrainIsPosted, Queued
<1> QED
  BY <1>1, RelayInvariant, PTL

\* The relay implements the room registry: its handlers never change a room
\* other than by one whole operation of the registry.
THEOREM RelayImplementsRegistry == Spec => ImplementsRegistry
<1>1. Init => RegistryInit
  BY DEF Init
<1>2. SInv /\ [Next]_vars => [RegistryNext]_registryVars
  BY RegistryStep DEF vars, registryVars
<1> QED
  BY <1>1, <1>2, RelayInvariant, PTL DEF Spec, ImplementsRegistry, RegistrySpec

\* Hence in the running server no room exceeds its cap, no two players of a
\* room share a name, and a session id names one player.
THEOREM RelayRoomsAreSound == Spec => [](RoomCap /\ NamesUnique /\ SessionsUnique)
<1>1. SInv => RoomCap /\ NamesUnique /\ SessionsUnique
  BY DEF SInv, RInv
<1> QED
  BY <1>1, RelayInvariant, PTL

-----------------------------------------------------------------------------
(* The maps.  Most handlers change nothing of who the players are:          *)
(* PlayersStay deals with all of them at once.  What is left are the three  *)
(* that begin and end a player: onOpen, the hello that is admitted, and     *)
(* onClose.                                                                 *)

\* t is the player s is.
SamePlayer(s, t) == /\ t.sessionId = s.sessionId /\ t.playerName = s.playerName
                    /\ t.roomId = s.roomId /\ t.projectId = s.projectId

\* An entry leads to the session that has its id; a closed connection has none.
EntriesAreOwn ==
  /\ hdlBySessionId \in [SessionId -> Conn \union {NoHdl}]
  /\ \A x \in SessionId : hdlBySessionId[x] # NoHdl =>
       sess[hdlBySessionId[x]].sessionId = x

\* The lock of a room is the project of whoever declared one in it.
LockIsDeclared ==
  \A c \in sessions : sess[c].sessionId # 0 /\ sess[c].projectId # NoProject =>
    rooms[sess[c].roomId].projectId = sess[c].projectId

\* The inductive invariant: sessions have connections, and the maps agree.
MInv == /\ SInv /\ MapsAgree /\ EntriesAreOwn /\ LockIsDeclared
        /\ \A c \in sessions : ws[c] # "none"

\* The rooms R have the members of Q, whatever their last states are, and no lock is
\* replaced.
MembersStay(Q, R) ==
  \A r \in RoomIds :
    /\ \A m \in Q[r].members : \E k \in R[r].members :
         k.sessionId = m.sessionId /\ k.playerName = m.playerName
    /\ \A k \in R[r].members : \E m \in Q[r].members : k.sessionId = m.sessionId
    /\ R[r].projectId = Q[r].projectId

\* A step that leaves every player what it is.
Quiet == /\ sessions' = sessions /\ hdlBySessionId' = hdlBySessionId
         /\ \A d \in Conn : SamePlayer(sess[d], sess'[d])
         /\ \A d \in Conn : ws'[d] = "none" => ws[d] = "none"
         /\ MembersStay(rooms, rooms')

\* Such a step keeps the invariant.
LEMMA PlayersStay ==
  ASSUME MInv, SInv', Quiet PROVE MInv'
<1> USE DEF SamePlayer
<1>s. sessions \subseteq Conn /\ \A d \in sessions : sess[d].sessionId # 0 => sess[d].helloDone
  BY DEF MInv, SInv
<1>i. \A d \in Conn : sess[d].helloDone =>
        sess[d].sessionId \in SessionId /\ sess[d].roomId \in RoomIds
  BY DEF MInv, SInv, SessionOK, HelloOK
<1>n. NoHdl \notin Conn
  BY RelayAssumption
<1>1. MapsAgree'
  <2>1. ASSUME NEW c \in sessions', Joined(c)'
        PROVE  /\ (hdlBySessionId[sess[c].sessionId] = c)'
               /\ \E m \in rooms'[sess'[c].roomId].members :
                    m.sessionId = sess'[c].sessionId /\ m.playerName = sess'[c].playerName
    <3>1. c \in sessions /\ c \in Conn /\ Joined(c) /\ SamePlayer(sess[c], sess'[c])
      BY <1>s, <2>1 DEF Quiet, Joined
    <3>2. sess[c].roomId \in RoomIds
      BY <1>s, <1>i, <3>1 DEF Joined
    <3>3. PICK m \in rooms[sess[c].roomId].members :
            m.sessionId = sess[c].sessionId /\ m.playerName = sess[c].playerName
      BY <3>1 DEF MInv, MapsAgree
    <3>4. \E k \in rooms'[sess[c].roomId].members :
            k.sessionId = m.sessionId /\ k.playerName = m.playerName
      BY <3>2, <3>3 DEF Quiet, MembersStay
    <3>5. hdlBySessionId[sess[c].sessionId] = c
      BY <3>1 DEF MInv, MapsAgree
    <3> QED BY <3>1, <3>3, <3>4, <3>5 DEF Quiet
  <2>2. ASSUME NEW r \in RoomIds, NEW k \in rooms'[r].members
        PROVE  /\ hdlBySessionId'[k.sessionId] \in sessions'
               /\ sess'[hdlBySessionId'[k.sessionId]].sessionId = k.sessionId
               /\ sess'[hdlBySessionId'[k.sessionId]].roomId = r
    <3>1. PICK m \in rooms[r].members : k.sessionId = m.sessionId
      BY <2>2 DEF Quiet, MembersStay
    <3>2. /\ hdlBySessionId[m.sessionId] \in sessions
          /\ sess[hdlBySessionId[m.sessionId]].sessionId = m.sessionId
          /\ sess[hdlBySessionId[m.sessionId]].roomId = r
      BY <3>1 DEF MInv, MapsAgree
    <3> QED BY <1>s, <3>1, <3>2 DEF Quiet
  <2>3. \A x \in SessionId : hdlBySessionId'[x] # NoHdl => hdlBySessionId'[x] \in sessions'
    BY DEF MInv, MapsAgree, Quiet
  <2> QED BY <2>1, <2>2, <2>3 DEF MapsAgree
<1>2. EntriesAreOwn'
  BY <1>n DEF MInv, EntriesAreOwn, Quiet
<1>3. LockIsDeclared'
  <2> SUFFICES ASSUME NEW c \in sessions, sess'[c].sessionId # 0,
                      sess'[c].projectId # NoProject
               PROVE  rooms'[sess'[c].roomId].projectId = sess'[c].projectId
    BY DEF LockIsDeclared, Quiet
  <2>1. SamePlayer(sess[c], sess'[c]) /\ sess[c].roomId \in RoomIds
    BY <1>s, <1>i DEF Quiet
  <2>2. rooms[sess[c].roomId].projectId = sess[c].projectId
    BY <2>1 DEF MInv, LockIsDeclared
  <2> QED BY <2>1, <2>2 DEF Quiet, MembersStay
<1>4. \A c \in sessions' : ws'[c] # "none"
  BY <1>s DEF MInv, Quiet
<1> QED BY <1>1, <1>2, <1>3, <1>4 DEF MInv

-----------------------------------------------------------------------------
(* What leaves the players alone. *)

\* enqueueTo, of a state or a control message, refused or not.
LEMMA EnqueueSame ==
  ASSUME NEW s \in Session, NEW m, NEW isState \in BOOLEAN
  PROVE  SamePlayer(s, EnqueueTo(s, m, isState))
BY DEF EnqueueTo, SamePlayer, Session

\* broadcastToRoom, to whomever.
LEMMA BroadcastSame ==
  ASSUME NEW S \in [Conn -> Session], NEW r, NEW x, NEW m, NEW isState \in BOOLEAN,
         NEW d \in Conn
  PROVE  SamePlayer(S[d], BroadcastToRoom(S, r, x, m, isState)[d])
<1>1. SamePlayer(S[d], EnqueueTo(S[d], m, isState)) BY EnqueueSame
<1>2. SamePlayer(S[d], S[d]) BY DEF SamePlayer
<1> QED BY <1>1, <1>2 DEF BroadcastToRoom

\* Counters, marks and versions.
LEMMA MarksSame ==
  ASSUME NEW s \in Session
  PROVE  /\ SamePlayer(s, [s EXCEPT !.unknownTypeReported = TRUE])
         /\ SamePlayer(s, [s EXCEPT !.helloUsed = TRUE])
         /\ SamePlayer(s, [s EXCEPT !.left = TRUE])
         /\ SamePlayer(s, [s EXCEPT !.backpressure = "old"])
         /\ \A k : /\ SamePlayer(s, [s EXCEPT !.consecutiveErrors = k])
                   /\ SamePlayer(s, [s EXCEPT !.chatHits = k])
         /\ \A v, w : SamePlayer(s, [s EXCEPT !.version = v, !.broadcast = w])
         /\ \A v, k, l : SamePlayer(s, [s EXCEPT !.version = v, !.stateDrops = k,
                                                 !.stateErrors = l])
         /\ \A q, b : SamePlayer(s, [s EXCEPT !.drainPending = FALSE, !.outbound = q,
                                              !.backpressure = b])
BY DEF SamePlayer, Session

\* Rooms that nobody touches keep their members.
LEMMA RoomsStay == UNCHANGED rooms => MembersStay(rooms, rooms')
BY DEF MembersStay

\* The last state of a member says nothing of who it is.
LEMMA RecordStays ==
  ASSUME RegistryTypeOK, NEW r \in RoomIds, NEW x \in SessionId, NEW v \in 1..MaxVersion,
         RecordState(r, x, v)
  PROVE  MembersStay(rooms, rooms')
<1> DEFINE Touched(m) == IF m.sessionId = x THEN [m EXCEPT !.lastState = v] ELSE m
<1>1. /\ \A q \in RoomIds \ {r} : rooms'[q] = rooms[q]
      /\ rooms'[r].members = {Touched(m) : m \in rooms[r].members}
      /\ rooms'[r].projectId = rooms[r].projectId
  BY RecordEffect
<1>2. \A m \in rooms[r].members : /\ Touched(m).sessionId = m.sessionId
                                  /\ Touched(m).playerName = m.playerName
  BY DEF RegistryTypeOK, Room, Member
<1> HIDE DEF Touched
<1>3. /\ \A m \in rooms[r].members : \E k \in rooms'[r].members :
           k.sessionId = m.sessionId /\ k.playerName = m.playerName
      /\ \A k \in rooms'[r].members : \E m \in rooms[r].members : k.sessionId = m.sessionId
  BY <1>1, <1>2
<1> QED BY <1>1, <1>3 DEF MembersStay

\* A handler that replaces its own session by one of the same player.
LEMMA OwnSame ==
  ASSUME SInv, NEW c \in Conn, NEW t, SamePlayer(sess[c], t),
         sess' = [sess EXCEPT ![c] = t]
  PROVE  \A d \in Conn : SamePlayer(sess[d], sess'[d])
BY DEF SInv, SamePlayer

\* One that queues an error after that.
LEMMA ErrorSame ==
  ASSUME NEW s, NEW t \in Session, SamePlayer(s, t) PROVE SamePlayer(s, SendError(t))
BY EnqueueSame DEF SendError, SamePlayer

\* close and the end of a socket open none.
LEMMA CloseSame ==
  ASSUME SInv, NEW c \in Conn, CloseConnection(c) \/ UNCHANGED ws
  PROVE  \A d \in Conn : ws'[d] = "none" => ws[d] = "none"
BY DEF SInv, CloseConnection

\* What OnMessage leaves to its handlers: everything but the sessions themselves.
LEMMA ReceiveLeaves ==
  ASSUME NEW c \in Conn, NEW kind, Receive(c, kind)
  PROVE  sessions' = sessions /\ c \in sessions
BY DEF Receive

\* An answer, and a refusal that closes.
LEMMA AnswerIsQuiet ==
  ASSUME SInv, sessions' = sessions, NEW c \in Conn,
         ReplyError(c) \/ SendErrorAndClose(c)
  PROVE  Quiet
<1>1. MembersStay(rooms, rooms')
  BY RoomsStay DEF ReplyError, SendErrorAndClose
<1>2. \A d \in Conn : ws'[d] = "none" => ws[d] = "none"
  BY CloseSame DEF ReplyError, SendErrorAndClose
<1>3. CASE ReplyError(c)
  <2>1. sess[c] \in Session /\ SamePlayer(sess[c], sess[c]) BY DEF SInv, SamePlayer
  <2>2. SamePlayer(sess[c], SendError(sess[c])) BY <2>1, ErrorSame
  <2>3. \A d \in Conn : SamePlayer(sess[d], sess'[d])
    BY <1>3, <2>2, OwnSame DEF ReplyError
  <2> QED BY <1>1, <1>2, <1>3, <2>3 DEF Quiet, ReplyError
<1>4. CASE SendErrorAndClose(c)
  BY <1>1, <1>2, <1>4 DEF Quiet, SendErrorAndClose, SamePlayer
<1> QED BY <1>3, <1>4

\* A marked session, with or without an error, and perhaps a close.
LEMMA MarkIsQuiet ==
  ASSUME SInv, sessions' = sessions, hdlBySessionId' = hdlBySessionId,
         MembersStay(rooms, rooms'), NEW c \in Conn, CloseConnection(c) \/ UNCHANGED ws,
         NEW t \in Session, SamePlayer(sess[c], t),
         sess' = [sess EXCEPT ![c] = t] \/ sess' = [sess EXCEPT ![c] = SendError(t)]
  PROVE  Quiet
<1>1. SamePlayer(sess[c], SendError(t)) BY ErrorSame
<1>2. \A d \in Conn : SamePlayer(sess[d], sess'[d]) BY <1>1, OwnSame
<1> QED BY <1>2, CloseSame DEF Quiet

\* A broadcast after a mark on the sender.
LEMMA BroadcastIsQuiet ==
  ASSUME SInv, sessions' = sessions, hdlBySessionId' = hdlBySessionId,
         MembersStay(rooms, rooms'), NEW c \in Conn, CloseConnection(c) \/ UNCHANGED ws,
         NEW t \in Session, SamePlayer(sess[c], t), NEW r, NEW x, NEW m,
         NEW isState \in BOOLEAN,
         sess' = BroadcastToRoom([sess EXCEPT ![c] = t], r, x, m, isState)
  PROVE  Quiet
<1> DEFINE S == [sess EXCEPT ![c] = t]
<1>1. S \in [Conn -> Session] /\ \A d \in Conn : SamePlayer(sess[d], S[d])
  BY DEF SInv, SamePlayer
<1> HIDE DEF S
<1>2. \A d \in Conn : SamePlayer(S[d], sess'[d]) BY <1>1, BroadcastSame DEF S
<1>3. \A d \in Conn : SamePlayer(sess[d], sess'[d]) BY <1>1, <1>2 DEF SamePlayer
<1> QED BY <1>3, CloseSame DEF Quiet

\* Malformed and unknown messages are counted and marked.
LEMMA BadMessageIsQuiet ==
  ASSUME SInv, NEW c \in Conn, OnMalformedMessage(c) \/ OnUnknownType(c)
  PROVE  Quiet
<1>s. sess[c] \in Session BY DEF SInv
<1>r. sessions' = sessions /\ hdlBySessionId' = hdlBySessionId /\ MembersStay(rooms, rooms')
  BY ReceiveLeaves, RoomsStay DEF OnMalformedMessage, OnUnknownType
<1>1. CASE OnMalformedMessage(c)
  <2> DEFINE t == [sess[c] EXCEPT !.consecutiveErrors = @ + 1]
  <2>1. sess[c].consecutiveErrors + 1 \in Nat BY <1>s DEF Session
  <2>2. t \in Session BY <1>s, <2>1 DEF Session
  <2>3. SamePlayer(sess[c], t) BY <1>s, MarksSame
  <2>4. /\ sess' = [sess EXCEPT ![c] = SendError(t)]
        /\ CloseConnection(c) \/ UNCHANGED ws
    BY <1>1 DEF OnMalformedMessage, CloseIf
  <2> HIDE DEF t
  <2> QED BY <1>r, <2>2, <2>3, <2>4, MarkIsQuiet
<1>2. CASE OnUnknownType(c)
  <2> DEFINE t == [sess[c] EXCEPT !.unknownTypeReported = TRUE]
  <2>1. t \in Session BY <1>s DEF Session
  <2>2. SamePlayer(sess[c], t) BY <1>s, MarksSame
  <2>3. sess' = sess \/ sess' = [sess EXCEPT ![c] = SendError(t)]
    BY <1>2 DEF OnUnknownType
  <2>4. UNCHANGED ws BY <1>2 DEF OnUnknownType
  <2> HIDE DEF t
  <2>5. CASE sess' = sess
    BY <1>r, <2>4, <2>5 DEF Quiet, SamePlayer
  <2> QED BY <1>r, <2>1, <2>2, <2>3, <2>4, <2>5, MarkIsQuiet
<1> QED BY <1>1, <1>2

\* A position is stored in the room, limited or relayed.
LEMMA StateIsQuiet ==
  ASSUME SInv, NEW c \in Conn, HandlePlayerState(c)
  PROVE  Quiet
<1>s. sess[c] \in Session BY DEF SInv
<1>r. sessions' = sessions BY ReceiveLeaves DEF HandlePlayerState
<1>1. CASE ReplyError(c)
  BY <1>1, <1>r, AnswerIsQuiet
<1>2. CASE /\ sess[c].helloDone
           /\ sess[c].version < MaxVersion
           /\ RecordState(sess[c].roomId, sess[c].sessionId, sess[c].version + 1)
           /\ LimitState(c) \/ RelayState(c)
           /\ UNCHANGED hdlBySessionId
  <2> DEFINE v == sess[c].version + 1
  <2>1. v \in Version /\ v \in 1..MaxVersion
    BY <1>s, <1>2, RegistryAssumption DEF Session, Version
  <2>2. MembersStay(rooms, rooms')
    BY <1>2, <2>1, HelloHasId, RecordStays DEF SInv, RInv
  <2>3. CASE LimitState(c)
    <3> DEFINE full == sess[c].stateDrops + 1 >= StateDropsPerError
               drops == IF full THEN 0 ELSE sess[c].stateDrops + 1
               errors == IF full THEN sess[c].stateErrors + 1 ELSE sess[c].stateErrors
               t == [sess[c] EXCEPT !.version = v, !.stateDrops = drops,
                                    !.stateErrors = errors]
    <3>1. drops \in Nat /\ errors \in Nat BY <1>s DEF Session
    <3>2. /\ sess' = [sess EXCEPT ![c] = IF full THEN SendError(t) ELSE t]
          /\ CloseConnection(c) \/ UNCHANGED ws
      BY <2>3 DEF LimitState, CloseIf
    <3> HIDE DEF full, drops, errors, v
    <3>3. t \in Session BY <1>s, <2>1, <3>1 DEF Session
    <3>4. SamePlayer(sess[c], t) BY <1>s, MarksSame
    <3> HIDE DEF t
    <3> QED BY <1>2, <1>r, <2>2, <3>2, <3>3, <3>4, MarkIsQuiet
  <2>4. CASE RelayState(c)
    <3> DEFINE t == [sess[c] EXCEPT !.version = v, !.broadcast = v]
    <3>1. [sess EXCEPT ![c].version = v, ![c].broadcast = v] = [sess EXCEPT ![c] = t]
      BY DEF SInv, Session
    <3>2. /\ sess' = BroadcastToRoom([sess EXCEPT ![c] = t], sess[c].roomId,
                                     sess[c].sessionId, StateMsg(sess[c].sessionId, v), TRUE)
          /\ UNCHANGED ws
      BY <2>4, <3>1 DEF RelayState
    <3> HIDE DEF v
    <3>3. t \in Session BY <1>s, <2>1 DEF Session
    <3>4. SamePlayer(sess[c], t) BY <1>s, MarksSame
    <3> HIDE DEF t
    <3> QED BY <1>2, <1>r, <2>2, <3>2, <3>3, <3>4, BroadcastIsQuiet
  <2> QED BY <1>2, <2>3, <2>4
<1> QED BY <1>1, <1>2 DEF HandlePlayerState

\* A chat is relayed or counted.
LEMMA ChatIsQuiet ==
  ASSUME SInv, NEW c \in Conn, HandleChat(c)
  PROVE  Quiet
<1>s. sess[c] \in Session /\ SamePlayer(sess[c], sess[c]) BY DEF SInv, SamePlayer
<1>r. sessions' = sessions BY ReceiveLeaves DEF HandleChat
<1>1. CASE ReplyError(c)
  BY <1>1, <1>r, AnswerIsQuiet
<1>2. CASE LimitChat(c) /\ UNCHANGED <<rooms, nextSessionId, hdlBySessionId>>
  <2> DEFINE t == [sess[c] EXCEPT !.chatHits = @ + 1]
  <2>1. sess[c].chatHits + 1 \in Nat BY <1>s DEF Session
  <2>2. t \in Session BY <1>s, <2>1 DEF Session
  <2>3. SamePlayer(sess[c], t) BY <1>s, MarksSame
  <2>4. /\ sess' = [sess EXCEPT ![c] = SendError(t)]
        /\ CloseConnection(c) \/ UNCHANGED ws
    BY <1>2 DEF LimitChat, CloseIf
  <2> HIDE DEF t
  <2> QED BY <1>2, <1>r, <2>2, <2>3, <2>4, RoomsStay, MarkIsQuiet
<1>3. CASE RelayChat(c) /\ UNCHANGED <<rooms, nextSessionId, hdlBySessionId>>
  <2>1. [sess EXCEPT ![c] = sess[c]] = sess BY DEF SInv
  <2>2. sess' = BroadcastToRoom([sess EXCEPT ![c] = sess[c]], sess[c].roomId,
                                sess[c].sessionId, ChatMsg(sess[c].sessionId), FALSE)
        /\ UNCHANGED ws
    BY <1>3, <2>1 DEF RelayChat
  <2> QED BY <1>3, <1>r, <1>s, <2>2, RoomsStay, BroadcastIsQuiet
<1> QED BY <1>1, <1>2, <1>3 DEF HandleChat

\* A leave is announced; the player stays in the maps until onClose.
LEMMA LeaveIsQuiet ==
  ASSUME SInv, NEW c \in Conn, HandleLeave(c)
  PROVE  Quiet
<1> DEFINE t == [sess[c] EXCEPT !.left = TRUE]
<1>s. sess[c] \in Session BY DEF SInv
<1>r. sessions' = sessions BY ReceiveLeaves DEF HandleLeave
<1>1. CASE SendErrorAndClose(c)
  BY <1>1, <1>r, AnswerIsQuiet
<1>2. CASE /\ sess' = BroadcastLeave([sess EXCEPT ![c].left = TRUE], c)
           /\ CloseConnection(c)
           /\ UNCHANGED <<rooms, nextSessionId, hdlBySessionId>>
  <2>1. sess' = BroadcastToRoom([sess EXCEPT ![c] = t], sess[c].roomId,
                                sess[c].sessionId, LeaveMsg(sess[c].sessionId), FALSE)
    BY <1>2 DEF BroadcastLeave
  <2>2. t \in Session BY <1>s DEF Session
  <2>3. SamePlayer(sess[c], t) BY <1>s, MarksSame
  <2> HIDE DEF t
  <2> QED BY <1>2, <1>r, <2>1, <2>2, <2>3, RoomsStay, BroadcastIsQuiet
<1> QED BY <1>1, <1>2 DEF HandleLeave

\* A hello that is refused leaves no more than an empty room.
LEMMA RefusedHelloIsQuiet ==
  ASSUME SInv, sessions' = sessions, NEW c \in Conn, NEW n \in Names, NEW r \in RoomIds,
         NEW p \in OptProject, Greet(c, n, r, p), nextSessionId' = nextSessionId
  PROVE  Quiet
<1> DEFINE t == [sess[c] EXCEPT !.helloUsed = TRUE]
<1>s. sess[c] \in Session BY DEF SInv
<1>1. /\ CloseConnection(c) /\ hdlBySessionId' = hdlBySessionId
      /\ sess' = [sess EXCEPT ![c] = t]
  BY DEF Greet
<1>2. t \in Session BY <1>s DEF Session
<1>3. SamePlayer(sess[c], t) BY <1>s, MarksSame
<1> HIDE DEF t
<1>4. /\ \A q \in RoomIds \ {r} : rooms'[q] = rooms[q]
      /\ rooms'[r].members = rooms[r].members /\ rooms'[r].projectId = rooms[r].projectId
  <2>1. RegistryTypeOK /\ nextSessionId \in Nat BY DEF SInv, RInv, RegistryTypeOK
  <2>2. nextSessionId + 1 # nextSessionId BY <2>1
  <2> QED BY <2>1, <2>2, AdmitEffect DEF Greet
<1>5. MembersStay(rooms, rooms')
  BY <1>4 DEF MembersStay
<1> QED BY <1>1, <1>2, <1>3, <1>5, MarkIsQuiet

\* A message begins a player or leaves them all what they are.
LEMMA MessageIsQuiet ==
  ASSUME SInv, NEW c \in Conn, OnMessage(c)
  PROVE  \/ Quiet
         \/ \E n \in Names, r \in RoomIds, p \in OptProject :
              /\ Greet(c, n, r, p) /\ nextSessionId' # nextSessionId
              /\ sessions' = sessions /\ c \in sessions /\ ~sess[c].helloDone
<1>1. CASE OnForeignMessage(c) \/ OnClientError(c)
  BY <1>1, ReceiveLeaves, AnswerIsQuiet DEF OnForeignMessage, OnClientError
<1>2. CASE HandlePing(c)
  <2>1. CASE ReplyError(c)
    BY <1>2, <2>1, ReceiveLeaves, AnswerIsQuiet DEF HandlePing
  <2>2. CASE UNCHANGED <<rooms, nextSessionId, ws, sess, hdlBySessionId>>
    BY <1>2, <2>2, ReceiveLeaves, RoomsStay DEF HandlePing, Quiet, SamePlayer
  <2> QED BY <1>2, <2>1, <2>2 DEF HandlePing
<1>3. ASSUME NEW n \in Names, NEW r \in RoomIds, NEW p \in OptProject, HandleHello(c, n, r, p)
      PROVE  \/ Quiet
             \/ /\ Greet(c, n, r, p) /\ nextSessionId' # nextSessionId
                /\ sessions' = sessions /\ c \in sessions /\ ~sess[c].helloDone
  <2>1. sessions' = sessions /\ c \in sessions BY <1>3, ReceiveLeaves DEF HandleHello
  <2>2. CASE SendErrorAndClose(c) BY <2>1, <2>2, AnswerIsQuiet
  <2>3. CASE Greet(c, n, r, p) /\ ~sess[c].helloDone
    BY <2>1, <2>3, RefusedHelloIsQuiet
  <2> QED BY <1>3, <2>2, <2>3 DEF HandleHello
<1> QED BY <1>1, <1>2, <1>3, BadMessageIsQuiet, StateIsQuiet, ChatIsQuiet, LeaveIsQuiet
        DEF OnMessage

\* Drains and timers concern queues and connections.
LEMMA PostedIsQuiet ==
  ASSUME SInv, NEW c \in Conn,
         Drain(c) \/ OnIdleTimeout(c) \/ BackpressureAges(c) \/ TransportClosed(c)
  PROVE  Quiet
<1>s. sess[c] \in Session BY DEF SInv
<1>1. CASE Drain(c)
  <2> DEFINE q == Unsent(c)
             b == IF q.messages = << >> THEN "none" ELSE sess[c].backpressure
             t == [sess[c] EXCEPT !.drainPending = FALSE, !.outbound = q, !.backpressure = b]
  <2>1. sess' = [sess EXCEPT ![c] = t] BY <1>1, <1>s DEF Drain, SInv, Session
  <2>2. SamePlayer(sess[c], t) BY <1>s, MarksSame
  <2> HIDE DEF t
  <2>3. \A d \in Conn : SamePlayer(sess[d], sess'[d]) BY <2>1, <2>2, OwnSame
  <2> QED BY <1>1, <2>3, RoomsStay DEF Quiet, Drain
<1>2. CASE OnIdleTimeout(c)
  BY <1>2, CloseSame, RoomsStay DEF OnIdleTimeout, Quiet, SamePlayer
<1>3. CASE BackpressureAges(c)
  <2> DEFINE t == [sess[c] EXCEPT !.backpressure = "old"]
  <2>1. sess' = [sess EXCEPT ![c] = t] BY <1>3, <1>s DEF BackpressureAges, SInv, Session
  <2>2. SamePlayer(sess[c], t) BY <1>s, MarksSame
  <2> HIDE DEF t
  <2>3. \A d \in Conn : SamePlayer(sess[d], sess'[d]) BY <2>1, <2>2, OwnSame
  <2> QED BY <1>3, <2>3, RoomsStay DEF Quiet, BackpressureAges
<1>4. CASE TransportClosed(c)
  BY <1>4, RoomsStay DEF TransportClosed, Quiet, SamePlayer, SInv
<1> QED BY <1>1, <1>2, <1>3, <1>4

\* So does the monitor.
LEMMA MonitorIsQuiet ==
  ASSUME SInv, CheckBackpressure PROVE Quiet
BY RoomsStay DEF CheckBackpressure, Quiet, SamePlayer

-----------------------------------------------------------------------------
(* What begins and ends a player. *)

\* What the maps say of one player and of one member, to be cited.
LEMMA MapsSay ==
  ASSUME MInv
  PROVE  /\ sessions \subseteq Conn /\ NoHdl \notin Conn
         /\ \A c \in sessions : sess[c].sessionId # 0 =>
              /\ sess[c].sessionId \in SessionId /\ sess[c].roomId \in RoomIds
              /\ hdlBySessionId[sess[c].sessionId] = c
              /\ \E m \in rooms[sess[c].roomId].members :
                   m.sessionId = sess[c].sessionId /\ m.playerName = sess[c].playerName
         /\ \A r \in RoomIds : \A m \in rooms[r].members :
              /\ m \in Member
              /\ hdlBySessionId[m.sessionId] \in sessions
              /\ sess[hdlBySessionId[m.sessionId]].sessionId = m.sessionId
              /\ sess[hdlBySessionId[m.sessionId]].roomId = r
         /\ \A x \in SessionId : hdlBySessionId[x] # NoHdl =>
              hdlBySessionId[x] \in sessions /\ sess[hdlBySessionId[x]].sessionId = x
<1>1. sessions \subseteq Conn /\ NoHdl \notin Conn
  BY RelayAssumption DEF MInv, SInv
<1>2. \A c \in sessions : sess[c].sessionId # 0 =>
        sess[c].sessionId \in SessionId /\ sess[c].roomId \in RoomIds
  BY <1>1, HelloHasId DEF MInv, SInv
<1>3. \A r \in RoomIds : \A m \in rooms[r].members : m \in Member
  BY DEF MInv, SInv, RInv, RegistryTypeOK, Room
<1> QED BY <1>1, <1>2, <1>3 DEF MInv, MapsAgree, Joined, EntriesAreOwn

\* onOpen: the connection had no session, and its new one is no player yet.
LEMMA OpenKeepsMaps ==
  ASSUME MInv, SInv', NEW c \in Conn, OnOpen(c)
  PROVE  MInv'
<1>1. /\ c \notin sessions /\ sessions' = sessions \union {c}
      /\ ws' = [ws EXCEPT ![c] = "open"] /\ ws \in [Conn -> WsState]
      /\ hdlBySessionId' = hdlBySessionId /\ rooms' = rooms
  BY DEF MInv, SInv, OnOpen
<1>2. /\ sess'[c].sessionId = 0
      /\ \A d \in Conn \ {c} : sess'[d] = sess[d]
  BY DEF OnOpen, MInv, SInv, NewSession
<1>3. MapsAgree'
  <2>1. \A d \in sessions' : Joined(d)' => d \in sessions /\ Joined(d) /\ sess'[d] = sess[d]
    BY <1>1, <1>2, MapsSay DEF Joined
  <2>2. \A x \in SessionId : hdlBySessionId[x] # NoHdl =>
          hdlBySessionId[x] \in sessions' /\ sess'[hdlBySessionId[x]] = sess[hdlBySessionId[x]]
    BY <1>1, <1>2, MapsSay
  <2>3. \A r \in RoomIds : \A m \in rooms[r].members :
          m.sessionId \in SessionId /\ hdlBySessionId[m.sessionId] # NoHdl
    BY MapsSay DEF Member
  <2>4. \A d \in sessions' : Joined(d)' =>
          /\ (hdlBySessionId[sess[d].sessionId] = d)'
          /\ \E m \in rooms'[sess'[d].roomId].members :
               m.sessionId = sess'[d].sessionId /\ m.playerName = sess'[d].playerName
    BY <1>1, <2>1, MapsSay DEF Joined
  <2>5. \A r \in RoomIds : \A m \in rooms'[r].members :
          /\ hdlBySessionId'[m.sessionId] \in sessions'
          /\ sess'[hdlBySessionId'[m.sessionId]].sessionId = m.sessionId
          /\ sess'[hdlBySessionId'[m.sessionId]].roomId = r
    BY <1>1, <2>2, <2>3, MapsSay
  <2>6. \A x \in SessionId : hdlBySessionId'[x] # NoHdl => hdlBySessionId'[x] \in sessions'
    BY <1>1, <2>2
  <2> QED BY <2>4, <2>5, <2>6 DEF MapsAgree
<1>4. EntriesAreOwn'
  <2>1. hdlBySessionId' \in [SessionId -> Conn \union {NoHdl}]
    BY <1>1 DEF MInv, EntriesAreOwn
  <2>2. \A x \in SessionId : hdlBySessionId'[x] # NoHdl =>
          sess'[hdlBySessionId'[x]].sessionId = x
    BY <1>1, <1>2, MapsSay
  <2> QED BY <2>1, <2>2 DEF EntriesAreOwn
<1>5. LockIsDeclared'
  BY <1>1, <1>2, MapsSay DEF LockIsDeclared, MInv
<1>6. \A d \in sessions' : ws'[d] # "none"
  BY <1>1, MapsSay DEF MInv
<1> QED BY <1>3, <1>4, <1>5, <1>6 DEF MInv

\* onClose: the id loses its entry and its member, and nobody else has it.
LEMMA CloseKeepsMaps ==
  ASSUME MInv, SInv', NEW c \in Conn, OnClose(c)
  PROVE  MInv'
<1> DEFINE S == Announce(c)
           x == sess[c].sessionId
<1>1. /\ c \in sessions /\ sessions' = sessions \ {c} /\ ws' = ws
      /\ sess' = [S EXCEPT ![c] = Remains(S[c])]
  BY DEF OnClose
<1>2. S \in [Conn -> Session] /\ \A d \in Conn : SamePlayer(sess[d], S[d])
  <2>1. sess \in [Conn -> Session] BY DEF MInv, SInv
  <2>2. CASE sess[c].sessionId # 0 /\ ~sess[c].left
    <3>1. S = BroadcastToRoom(sess, sess[c].roomId, sess[c].sessionId,
                              LeaveMsg(sess[c].sessionId), FALSE)
      BY <2>2 DEF Announce, BroadcastLeave
    <3>2. \A d \in Conn : SamePlayer(sess[d], S[d]) BY <2>1, <3>1, BroadcastSame
    <3>3. LeaveMsg(sess[c].sessionId) \in RelayMessage
      BY <1>1, <2>2, MapsSay, MessagesAreTyped
    <3>4. \A d \in Conn : SessionOK(sess[d]) BY SameSession DEF MInv
    <3> HIDE DEF S
    <3>5. S \in [Conn -> Session] BY <3>1, <3>3, <3>4, BroadcastKeeps
    <3> QED BY <3>2, <3>5
  <2>3. CASE ~(sess[c].sessionId # 0 /\ ~sess[c].left)
    BY <2>1, <2>3 DEF Announce, SamePlayer
  <2> QED BY <2>2, <2>3
<1> HIDE DEF S
<1>3. \A d \in Conn \ {c} : SamePlayer(sess[d], sess'[d])
  BY <1>1, <1>2
<1>4. \A d \in sessions' : d \in sessions /\ d \in Conn /\ d # c
  BY <1>1, MapsSay
<1>5. /\ hdlBySessionId \in [SessionId -> Conn \union {NoHdl}]
      /\ hdlBySessionId' \in [SessionId -> Conn \union {NoHdl}]
      /\ \A y \in SessionId : hdlBySessionId'[y] = IF y = x THEN NoHdl ELSE hdlBySessionId[y]
  <2>1. hdlBySessionId \in [SessionId -> Conn \union {NoHdl}] BY DEF MInv, EntriesAreOwn
  <2>2. CASE x = 0
    BY <2>1, <2>2 DEF OnClose, ForgetMember, SessionId
  <2>3. CASE x # 0
    BY <2>1, <2>3 DEF OnClose, ForgetMember
  <2> QED BY <2>2, <2>3
<1>6. \A r \in RoomIds : /\ rooms'[r].members = {m \in rooms[r].members : m.sessionId # x}
                         /\ rooms'[r].projectId = rooms[r].projectId
  <2>1. rooms \in [RoomIds -> Room] BY DEF MInv, SInv, RInv, RegistryTypeOK
  <2>2. CASE x = 0
    <3>1. rooms' = rooms BY <2>2 DEF OnClose, ForgetMember
    <3>2. \A r \in RoomIds : \A m \in rooms[r].members : m.sessionId # 0
      BY MapsSay DEF Member, SessionId
    <3> QED BY <2>2, <3>1, <3>2
  <2>3. CASE x # 0
    <3>1. rooms' = RemoveMember(rooms, sess[c].roomId, x)
      BY <2>3 DEF OnClose, ForgetMember
    <3>2. sess[c].roomId \in RoomIds BY <1>1, <2>3, MapsSay
    <3>3. rooms'[sess[c].roomId].members =
            {m \in rooms[sess[c].roomId].members : m.sessionId # x}
          /\ rooms'[sess[c].roomId].projectId = rooms[sess[c].roomId].projectId
      BY <2>1, <3>1, <3>2 DEF RemoveMember, Room
    <3>4. ASSUME NEW r \in RoomIds \ {sess[c].roomId}
          PROVE  rooms'[r] = rooms[r] /\ \A m \in rooms[r].members : m.sessionId # x
      <4>1. hdlBySessionId[x] = c BY <1>1, <2>3, MapsSay
      <4>2. \A m \in rooms[r].members : m.sessionId # x BY <3>4, <4>1, MapsSay
      <4> QED BY <2>1, <3>1, <3>2, <3>4, <4>2 DEF RemoveMember
    <3> QED BY <3>3, <3>4
  <2> QED BY <2>2, <2>3
<1>7. ASSUME NEW d \in sessions', sess[d].sessionId # 0 PROVE sess[d].sessionId # x
  BY <1>1, <1>4, <1>7, MapsSay
<1>8. \A y \in SessionId : y # x /\ hdlBySessionId[y] # NoHdl => hdlBySessionId[y] \in sessions'
  BY <1>1, MapsSay
<1> HIDE DEF x
<1>9. MapsAgree'
  <2>1. ASSUME NEW d \in sessions', Joined(d)'
        PROVE  /\ (hdlBySessionId[sess[d].sessionId] = d)'
               /\ \E m \in rooms'[sess'[d].roomId].members :
                    m.sessionId = sess'[d].sessionId /\ m.playerName = sess'[d].playerName
    <3>1. SamePlayer(sess[d], sess'[d]) /\ d \in sessions BY <1>3, <1>4
    <3>2. sess[d].sessionId # 0 BY <2>1, <3>1 DEF Joined, SamePlayer
    <3>3. sess[d].sessionId # x BY <1>7, <3>2
    <3>4. /\ sess[d].sessionId \in SessionId /\ sess[d].roomId \in RoomIds
          /\ hdlBySessionId[sess[d].sessionId] = d
          /\ \E m \in rooms[sess[d].roomId].members :
               m.sessionId = sess[d].sessionId /\ m.playerName = sess[d].playerName
      BY <3>1, <3>2, MapsSay
    <3>5. \E m \in rooms'[sess[d].roomId].members :
            m.sessionId = sess[d].sessionId /\ m.playerName = sess[d].playerName
      BY <1>6, <3>3, <3>4
    <3> QED BY <1>5, <3>1, <3>3, <3>4, <3>5 DEF SamePlayer
  <2>2. ASSUME NEW r \in RoomIds, NEW m \in rooms'[r].members
        PROVE  /\ hdlBySessionId'[m.sessionId] \in sessions'
               /\ sess'[hdlBySessionId'[m.sessionId]].sessionId = m.sessionId
               /\ sess'[hdlBySessionId'[m.sessionId]].roomId = r
    <3>1. m \in rooms[r].members /\ m.sessionId # x BY <1>6
    <3>2. /\ m.sessionId \in SessionId
          /\ hdlBySessionId[m.sessionId] \in sessions
          /\ sess[hdlBySessionId[m.sessionId]].sessionId = m.sessionId
          /\ sess[hdlBySessionId[m.sessionId]].roomId = r
      BY <3>1, MapsSay DEF Member
    <3>3. hdlBySessionId'[m.sessionId] = hdlBySessionId[m.sessionId] BY <1>5, <3>1, <3>2
    <3>4. hdlBySessionId[m.sessionId] \in sessions' BY <1>8, <3>1, <3>2, MapsSay
    <3> QED BY <1>3, <1>4, <3>2, <3>3, <3>4 DEF SamePlayer
  <2>3. \A y \in SessionId : hdlBySessionId'[y] # NoHdl => hdlBySessionId'[y] \in sessions'
    BY <1>5, <1>8
  <2> QED BY <2>1, <2>2, <2>3 DEF MapsAgree
<1>10. EntriesAreOwn'
  <2>1. ASSUME NEW y \in SessionId, hdlBySessionId'[y] # NoHdl
        PROVE  sess'[hdlBySessionId'[y]].sessionId = y
    <3>1. y # x /\ hdlBySessionId'[y] = hdlBySessionId[y] BY <1>5, <2>1
    <3>2. hdlBySessionId[y] \in sessions' /\ sess[hdlBySessionId[y]].sessionId = y
      BY <1>8, <2>1, <3>1, MapsSay
    <3> QED BY <1>3, <1>4, <3>1, <3>2 DEF SamePlayer
  <2> QED BY <1>5, <2>1 DEF EntriesAreOwn
<1>11. LockIsDeclared'
  <2> SUFFICES ASSUME NEW d \in sessions', sess'[d].sessionId # 0,
                      sess'[d].projectId # NoProject
               PROVE  rooms'[sess'[d].roomId].projectId = sess'[d].projectId
    BY DEF LockIsDeclared
  <2>1. SamePlayer(sess[d], sess'[d]) /\ d \in sessions BY <1>3, <1>4
  <2>2. /\ sess[d].roomId \in RoomIds
        /\ rooms[sess[d].roomId].projectId = sess[d].projectId
    BY <2>1, MapsSay DEF MInv, LockIsDeclared, SamePlayer
  <2> QED BY <1>6, <2>1, <2>2 DEF SamePlayer
<1>12. \A d \in sessions' : ws'[d] # "none" BY <1>1 DEF MInv
<1> QED BY <1>9, <1>10, <1>11, <1>12 DEF MInv

\* An admitted project is the lock of the room from then on.
LEMMA AdmitLocks ==
  ASSUME RegistryTypeOK, NEW r \in RoomIds, NEW n \in Names, NEW p \in OptProject,
         Admit(r, n, p), nextSessionId' # nextSessionId, p # NoProject
  PROVE  rooms'[r].projectId = p
<1> DEFINE R == GetOrCreateRoom(rooms, r)
<1>1. /\ JoinResult(R, r, n, p) = "ok"
      /\ rooms' = AddMember(R, r, n, p, nextSessionId)
  BY DEF Admit
<1>2. R \in [RoomIds -> Room]
  BY DEF RegistryTypeOK, GetOrCreateRoom, Room
<1> HIDE DEF R
<1>3. R[r].projectId = NoProject \/ R[r].projectId = p
  BY <1>1 DEF JoinResult, ProjectMismatch
<1>4. rooms'[r].projectId = IF p # NoProject /\ R[r].projectId = NoProject
                            THEN p ELSE R[r].projectId
  BY <1>1, <1>2 DEF AddMember, Room
<1> QED BY <1>3, <1>4

\* A greeted session carries the hello's name, room and project and the new id.
LEMMA GreetedSays ==
  ASSUME NEW s \in Session, NEW n \in Names, NEW r \in RoomIds, NEW p \in OptProject,
         NEW x \in SessionId
  PROVE  LET t == Greeted(s, n, r, p, x)
         IN  /\ t \in Session /\ t.sessionId = x /\ t.playerName = n
             /\ t.roomId = r /\ t.projectId = p
BY DEF Greeted, Session

\* handleHello admits: a fresh id, one new entry and one new member under it.
LEMMA GreetKeepsMaps ==
  ASSUME MInv, SInv', sessions' = sessions, NEW c \in sessions, ~sess[c].helloDone,
         NEW n \in Names, NEW r \in RoomIds, NEW p \in OptProject,
         Greet(c, n, r, p), nextSessionId' # nextSessionId
  PROVE  MInv'
<1> DEFINE x == nextSessionId
<1>c. c \in Conn /\ sess \in [Conn -> Session] /\ sess[c].sessionId = 0
  BY MapsSay DEF MInv, SInv
<1>1. /\ \A q \in RoomIds \ {r} : rooms'[q] = rooms[q]
      /\ rooms'[r].members = rooms[r].members \union {Newcomer(n)}
      /\ rooms'[r].projectId = rooms[r].projectId \/ rooms[r].projectId = NoProject
      /\ x \in SessionId
  BY AdmitEffect DEF Greet, MInv, SInv, RInv
<1>2. p # NoProject => rooms'[r].projectId = p
  BY AdmitLocks DEF Greet, MInv, SInv, RInv
<1>3. /\ hdlBySessionId \in [SessionId -> Conn \union {NoHdl}]
      /\ hdlBySessionId' = [hdlBySessionId EXCEPT ![x] = c]
      /\ ws' = ws
  BY DEF Greet, MInv, EntriesAreOwn
<1>4. /\ sess'[c].sessionId = x /\ sess'[c].playerName = n
      /\ sess'[c].roomId = r /\ sess'[c].projectId = p
      /\ \A d \in Conn \ {c} : sess'[d] = sess[d]
  <2> DEFINE t == Greeted(sess[c], n, r, p, x)
             m == WelcomeMsg(x, Occupants(rooms'[r]))
  <2>1. sess' = [sess EXCEPT ![c] = EnqueueTo(t, m, FALSE)] BY DEF Greet
  <2>2. /\ t \in Session /\ t.sessionId = x /\ t.playerName = n
        /\ t.roomId = r /\ t.projectId = p
    <3>1. x \in SessionId /\ sess[c] \in Session BY <1>c, <1>1
    <3> QED BY <3>1, GreetedSays
  <2> HIDE DEF t, m
  <2>3. SamePlayer(t, EnqueueTo(t, m, FALSE)) BY <2>2, EnqueueSame
  <2> QED BY <1>c, <2>1, <2>2, <2>3 DEF SamePlayer
<1>5. \A q \in RoomIds : \A m \in rooms[q].members : m.sessionId \in SessionId /\ m.sessionId # x
  <2>1. SessionsUnique /\ x \in Nat BY DEF MInv, SInv, RInv, RegistryTypeOK
  <2>2. \A q \in RoomIds : \A m \in rooms[q].members :
          m.sessionId \in SessionId /\ m.sessionId \in Nat /\ m.sessionId < x
    BY <2>1, MapsSay DEF SessionsUnique, Member, SessionId
  <2> QED BY <2>1, <2>2
<1>6. \A q \in RoomIds : \A m \in rooms[q].members :
        \E k \in rooms'[q].members : k.sessionId = m.sessionId /\ k.playerName = m.playerName
  BY <1>1
<1>7. \A d \in sessions : sess[d].sessionId # 0 => sess[d].sessionId # x /\ d # c
  BY <1>c, <1>5, MapsSay
<1>8. /\ Newcomer(n).sessionId = x /\ Newcomer(n).playerName = n
      /\ Newcomer(n) \in rooms'[r].members
  BY <1>1 DEF Newcomer
<1>s. sessions \subseteq Conn BY MapsSay
<1>0. 0 \notin SessionId BY DEF SessionId
<1> HIDE DEF x
<1>9. MapsAgree'
  <2>1. ASSUME NEW d \in sessions', Joined(d)'
        PROVE  /\ (hdlBySessionId[sess[d].sessionId] = d)'
               /\ \E m \in rooms'[sess'[d].roomId].members :
                    m.sessionId = sess'[d].sessionId /\ m.playerName = sess'[d].playerName
    <3>1. CASE d = c
      BY <1>1, <1>3, <1>4, <1>8, <3>1
    <3>2. CASE d # c
      <4>1. sess'[d] = sess[d] /\ d \in sessions /\ sess[d].sessionId # 0
        BY <1>4, <1>s, <2>1, <3>2 DEF Joined
      <4>2. /\ sess[d].sessionId \in SessionId /\ sess[d].sessionId # x
            /\ sess[d].roomId \in RoomIds
            /\ hdlBySessionId[sess[d].sessionId] = d
            /\ \E m \in rooms[sess[d].roomId].members :
                 m.sessionId = sess[d].sessionId /\ m.playerName = sess[d].playerName
        BY <1>7, <4>1, MapsSay
      <4>3. \E m \in rooms'[sess[d].roomId].members :
              m.sessionId = sess[d].sessionId /\ m.playerName = sess[d].playerName
        BY <1>6, <4>2
      <4> QED BY <1>3, <4>1, <4>2, <4>3
    <3> QED BY <3>1, <3>2
  <2>2. ASSUME NEW q \in RoomIds, NEW m \in rooms'[q].members
        PROVE  /\ hdlBySessionId'[m.sessionId] \in sessions'
               /\ sess'[hdlBySessionId'[m.sessionId]].sessionId = m.sessionId
               /\ sess'[hdlBySessionId'[m.sessionId]].roomId = q
    <3>1. CASE m \in rooms[q].members
      <4>1. m.sessionId \in SessionId /\ m.sessionId # x BY <1>5, <3>1
      <4>2. /\ hdlBySessionId[m.sessionId] \in sessions
            /\ sess[hdlBySessionId[m.sessionId]].sessionId = m.sessionId
            /\ sess[hdlBySessionId[m.sessionId]].roomId = q
        BY <3>1, MapsSay
      <4>3. hdlBySessionId[m.sessionId] # c BY <1>c, <1>0, <4>1, <4>2
      <4> QED BY <1>3, <1>4, <1>s, <4>1, <4>2, <4>3
    <3>2. CASE q = r /\ m = Newcomer(n)
      BY <1>1, <1>3, <1>4, <1>8, <3>2
    <3> QED BY <1>1, <3>1, <3>2
  <2>3. \A y \in SessionId : hdlBySessionId'[y] # NoHdl => hdlBySessionId'[y] \in sessions'
    BY <1>3, MapsSay
  <2> QED BY <2>1, <2>2, <2>3 DEF MapsAgree
<1>10. EntriesAreOwn'
  <2>1. hdlBySessionId' \in [SessionId -> Conn \union {NoHdl}] BY <1>c, <1>3
  <2>2. ASSUME NEW y \in SessionId, hdlBySessionId'[y] # NoHdl
        PROVE  sess'[hdlBySessionId'[y]].sessionId = y
    <3>1. CASE y = x BY <1>3, <1>4, <3>1
    <3>2. CASE y # x
      <4>1. hdlBySessionId'[y] = hdlBySessionId[y] BY <1>3, <3>2
      <4>2. hdlBySessionId[y] \in sessions /\ sess[hdlBySessionId[y]].sessionId = y
        BY <2>2, <4>1, MapsSay
      <4>3. hdlBySessionId[y] # c BY <1>c, <1>0, <4>2
      <4> QED BY <1>4, <1>s, <4>1, <4>2, <4>3
    <3> QED BY <3>1, <3>2
  <2> QED BY <2>1, <2>2 DEF EntriesAreOwn
<1>11. LockIsDeclared'
  <2> SUFFICES ASSUME NEW d \in sessions, sess'[d].sessionId # 0,
                      sess'[d].projectId # NoProject
               PROVE  rooms'[sess'[d].roomId].projectId = sess'[d].projectId
    BY DEF LockIsDeclared
  <2>1. CASE d = c BY <1>2, <1>4, <2>1
  <2>2. CASE d # c
    <3>1. sess'[d] = sess[d] BY <1>4, <1>s, <2>2
    <3>2. /\ sess[d].roomId \in RoomIds
          /\ rooms[sess[d].roomId].projectId = sess[d].projectId
      BY <3>1, MapsSay DEF MInv, LockIsDeclared
    <3> QED BY <1>1, <3>1, <3>2
  <2> QED BY <2>1, <2>2
<1>12. \A d \in sessions' : ws'[d] # "none" BY <1>3 DEF MInv
<1> QED BY <1>9, <1>10, <1>11, <1>12 DEF MInv

-----------------------------------------------------------------------------
(* The whole relay. *)

\* Nobody is connected yet.
LEMMA InitMaps == Init => MInv
<1> SUFFICES ASSUME Init PROVE MInv
  OBVIOUS
<1>1. SInv BY InitSInv
<1>2. /\ sessions = {} /\ \A r \in RoomIds : rooms[r].members = {}
      /\ hdlBySessionId = [y \in SessionId |-> NoHdl]
  BY DEF Init, RegistryInit
<1> QED BY <1>1, <1>2 DEF MInv, MapsAgree, EntriesAreOwn, LockIsDeclared

\* Every step keeps the maps in agreement.
LEMMA StepKeepsMaps == MInv /\ [Next]_vars => MInv'
<1> SUFFICES ASSUME MInv, [Next]_vars PROVE MInv'
  OBVIOUS
<1>s. SInv /\ SInv' BY StepKeepsSInv DEF MInv
<1>1. CASE UNCHANGED vars
  <2>1. Quiet BY <1>1, RoomsStay DEF vars, Quiet, SamePlayer
  <2> QED BY <1>s, <2>1, PlayersStay
<1>2. CASE CheckBackpressure
  BY <1>s, <1>2, MonitorIsQuiet, PlayersStay
<1>3. ASSUME NEW c \in Conn, OnOpen(c) PROVE MInv'
  BY <1>s, <1>3, OpenKeepsMaps
<1>4. ASSUME NEW c \in Conn, OnClose(c) PROVE MInv'
  BY <1>s, <1>4, CloseKeepsMaps
<1>5. ASSUME NEW c \in Conn, OnMessage(c) PROVE MInv'
  <2>1. CASE Quiet BY <1>s, <2>1, PlayersStay
  <2>2. ASSUME NEW n \in Names, NEW r \in RoomIds, NEW p \in OptProject,
               Greet(c, n, r, p), nextSessionId' # nextSessionId,
               sessions' = sessions, c \in sessions, ~sess[c].helloDone
        PROVE  MInv'
    BY <1>s, <2>2, GreetKeepsMaps
  <2> QED BY <1>s, <1>5, <2>1, <2>2, MessageIsQuiet
<1>6. ASSUME NEW c \in Conn,
             Drain(c) \/ OnIdleTimeout(c) \/ BackpressureAges(c) \/ TransportClosed(c)
      PROVE  MInv'
  BY <1>s, <1>6, PostedIsQuiet, PlayersStay
<1> QED BY <1>1, <1>2, <1>3, <1>4, <1>5, <1>6 DEF Next

\* sessions_, hdlBySessionId_ and the rooms agree between any two handlers, however
\* hellos, leaves and closes interleave (handleHello, onClose).
THEOREM MapsAlwaysAgree == Spec => []MapsAgree
<1>1. MInv => MapsAgree BY DEF MInv
<1> QED BY <1>1, InitMaps, StepKeepsMaps, PTL DEF Spec

\* Players of one room that declared a project declared the same one (join).
THEOREM OneProjectPerRoom == Spec => []RoomsPlayOneProject
<1>1. MInv => RoomsPlayOneProject
  BY DEF MInv, LockIsDeclared, RoomsPlayOneProject, Joined
<1> QED BY <1>1, InitMaps, StepKeepsMaps, PTL DEF Spec
=============================================================================
