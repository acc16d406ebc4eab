---------------------------- MODULE RoomRegistry ----------------------------
(***************************************************************************)
(* The room registry (server/src/room_registry.cpp): rooms created on      *)
(* demand and never removed, a player cap, unique player names, and a      *)
(* projectId pinned by the first joiner that declares one.                 *)
(*                                                                         *)
(* rooms is total over the room names, with a flag for presence in the     *)
(* map.  A session id is the number n of "s-<n>"; 0 is the empty string.   *)
(* The member vector is a set: its order is never observed.  Operators     *)
(* take the registry as an argument R, so that a caller can chain them.    *)
(***************************************************************************)
EXTENDS Naturals, FiniteSets

CONSTANTS RoomIds, Names, Projects,
          NoProject,    \* the empty optional
          MaxPlayers,   \* defaultMaxPlayers_; the constructor turns 0 into 16
          MaxSessions,  \* bound: sessions admitted in a behaviour
          MaxVersion    \* bound: states of one player

ASSUME RegistryAssumption == /\ NoProject \notin Projects
                             /\ MaxPlayers \in Nat \ {0}
                             /\ MaxSessions \in Nat
                             /\ MaxVersion \in Nat

VARIABLES rooms, nextSessionId

registryVars == <<rooms, nextSessionId>>

OptProject == Projects \union {NoProject}
SessionId == 1..MaxSessions

\* lastState numbers the player_states of one member; 0 is the empty optional.
Member == [sessionId : SessionId, playerName : Names, lastState : 0..MaxVersion]

Room == [created : BOOLEAN, projectId : OptProject, members : SUBSET Member]

RegistryInit ==
  /\ rooms = [r \in RoomIds |->
                [created |-> FALSE, projectId |-> NoProject, members |-> {}]]
  /\ nextSessionId = 1

-----------------------------------------------------------------------------
IsFull(room) == Cardinality(room.members) >= MaxPlayers

NameTaken(room, n) == \E m \in room.members : m.playerName = n

ProjectMismatch(room, p) == /\ p # NoProject
                            /\ room.projectId # NoProject
                            /\ room.projectId # p

\* The checks of join, in the order the code makes them.
JoinResult(R, r, n, p) ==
  IF ~R[r].created THEN "room_not_found"
  ELSE IF IsFull(R[r]) THEN "room_full"
  ELSE IF NameTaken(R[r], n) THEN "name_taken"
  ELSE IF ProjectMismatch(R[r], p) THEN "project_mismatch"
  ELSE "ok"

GetOrCreateRoom(R, r) == [R EXCEPT ![r].created = TRUE]

\* Mutant of AddMember: the room never takes over the project.
AddMemberUnpinned(R, r, n, p, s) ==
  [R EXCEPT ![r].members = @ \union
               {[sessionId |-> s, playerName |-> n, lastState |-> 0]}]

\* The effect of a join that returned ok.
AddMember(R, r, n, p, s) ==
  [R EXCEPT ![r].projectId = IF p # NoProject /\ @ = NoProject THEN p ELSE @,
            ![r].members = @ \union
               {[sessionId |-> s, playerName |-> n, lastState |-> 0]}]

\* Mutant of RemoveMember: the last member takes the project lock with it.
RemoveMemberUnlocks(R, r, s) ==
  LET rest == {m \in R[r].members : m.sessionId # s}
  IN  [R EXCEPT ![r].members = rest,
                ![r].projectId = IF rest = {} THEN NoProject ELSE @]

RemoveMember(R, r, s) ==
  [R EXCEPT ![r].members = {m \in @ : m.sessionId # s}]

\* A session that is no member is left alone.
UpdateMemberState(R, r, s, v) ==
  [R EXCEPT ![r].members =
     {IF m.sessionId = s THEN [m EXCEPT !.lastState = v] ELSE m : m \in @}]

-----------------------------------------------------------------------------
\* The two calls of handleHello.  A refused join leaves the room it created.
Admit(r, n, p) ==
  LET R == GetOrCreateRoom(rooms, r)
  IN  IF JoinResult(R, r, n, p) = "ok"
      THEN /\ nextSessionId <= MaxSessions
           /\ rooms' = AddMember(R, r, n, p, nextSessionId)
           /\ nextSessionId' = nextSessionId + 1
      ELSE /\ rooms' = R
           /\ UNCHANGED nextSessionId

Expel(r, s) == /\ rooms' = RemoveMember(rooms, r, s)
               /\ UNCHANGED nextSessionId

RecordState(r, s, v) == /\ rooms' = UpdateMemberState(rooms, r, s, v)
                        /\ UNCHANGED nextSessionId

RegistryNext ==
  \E r \in RoomIds :
    \/ \E n \in Names, p \in OptProject : Admit(r, n, p)
    \/ \E s \in SessionId : Expel(r, s)
    \/ \E s \in SessionId, v \in 1..MaxVersion : RecordState(r, s, v)

RegistrySpec == RegistryInit /\ [][RegistryNext]_registryVars

-----------------------------------------------------------------------------
RegistryTypeOK == /\ rooms \in [RoomIds -> Room]
                  /\ nextSessionId \in 1..(MaxSessions + 1)

\* A room never holds more than its cap, over every order of joins, refused
\* joins and removals.
RoomCap ==
  \A r \in RoomIds : /\ IsFiniteSet(rooms[r].members)
                     /\ Cardinality(rooms[r].members) <= MaxPlayers

\* Two members of a room have different names: a name is free again exactly
\* when removeMember has taken its holder out.
NamesUnique ==
  \A r \in RoomIds : \A m1, m2 \in rooms[r].members :
    m1.playerName = m2.playerName => m1 = m2

\* A session id names one member of one room, and the next id is unused: the
\* relay routes by session id alone (hdlBySessionId_).
SessionsUnique ==
  \A r1, r2 \in RoomIds :
    \A m1 \in rooms[r1].members, m2 \in rooms[r2].members :
      /\ m1.sessionId = m2.sessionId => r1 = r2 /\ m1 = m2
      /\ m1.sessionId < nextSessionId

\* The first declared project stays, even when the room empties; a refused
\* joiner never pins its own.
ProjectPinned ==
  [][\A r \in RoomIds :
       \/ rooms'[r].projectId = rooms[r].projectId
       \/ /\ rooms[r].projectId = NoProject
          /\ rooms'[r].members # rooms[r].members]_registryVars
=============================================================================
