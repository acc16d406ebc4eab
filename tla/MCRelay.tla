------------------------------ MODULE MCRelay ------------------------------
(* Small instances of Relay: the configurations choose how many connections  *)
(* there are, how long the queues are and how many messages arrive.          *)
EXTENDS Relay

CONSTANTS c1, c2, c3, r1, r2, kibo, aria, noor, p1, p2, none

OneRoom == {r1}
TwoRooms == {r1, r2}
TwoConns == {c1, c2}
ThreeConns == {c1, c2, c3}
TwoNames == {kibo, aria}
ThreeNames == {kibo, aria, noor}
NoProjects == {}
OneProject == {p1}
TwoProjects == {p1, p2}

AllKinds == MessageKinds
RoomTalk == {"hello", "player_state", "chat", "leave"}
ComeAndGo == {"hello", "player_state", "leave"}
HelloLeave == {"hello", "leave"}
StateTalk == {"hello", "player_state"}

Symmetry2 == Permutations(TwoConns) \union Permutations(TwoNames)
Symmetry3 == Permutations(ThreeConns) \union Permutations(ThreeNames)
SymmetryR == Permutations(ThreeConns) \union Permutations(TwoNames)
               \union Permutations(TwoRooms) \union Permutations(TwoProjects)

\* The peer's reaction to one message.
React(w, m) ==
  CASE m.type = "welcome" ->
         [w EXCEPT !.welcomed = TRUE,
                   !.roster = @ \union (DOMAIN m.states \ {m.you}),
                   !.heard = [x \in SessionId |->
                                IF x \in DOMAIN m.states THEN m.states[x] ELSE @[x]]]
    [] m.type = "player_state" ->
         [w EXCEPT !.roster = @ \union {m.from}, !.heard[m.from] = m.version]
    [] m.type = "leave" ->
         [w EXCEPT !.roster = @ \ {m.from}, !.gone = @ \union {m.from}]
    [] OTHER -> w

\* Delivered is what one reaction after the other comes to: every queue of up to three
\* messages about two players, for a peer that knows nobody and one that knew both.
Said == {ErrorMsg, ChatMsg(1)} \union {LeaveMsg(x) : x \in 1..2}
          \union {StateMsg(x, v) : x \in 1..2, v \in Version}
          \union {WelcomeMsg(1, f) : f \in [{1, 2} -> Version]}
Knowing == [NewView EXCEPT !.welcomed = TRUE, !.roster = {2}, !.gone = {1},
                           !.heard[2] = MaxVersion]

ASSUME DeliveredIsFold ==
  \A n \in 0..3 : \A q \in [1..n -> Said] : \A w \in {NewView, Knowing} :
    Delivered(w, q) = FoldLeft(React, w, q)
=============================================================================
