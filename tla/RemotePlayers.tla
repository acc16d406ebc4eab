--------------------------- MODULE RemotePlayers ---------------------------
(***************************************************************************)
(* How another player of the room is shown: its states arrive some ten     *)
(* times a second, and between two of them NetworkClient moves the shown   *)
(* position towards the last one at every fixed step of the game.          *)
(*                                                                         *)
(* One player, on a line (the code treats x and y alike).  A window is     *)
(* Window units of time and a step of the game Dt of them; positions are   *)
(* multiples of 1 / Window^MaxPackets of a tile, which the divisions by    *)
(* Window of MaxPackets interpolations leave exact.                        *)
(***************************************************************************)
EXTENDS Integers

CONSTANTS Window,      \* INTERPOLATION_WINDOW_MS
          Dt,          \* one fixed step
          Gap,         \* steps between two packets of a steady network
          MaxPackets   \* bound: states received

ASSUME RemoteAssumption ==
    /\ {Window, Dt, Gap, MaxPackets} \subseteq Nat \ {0}
    /\ Dt < Window /\ Gap * Dt <= Window   \* a packet comes before the window is over

VARIABLES player,   \* the RemotePlayer: x, prevX, targetX, interpT
          steady,   \* the network keeps the sender's pace, or delivers in bursts
          packets,  \* states received
          age       \* steps of the game since the last one

remoteVars == <<player, steady, packets, age>>

Power[n \in 0..MaxPackets] == IF n = 0 THEN 1 ELSE Window * Power[n - 1]
Tile == Power[MaxPackets]
Moves == {-1, 0, 1}

\* From a welcome, or from the first state of a session that was not listed.
NewRemote(x) == [x |-> x, prevX |-> x, targetX |-> x, interpT |-> Window]

RemoteInit == /\ player = NewRemote(0)
              /\ steady \in BOOLEAN
              /\ packets = 0 /\ age = 0

\* A tenth of a second of walking is a tile at most.
Received(x) == /\ packets < MaxPackets /\ (steady => age >= Gap)
               /\ \E m \in Moves : x = player.targetX + m * Tile
               /\ packets' = packets + 1
               /\ age' = 0
               /\ UNCHANGED steady

Places == {m * Tile : m \in -MaxPackets..MaxPackets}

\* Mutant: the baseline is where the player was heading, not where it is shown.
HandleRemoteStateFromTarget ==
  \E x \in Places :
    /\ Received(x)
    /\ player' = [player EXCEPT !.prevX = player.targetX, !.targetX = x, !.interpT = 0]

HandleRemoteState ==
  \E x \in Places :
    /\ Received(x)
    /\ player' = [player EXCEPT !.prevX = player.x, !.targetX = x, !.interpT = 0]

\* The other player left and is met again: in a welcome, or as a session not listed.
HandleWelcome == \E x \in Places : Received(x) /\ player' = NewRemote(x)

Arrived(p) == [p EXCEPT !.x = p.targetX, !.prevX = p.targetX]
Advanced(p, t) == [p EXCEPT !.interpT = t,
                            !.x = p.prevX + ((p.targetX - p.prevX) * t) \div Window]
Interpolate(p) == IF p.interpT >= Window THEN Arrived(p)
                  ELSE Advanced(p, IF p.interpT + Dt > Window THEN Window ELSE p.interpT + Dt)

\* Long rests are alike: the age is counted up to the window.
Update == /\ player' = Interpolate(player)
          /\ age' = IF age > Window THEN age ELSE age + 1
          /\ UNCHANGED <<steady, packets>>

RemoteNext == HandleRemoteState \/ HandleWelcome \/ Update

RemoteSpec == RemoteInit /\ [][RemoteNext]_remoteVars

-----------------------------------------------------------------------------
Distance(x, y) == IF x > y THEN x - y ELSE y - x

RemoteTypeOK == /\ player \in [x : Int, prevX : Int, targetX : Int, interpT : 0..Window]
                /\ steady \in BOOLEAN /\ packets \in 0..MaxPackets /\ age \in 0..Window + 1

\* Whenever a state arrives, in the middle of a move too, the shown position stays on
\* the way from where it was shown to where the player is: no jump, no overshoot.
StaysOnItsWay ==
  Distance(player.prevX, player.x) + Distance(player.x, player.targetX)
    = Distance(player.prevX, player.targetX)

\* A player that nothing is heard of for a window is shown where it was last seen.
SettlesInAWindow == age * Dt >= Window => player.x = player.targetX

\* The window is longer than the pause between two states, so that the shown
\* position is always late; on a steady network the delay does not add up.
DelayDoesNotAddUp ==
  steady => Distance(player.x, player.targetX) * Gap * Dt <= Tile * Window

\* The three together: the other players are seen where they are, a little late.
ShownIsOnItsWay == StaysOnItsWay /\ SettlesInAWindow /\ DelayDoesNotAddUp

\* The other players are shown on their way, where they are after a window of rest,
\* and no later and later on a steady network.
ShownTrailsPlayer == RemoteTypeOK /\ ShownIsOnItsWay
=============================================================================
