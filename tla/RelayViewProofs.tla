---------------------------- MODULE RelayViewProofs ----------------------------
(***************************************************************************)
(* What the relay's peers are told: a welcome first, a departure last,     *)
(* positions that never go back and nobody who is not there, for any       *)
(* number of connections, rooms and messages and any queue capacity.       *)
(*                                                                         *)
(* A step does one of four things to a peer: nothing, a message pushed to  *)
(* its queue, a drain, or its end.  The first part is about queues alone:  *)
(* what such a change does to a queue that is Sound for a peer and for the *)
(* world it is told of.  The second finds the change each handler makes,   *)
(* and shows that the world only grows.  The last is about rooms of two,   *)
(* where a peer comes to know what the other player relayed last.          *)
(***************************************************************************)
EXTENDS RelayProofs

\* What a message says of the players, weighed against the world: no state is told
\* that its player has not sent (B), and no departure that did not happen (G).
Fair(m, B, G) == \A x \in SessionId : /\ Tells(m, x) => Told(m, x) <= B[x]
                                      /\ Removes(m, x) => x \in G

OfRoom(m) == m.type \in {"player_state", "chat", "leave"}

\* The slot is where the one state is, and nothing but errors precedes a welcome.
Shaped(q, k) ==
  /\ \A i \in DOMAIN q : q[i].type = "player_state" <=> i = k
  /\ \A i, j \in DOMAIN q : i < j /\ q[j].type = "welcome" => q[i].type = "error"

\* What is told later is not older.
Ordered(q, w) ==
  \A x \in SessionId : \A i \in DOMAIN q : Tells(q[i], x) =>
    /\ w.heard[x] <= Told(q[i], x)
    /\ \A j \in DOMAIN q : j < i /\ Tells(q[j], x) => Told(q[j], x) <= Told(q[i], x)

\* Nothing about a player follows its departure.
LastWord(q, w) ==
  \A i \in DOMAIN q : OfRoom(q[i]) =>
    /\ q[i].from \notin w.gone
    /\ \A j \in DOMAIN q : j < i => ~Removes(q[j], q[i].from)

\* All of this, of a queue q with its slot at k, for a peer that knows w.
Sound(q, k, w, B, G) ==
  /\ \A i \in DOMAIN q : Fair(q[i], B, G)
  /\ \A x \in SessionId : w.heard[x] <= B[x]
  /\ w.gone \subseteq G
  /\ Shaped(q, k)
  /\ Ordered(q, w)
  /\ LastWord(q, w)

\* The newest state each player can have told, and who may be said to have left: they
\* only grow, because an id is given out once.
Bound == [x \in SessionId |-> IF x >= nextSessionId THEN 0
                              ELSE IF hdlBySessionId[x] = NoHdl THEN MaxVersion
                              ELSE sess[hdlBySessionId[x]].version]
MayGo == {x \in SessionId : /\ x < nextSessionId
                            /\ hdlBySessionId[x] # NoHdl => sess[hdlBySessionId[x]].left}

Slot(d) == sess[d].outbound.stateIndex
Present(d) == MemberIds(sess[d].roomId) \union Leavers

Welcoming(q) == \E i \in DOMAIN q : q[i].type = "welcome"

\* Who has not joined was told of nobody; who joined was welcomed first, and the
\* players it will see are in its room or sent leave.
PeerOK(d) ==
  /\ Sound(Queued(d), Slot(d), view[d], Bound, MayGo)
  /\ sess[d].sessionId = 0 =>
       view[d] = NewView /\ \A i \in DOMAIN Queued(d) : Queued(d)[i].type = "error"
  /\ Intact(d) /\ ~view[d].welcomed => view[d].roster = {} /\ Welcoming(Queued(d))
  /\ Intact(d) => Foreseen(d).roster \subseteq Present(d)

ViewType == [welcomed : BOOLEAN, roster : SUBSET SessionId, gone : SUBSET SessionId,
             heard : [SessionId -> Version]]

\* A welcome's last states come from the rooms; they are their players' own.
LastStatesOK == \A r \in RoomIds : \A m \in rooms[r].members :
                  m.lastState <= Bound[m.sessionId]

VInv == /\ view \in [Conn -> ViewType]
        /\ \A d \in Conn \ sessions : view[d] = NewView
        /\ \A d \in Conn : sess[d].left => ws[d] \in {"closing", "closed"}
        /\ LastStatesOK
        /\ \A d \in Conn : PeerOK(d)

\* q becomes q2, and its slot k2, by a push of m that was not refused.
PushedQueue(q, k, q2, k2, m, isState) ==
  \/ /\ q2 = Append(q, m)
     /\ isState => k = 0
     /\ k2 = IF isState THEN Len(q) + 1 ELSE k
  \/ /\ isState /\ k # 0 /\ k2 = k
     /\ q2 = [q EXCEPT ![k] = m]

\* What a handler sees to before it tells a peer m: only a newcomer is welcomed, a
\* state is newer than what was told, and its player has not been seen off.
Timely(q, w, m, isState) ==
  /\ m \in RelayMessage
  /\ isState = (m.type = "player_state")
  /\ m.type = "welcome" => \A i \in DOMAIN q : q[i].type = "error"
  /\ \A x \in SessionId : Tells(m, x) =>
       /\ w.heard[x] <= Told(m, x)
       /\ \A i \in DOMAIN q : Tells(q[i], x) => Told(q[i], x) <= Told(m, x)
  /\ OfRoom(m) => /\ m.from \notin w.gone
                  /\ \A i \in DOMAIN q : ~Removes(q[i], m.from)

QueueFits(q, k) == q \in Seq(RelayMessage) /\ k \in 0..Len(q)

-----------------------------------------------------------------------------
(* Messages and queues. *)

\* What the fields of a message are.
LEMMA MessageFields ==
  ASSUME NEW m \in RelayMessage
  PROVE  /\ m.type \in {"error", "chat", "leave", "player_state", "welcome"}
         /\ OfRoom(m) => m.from \in SessionId
         /\ m.type = "player_state" => m.version \in Version
         /\ m.type = "welcome" => /\ DOMAIN m.states \subseteq SessionId
                                  /\ \A x \in DOMAIN m.states : m.states[x] \in Version
         /\ \A x \in SessionId : Tells(m, x) => Told(m, x) \in Version
<1>1. CASE m = ErrorMsg
  BY <1>1 DEF ErrorMsg, OfRoom, Tells
<1>2. ASSUME NEW y \in SessionId, m = ChatMsg(y) \/ m = LeaveMsg(y)
      PROVE  m.type \in {"chat", "leave"} /\ m.from = y
  BY <1>2 DEF ChatMsg, LeaveMsg
<1>3. ASSUME NEW y \in SessionId, NEW v \in Version, m = StateMsg(y, v)
      PROVE  m.type = "player_state" /\ m.from = y /\ m.version = v
  BY <1>3 DEF StateMsg
<1>4. ASSUME NEW y \in SessionId, NEW X \in SUBSET SessionId, NEW f \in [X -> Version],
             m = WelcomeMsg(y, f)
      PROVE  m.type = "welcome" /\ m.states = f /\ DOMAIN f = X
  BY <1>4 DEF WelcomeMsg
<1>5. \/ m = ErrorMsg
      \/ \E y \in SessionId : m = ChatMsg(y) \/ m = LeaveMsg(y)
      \/ \E y \in SessionId, v \in Version : m = StateMsg(y, v)
      \/ \E y \in SessionId, X \in SUBSET SessionId : \E f \in [X -> Version] :
           m = WelcomeMsg(y, f)
  BY DEF RelayMessage
<1>6. CASE \E y \in SessionId : m = ChatMsg(y) \/ m = LeaveMsg(y)
  BY <1>2, <1>6 DEF OfRoom, Tells
<1>7. CASE \E y \in SessionId, v \in Version : m = StateMsg(y, v)
  BY <1>3, <1>7 DEF OfRoom, Tells, Told
<1>8. CASE \E y \in SessionId, X \in SUBSET SessionId : \E f \in [X -> Version] :
             m = WelcomeMsg(y, f)
  <2>1. PICK y \in SessionId, X \in SUBSET SessionId : \E f \in [X -> Version] :
           m = WelcomeMsg(y, f)
    BY <1>8
  <2>2. PICK f \in [X -> Version] : m = WelcomeMsg(y, f)
    BY <2>1
  <2>3. m.type = "welcome" /\ m.states = f /\ DOMAIN f = X
    BY <1>4, <2>2
  <2> QED BY <2>3 DEF OfRoom, Tells, Told
<1> QED BY <1>1, <1>5, <1>6, <1>7, <1>8

\* A pushed message lies at one place of the queue, and the others stay where they are.
LEMMA PushPlaces ==
  ASSUME NEW q, NEW k, QueueFits(q, k), NEW m \in RelayMessage, NEW isState \in BOOLEAN,
         NEW q2, NEW k2, PushedQueue(q, k, q2, k2, m, isState)
  PROVE  /\ QueueFits(q2, k2)
         /\ \E p \in DOMAIN q2 :
              /\ q2[p] = m
              /\ \A i \in DOMAIN q2 : i # p => i \in DOMAIN q /\ q2[i] = q[i]
              /\ \A i \in DOMAIN q : i \in DOMAIN q2
              /\ \/ /\ p \notin DOMAIN q
                    /\ \A i \in DOMAIN q2 : i <= p
                    /\ isState => k = 0
                    /\ k2 = IF isState THEN p ELSE k
                 \/ isState /\ p \in DOMAIN q /\ p = k /\ k2 = k
<1>1. Len(q) \in Nat /\ DOMAIN q = 1..Len(q)
  BY DEF QueueFits
<1>2. CASE /\ q2 = Append(q, m)
           /\ isState => k = 0
           /\ k2 = IF isState THEN Len(q) + 1 ELSE k
  <2> DEFINE p == Len(q) + 1
  <2>1. /\ q2 \in Seq(RelayMessage) /\ Len(q2) = p /\ DOMAIN q2 = 1..p
        /\ q2[p] = m /\ \A i \in 1..Len(q) : q2[i] = q[i]
    BY <1>2 DEF QueueFits
  <2>2. k2 \in 0..Len(q2) BY <1>1, <1>2, <2>1 DEF QueueFits
  <2>3. /\ p \in DOMAIN q2 /\ p \notin DOMAIN q /\ \A i \in DOMAIN q2 : i <= p
        /\ \A i \in DOMAIN q2 : i # p => i \in DOMAIN q /\ q2[i] = q[i]
        /\ \A i \in DOMAIN q : i \in DOMAIN q2
    BY <1>1, <2>1
  <2>4. k2 = IF isState THEN p ELSE k BY <1>2
  <2> HIDE DEF p
  <2> QED BY <1>2, <2>1, <2>2, <2>3, <2>4 DEF QueueFits
<1>3. CASE isState /\ k # 0 /\ k2 = k /\ q2 = [q EXCEPT ![k] = m]
  <2>1. k \in 1..Len(q) BY <1>1, <1>3 DEF QueueFits
  <2>2. /\ q2 \in Seq(RelayMessage) /\ Len(q2) = Len(q) /\ DOMAIN q2 = DOMAIN q
        /\ q2[k] = m /\ \A i \in DOMAIN q : i # k => q2[i] = q[i]
    BY <1>1, <1>3, <2>1, ExceptSeq DEF QueueFits
  <2> QED BY <1>1, <1>3, <2>1, <2>2 DEF QueueFits
<1> QED BY <1>2, <1>3 DEF PushedQueue

\* A timely message that the world allows keeps a queue sound.
LEMMA PushKeepsSound ==
  ASSUME NEW q, NEW k, QueueFits(q, k), NEW w, NEW B, NEW G, Sound(q, k, w, B, G),
         NEW m, NEW isState \in BOOLEAN, Timely(q, w, m, isState), Fair(m, B, G),
         NEW q2, NEW k2, PushedQueue(q, k, q2, k2, m, isState)
  PROVE  Sound(q2, k2, w, B, G)
<1>m. m \in RelayMessage BY DEF Timely
<1>n. /\ DOMAIN q \subseteq Nat \ {0} /\ DOMAIN q2 \subseteq Nat \ {0}
      /\ k \in Nat /\ k2 \in Nat
  BY <1>m, PushPlaces DEF QueueFits
<1>p. PICK p \in DOMAIN q2 :
        /\ q2[p] = m
        /\ \A i \in DOMAIN q2 : i # p => i \in DOMAIN q /\ q2[i] = q[i]
        /\ \/ /\ p \notin DOMAIN q
              /\ \A i \in DOMAIN q2 : i <= p
              /\ isState => k = 0
              /\ k2 = IF isState THEN p ELSE k
           \/ isState /\ p \in DOMAIN q /\ p = k /\ k2 = k
  BY <1>m, PushPlaces
<1>k. k # 0 => k \in DOMAIN q BY DEF QueueFits
<1>s. /\ \A i \in DOMAIN q : q[i].type = "player_state" <=> i = k
      /\ \A i, j \in DOMAIN q : i < j /\ q[j].type = "welcome" => q[i].type = "error"
  BY DEF Sound, Shaped
<1>l. ASSUME NEW i \in DOMAIN q2, p < i PROVE isState /\ p = k /\ i \in DOMAIN q /\ q2[i] = q[i]
  BY <1>n, <1>p, <1>l
<1>1. \A i \in DOMAIN q2 : Fair(q2[i], B, G)
  BY <1>p DEF Sound
<1>2. Shaped(q2, k2)
  <2>1. ASSUME NEW i \in DOMAIN q2 PROVE q2[i].type = "player_state" <=> i = k2
    <3>1. CASE i = p
      <4>1. isState <=> (q2[i].type = "player_state") BY <1>p, <3>1 DEF Timely
      <4>2. isState => i = k2 BY <1>p, <3>1
      <4>3. ~isState => i # k2 BY <1>k, <1>n, <1>p, <3>1
      <4> QED BY <4>1, <4>2, <4>3
    <3>2. CASE i # p
      <4>1. i \in DOMAIN q /\ q2[i] = q[i] BY <1>p, <3>2
      <4>2. i = k <=> i = k2 BY <1>n, <1>p, <3>2, <4>1
      <4> QED BY <1>s, <4>1, <4>2
    <3> QED BY <3>1, <3>2
  <2>2. ASSUME NEW i \in DOMAIN q2, NEW j \in DOMAIN q2, i < j, q2[j].type = "welcome"
        PROVE  q2[i].type = "error"
    <3>1. CASE j = p
      <4>1. i \in DOMAIN q /\ q2[i] = q[i] BY <1>n, <1>p, <2>2, <3>1
      <4> QED BY <1>p, <2>2, <3>1, <4>1 DEF Timely
    <3>2. CASE i = p
      <4>1. isState /\ p = k /\ j \in DOMAIN q /\ q2[j] = q[j] BY <1>l, <2>2, <3>2
      <4>2. k \in DOMAIN q BY <1>n, <1>k, <1>p, <4>1
      <4>3. q[k].type = "error" BY <1>s, <2>2, <3>2, <4>1, <4>2
      <4>4. q[k].type = "player_state" BY <1>s, <4>2
      <4> QED BY <4>3, <4>4
    <3>3. CASE i # p /\ j # p BY <1>p, <1>s, <2>2, <3>3
    <3> QED BY <3>1, <3>2, <3>3
  <2> QED BY <2>1, <2>2 DEF Shaped
<1>3. Ordered(q2, w)
  <2> SUFFICES ASSUME NEW x \in SessionId, NEW i \in DOMAIN q2, Tells(q2[i], x)
               PROVE  /\ w.heard[x] <= Told(q2[i], x)
                      /\ \A j \in DOMAIN q2 : j < i /\ Tells(q2[j], x) =>
                           Told(q2[j], x) <= Told(q2[i], x)
    BY DEF Ordered
  <2>1. CASE i = p
    BY <1>n, <1>p, <2>1 DEF Timely
  <2>2. CASE i # p
    <3>1. i \in DOMAIN q /\ q2[i] = q[i] BY <1>p, <2>2
    <3>2. w.heard[x] <= Told(q2[i], x) BY <3>1 DEF Sound, Ordered
    <3>3. ASSUME NEW j \in DOMAIN q2, j < i, Tells(q2[j], x)
          PROVE  Told(q2[j], x) <= Told(q2[i], x)
      <4>1. CASE j # p
        BY <1>p, <3>1, <3>3, <4>1 DEF Sound, Ordered
      <4>2. CASE j = p
        <5>1. isState /\ p = k BY <1>l, <3>3, <4>2
        <5>2. q[k].type = "player_state" /\ k \in DOMAIN q BY <1>s, <1>k, <1>n, <1>p, <5>1
        <5>3. q[i].type # "welcome" BY <1>s, <3>1, <3>3, <4>2, <5>1, <5>2
        <5>4. q[i].type # "player_state" BY <1>s, <2>2, <3>1, <5>1
        <5> QED BY <3>1, <5>3, <5>4 DEF Tells
      <4> QED BY <4>1, <4>2
    <3> QED BY <3>2, <3>3
  <2> QED BY <2>1, <2>2
<1>4. LastWord(q2, w)
  <2> SUFFICES ASSUME NEW i \in DOMAIN q2, OfRoom(q2[i])
               PROVE  /\ q2[i].from \notin w.gone
                      /\ \A j \in DOMAIN q2 : j < i => ~Removes(q2[j], q2[i].from)
    BY DEF LastWord
  <2>1. CASE i = p
    BY <1>n, <1>p, <2>1 DEF Timely
  <2>2. CASE i # p
    <3>1. i \in DOMAIN q /\ q2[i] = q[i] BY <1>p, <2>2
    <3>2. ASSUME NEW j \in DOMAIN q2, j < i PROVE ~Removes(q2[j], q2[i].from)
      <4>1. CASE j # p
        BY <1>p, <3>1, <3>2, <4>1 DEF Sound, LastWord
      <4>2. CASE j = p
        <5>1. isState BY <1>l, <3>2, <4>2
        <5> QED BY <1>p, <4>2, <5>1 DEF Timely, Removes
      <4> QED BY <4>1, <4>2
    <3> QED BY <3>1, <3>2 DEF Sound, LastWord
  <2> QED BY <2>1, <2>2
<1> QED BY <1>1, <1>2, <1>3, <1>4 DEF Sound

\* The others a peer will see are those it would have seen, but for one who is reported
\* gone, and whomever the message shows.
LEMMA PushShows ==
  ASSUME NEW q, NEW k, QueueFits(q, k), NEW w, NEW B, NEW G, Sound(q, k, w, B, G),
         NEW m, NEW isState \in BOOLEAN, Timely(q, w, m, isState),
         NEW q2, NEW k2, PushedQueue(q, k, q2, k2, m, isState),
         NEW x \in Delivered(w, q2).roster
  PROVE  Shows(m, x) \/ (x \in Delivered(w, q).roster /\ ~Removes(m, x))
<1>m. m \in RelayMessage BY DEF Timely
<1>n. DOMAIN q \subseteq Nat \ {0} /\ DOMAIN q2 \subseteq Nat \ {0}
  BY <1>m, PushPlaces DEF QueueFits
<1>p. PICK p \in DOMAIN q2 :
        /\ q2[p] = m
        /\ \A i \in DOMAIN q2 : i # p => i \in DOMAIN q /\ q2[i] = q[i]
        /\ \A i \in DOMAIN q : i \in DOMAIN q2
        /\ \/ p \notin DOMAIN q /\ \A i \in DOMAIN q2 : i <= p
           \/ isState /\ p \in DOMAIN q /\ p = k
  BY <1>m, PushPlaces
<1>1. x \in SessionId BY DEF Delivered
<1>2. ASSUME NEW j \in DOMAIN q, \A i \in DOMAIN q2 : j = i => ~Removes(q2[i], x)
      PROVE  ~Removes(q[j], x)
  <2>1. CASE j = p
    <3>1. q[j].type = "player_state" BY <1>p, <2>1 DEF Sound, Shaped
    <3> QED BY <3>1 DEF Removes
  <2>2. CASE j # p BY <1>2, <1>p, <2>2
  <2> QED BY <2>1, <2>2
<1>3. CASE x \in w.roster /\ \A i \in DOMAIN q2 : ~Removes(q2[i], x)
  <2>1. \A i \in DOMAIN q : ~Removes(q[i], x) BY <1>2, <1>3
  <2> QED BY <1>1, <1>3, <1>p, <2>1 DEF Delivered
<1>4. ASSUME NEW i \in DOMAIN q2, Shows(q2[i], x),
             \A j \in DOMAIN q2 : j > i => ~Removes(q2[j], x)
      PROVE  Shows(m, x) \/ (x \in Delivered(w, q).roster /\ ~Removes(m, x))
  <2>1. CASE i = p BY <1>4, <1>p, <2>1
  <2>2. CASE i # p
    <3>1. i \in DOMAIN q /\ Shows(q[i], x) BY <1>4, <1>p, <2>2
    <3>2. \A j \in DOMAIN q : j > i => ~Removes(q[j], x) BY <1>2, <1>4
    <3>3. x \in Delivered(w, q).roster BY <1>1, <3>1, <3>2 DEF Delivered
    <3>4. CASE p > i BY <1>4, <1>p, <3>3, <3>4
    <3>5. CASE ~(p > i)
      <4>1. isState BY <1>n, <1>p, <2>2, <3>5
      <4>2. ~Removes(m, x) BY <4>1 DEF Timely, Removes
      <4> QED BY <3>3, <4>2
    <3> QED BY <3>4, <3>5
  <2> QED BY <2>1, <2>2
<1> QED BY <1>3, <1>4 DEF Delivered

\* A welcome in the queue stays there.
LEMMA PushKeepsWelcome ==
  ASSUME NEW q, NEW k, QueueFits(q, k), NEW w, NEW B, NEW G, Sound(q, k, w, B, G),
         NEW m \in RelayMessage, NEW isState \in BOOLEAN,
         NEW q2, NEW k2, PushedQueue(q, k, q2, k2, m, isState)
  PROVE  /\ Welcoming(q) => Welcoming(q2)
         /\ m.type = "welcome" => Welcoming(q2)
         /\ \A i \in DOMAIN q2 : q2[i] = m \/ \E j \in DOMAIN q : q2[i] = q[j]
<1>p. PICK p \in DOMAIN q2 :
        /\ q2[p] = m
        /\ \A i \in DOMAIN q2 : i # p => i \in DOMAIN q /\ q2[i] = q[i]
        /\ \A i \in DOMAIN q : i \in DOMAIN q2
        /\ \/ p \notin DOMAIN q
           \/ isState /\ p \in DOMAIN q /\ p = k
  BY PushPlaces
<1>1. ASSUME NEW i \in DOMAIN q, q[i].type = "welcome" PROVE Welcoming(q2)
  <2>1. p \in DOMAIN q => q[p].type = "player_state" BY <1>p DEF Sound, Shaped
  <2>2. i # p BY <1>1, <2>1
  <2> QED BY <1>1, <1>p, <2>2 DEF Welcoming
<1> QED BY <1>1, <1>p DEF Welcoming

\* A world that has grown allows what it allowed before.
LEMMA WorldGrows ==
  ASSUME NEW q, NEW k, NEW w, NEW B, NEW G, QueueFits(q, k), Sound(q, k, w, B, G),
         w \in ViewType, NEW C, NEW H,
         \A x \in SessionId : B[x] \in Nat /\ C[x] \in Nat /\ B[x] <= C[x], G \subseteq H
  PROVE  Sound(q, k, w, C, H)
<1>v. Version \subseteq Nat BY DEF Version
<1>b. \A x \in SessionId : B[x] \in Nat /\ C[x] \in Nat /\ B[x] <= C[x] OBVIOUS
<1>1. ASSUME NEW i \in DOMAIN q PROVE Fair(q[i], C, H)
  <2>1. q[i] \in RelayMessage /\ Fair(q[i], B, G) BY <1>1 DEF QueueFits, Sound
  <2> SUFFICES ASSUME NEW x \in SessionId
               PROVE  /\ Tells(q[i], x) => Told(q[i], x) <= C[x]
                      /\ Removes(q[i], x) => x \in H
    BY DEF Fair
  <2>2. ASSUME Tells(q[i], x) PROVE Told(q[i], x) <= C[x]
    <3>1. Told(q[i], x) \in Nat /\ Told(q[i], x) <= B[x]
      BY <1>v, <2>1, <2>2, MessageFields DEF Fair
    <3> QED BY <1>b, <3>1
  <2> QED BY <2>1, <2>2 DEF Fair
<1>2. \A x \in SessionId : w.heard[x] \in Version BY DEF ViewType
<1>3. ASSUME NEW x \in SessionId PROVE w.heard[x] <= C[x]
  <2>1. w.heard[x] \in Nat /\ w.heard[x] <= B[x] BY <1>v, <1>2 DEF Sound
  <2> QED BY <1>b, <2>1
<1> QED BY <1>1, <1>3 DEF Sound

\* With nothing queued only the view counts.
LEMMA EmptyIsSound ==
  ASSUME NEW w, NEW B, NEW G, \A x \in SessionId : w.heard[x] <= B[x], w.gone \subseteq G
  PROVE  Sound(<< >>, 0, w, B, G)
BY DEF Sound, Shaped, Ordered, LastWord

\* A popped queue stays sound.
LEMMA PopKeepsSound ==
  ASSUME NEW q, NEW k, QueueFits(q, k), q # << >>, NEW w, NEW B, NEW G, Sound(q, k, w, B, G)
  PROVE  Sound(Tail(q), IF k = 0 THEN 0 ELSE k - 1, w, B, G)
<1> DEFINE t == Tail(q)
           l == IF k = 0 THEN 0 ELSE k - 1
<1>1. /\ DOMAIN t \subseteq Nat \ {0} /\ k \in Nat
      /\ \A i \in DOMAIN t : i + 1 \in DOMAIN q /\ t[i] = q[i + 1]
  BY DEF QueueFits
<1> HIDE DEF t
<1>2. \A i \in DOMAIN t : Fair(t[i], B, G) BY <1>1 DEF Sound
<1>3. Shaped(t, l)
  <2>1. ASSUME NEW i \in DOMAIN t PROVE t[i].type = "player_state" <=> i = l
    <3>1. q[i + 1].type = "player_state" <=> i + 1 = k BY <1>1 DEF Sound, Shaped
    <3> QED BY <1>1, <3>1
  <2>2. ASSUME NEW i \in DOMAIN t, NEW j \in DOMAIN t, i < j, t[j].type = "welcome"
        PROVE  t[i].type = "error"
    <3>1. i + 1 < j + 1 BY <1>1, <2>2
    <3> QED BY <1>1, <2>2, <3>1 DEF Sound, Shaped
  <2> QED BY <2>1, <2>2 DEF Shaped
<1>4. Ordered(t, w)
  <2> SUFFICES ASSUME NEW x \in SessionId, NEW i \in DOMAIN t, Tells(t[i], x)
               PROVE  /\ w.heard[x] <= Told(t[i], x)
                      /\ \A j \in DOMAIN t : j < i /\ Tells(t[j], x) =>
                           Told(t[j], x) <= Told(t[i], x)
    BY DEF Ordered
  <2>1. \A j \in DOMAIN t : j < i => j + 1 < i + 1 BY <1>1
  <2> QED BY <1>1, <2>1 DEF Sound, Ordered
<1>5. LastWord(t, w)
  <2> SUFFICES ASSUME NEW i \in DOMAIN t, OfRoom(t[i])
               PROVE  /\ t[i].from \notin w.gone
                      /\ \A j \in DOMAIN t : j < i => ~Removes(t[j], t[i].from)
    BY DEF LastWord
  <2>1. \A j \in DOMAIN t : j < i => j + 1 < i + 1 BY <1>1
  <2> QED BY <1>1, <2>1 DEF Sound, LastWord
<1> QED BY <1>2, <1>3, <1>4, <1>5 DEF Sound, t

\* Of the messages that tell of a player one is the last: there are at most a welcome
\* and the state in the slot.
LEMMA TellingEnds ==
  ASSUME NEW q, NEW k, QueueFits(q, k), Shaped(q, k), NEW x,
         {i \in DOMAIN q : Tells(q[i], x)} # {}
  PROVE  \E i \in {j \in DOMAIN q : Tells(q[j], x)} :
           \A j \in {l \in DOMAIN q : Tells(q[l], x)} : j <= i
<1> DEFINE T == {i \in DOMAIN q : Tells(q[i], x)}
<1>n. DOMAIN q \subseteq Nat BY DEF QueueFits
<1>1. CASE k \in T
  <2>1. q[k].type = "player_state" BY <1>1 DEF Shaped
  <2>2. \A j \in T : j # k => q[j].type = "welcome" BY DEF Tells, Shaped
  <2>3. \A j \in T : ~(k < j) BY <1>1, <1>n, <2>1, <2>2 DEF Shaped
  <2> QED BY <1>1, <1>n, <2>3
<1>2. CASE k \notin T
  <2>1. PICK i \in T : TRUE OBVIOUS
  <2>2. \A j \in T : q[j].type = "welcome" BY <1>2 DEF Tells, Shaped
  <2>3. \A j \in T : ~(i < j) BY <2>1, <2>2 DEF Shaped
  <2> QED BY <1>n, <2>1, <2>3
<1> QED BY <1>1, <1>2

\* Its word counts.
LEMMA LastTellingCounts ==
  ASSUME NEW q, NEW k, QueueFits(q, k), Shaped(q, k), NEW x \in SessionId, NEW h
  PROVE  \/ LastTold(h, q, x) = h
         \/ \E i \in DOMAIN q : Tells(q[i], x) /\ LastTold(h, q, x) = Told(q[i], x)
<1> DEFINE T == {i \in DOMAIN q : Tells(q[i], x)}
<1>1. CASE T = {} BY <1>1 DEF LastTold
<1>2. CASE T # {}
  <2>1. \E i \in T : \A j \in T : j <= i BY <1>2, TellingEnds
  <2> DEFINE i == CHOOSE i \in T : \A j \in T : j <= i
  <2>2. i \in T BY <2>1
  <2>3. LastTold(h, q, x) = Told(q[i], x) BY <1>2 DEF LastTold
  <2> QED BY <2>2, <2>3
<1> QED BY <1>1, <1>2

\* A delivered queue leaves a view in which nothing went back, nobody is newer than the
\* world and only those may be gone who may.
LEMMA DeliveryIsSound ==
  ASSUME NEW q, NEW k, QueueFits(q, k), NEW w \in ViewType, NEW B, NEW G,
         Sound(q, k, w, B, G)
  PROVE  /\ Delivered(w, q) \in ViewType
         /\ \A x \in SessionId : w.heard[x] <= Delivered(w, q).heard[x]
         /\ Sound(<< >>, 0, Delivered(w, q), B, G)
<1> DEFINE u == Delivered(w, q)
<1>1. \A x \in SessionId : w.heard[x] \in Version /\ w.heard[x] <= w.heard[x]
  BY DEF ViewType, Version
<1>2. ASSUME NEW x \in SessionId
      PROVE  /\ LastTold(w.heard[x], q, x) \in Version
             /\ w.heard[x] <= LastTold(w.heard[x], q, x)
             /\ LastTold(w.heard[x], q, x) <= B[x]
  <2>1. CASE LastTold(w.heard[x], q, x) = w.heard[x]
    BY <1>1, <2>1 DEF Sound
  <2>2. ASSUME NEW i \in DOMAIN q, Tells(q[i], x), LastTold(w.heard[x], q, x) = Told(q[i], x)
        PROVE  /\ LastTold(w.heard[x], q, x) \in Version
               /\ w.heard[x] <= LastTold(w.heard[x], q, x)
               /\ LastTold(w.heard[x], q, x) <= B[x]
    <3>1. Told(q[i], x) \in Version
      <4>1. q[i] \in RelayMessage BY <2>2 DEF QueueFits
      <4> QED BY <2>2, <4>1, MessageFields
    <3>2. w.heard[x] <= Told(q[i], x) /\ Told(q[i], x) <= B[x]
      BY <2>2 DEF Sound, Ordered, Fair
    <3> QED BY <2>2, <3>1, <3>2
  <2>3. Shaped(q, k) BY DEF Sound
  <2> QED BY <2>1, <2>2, <2>3, LastTellingCounts
<1>3. /\ u.heard = [x \in SessionId |-> LastTold(w.heard[x], q, x)]
      /\ u.gone = w.gone \union {x \in SessionId : \E i \in DOMAIN q : Removes(q[i], x)}
  BY DEF Delivered
<1>4. u \in ViewType
  BY <1>2 DEF Delivered, ViewType
<1>5. u.gone \subseteq G BY <1>3 DEF Sound, Fair
<1> HIDE DEF u
<1>6. \A x \in SessionId : w.heard[x] <= u.heard[x] /\ u.heard[x] <= B[x]
  BY <1>2, <1>3
<1>7. Sound(<< >>, 0, u, B, G) BY <1>5, <1>6, EmptyIsSound
<1> QED BY <1>4, <1>6, <1>7 DEF u

\* Once delivered, what a peer would see is what it sees.
LEMMA DeliveredStays ==
  ASSUME NEW w, w.roster \subseteq SessionId PROVE Delivered(w, << >>).roster = w.roster
BY DEF Delivered

\* Errors say nothing of anybody.
LEMMA ErrorsSayNothing ==
  ASSUME NEW q, \A i \in DOMAIN q : q[i].type = "error", NEW w \in ViewType
  PROVE  Delivered(w, q) = w
<1>1. \A x \in SessionId : \A i \in DOMAIN q :
        ~Tells(q[i], x) /\ ~Shows(q[i], x) /\ ~Removes(q[i], x)
  BY DEF Tells, Shows, Removes
<1>2. \A x \in SessionId : LastTold(w.heard[x], q, x) = w.heard[x]
  BY <1>1 DEF LastTold
<1>3. [x \in SessionId |-> LastTold(w.heard[x], q, x)] = w.heard
  BY <1>2 DEF ViewType
<1>4. {x \in SessionId : \/ x \in w.roster /\ \A i \in DOMAIN q : ~Removes(q[i], x)
                         \/ \E i \in DOMAIN q : /\ Shows(q[i], x)
                                                /\ \A j \in DOMAIN q : j > i => ~Removes(q[j], x)}
        = w.roster
  BY <1>1 DEF ViewType
<1>5. w.gone \union {x \in SessionId : \E i \in DOMAIN q : Removes(q[i], x)} = w.gone
  BY <1>1
<1>6. (w.welcomed \/ \E i \in DOMAIN q : q[i].type = "welcome") = w.welcomed
  BY DEF ViewType
<1>7. Delivered(w, q) = [welcomed |-> w.welcomed, roster |-> w.roster, gone |-> w.gone,
                         heard |-> w.heard]
  BY <1>3, <1>4, <1>5, <1>6 DEF Delivered
<1> QED BY <1>7 DEF ViewType

-----------------------------------------------------------------------------
(* What a step does to a peer d. *)

\* Nothing is queued for it, and its room loses nobody who has not sent leave.
Spared(d) ==
  /\ sess'[d].outbound = sess[d].outbound /\ view'[d] = view[d]
  /\ sess'[d].sessionId = 0 => sess[d].sessionId = 0
  /\ Intact(d)' => Intact(d) /\ Present(d) \subseteq Present(d)'

\* The message m is queued for it.  The room gains whom m shows and loses at most whom
\* m sees off.
Hears(d, m, isState) ==
  /\ Timely(Queued(d), view[d], m, isState)
  /\ Fair(m, Bound', MayGo')
  /\ PushedQueue(Queued(d), Slot(d), Queued(d)', Slot(d)', m, isState)
  /\ view'[d] = view[d]
  /\ sess'[d].sessionId = 0 => sess[d].sessionId = 0 /\ m.type = "error"
  /\ Intact(d)' => /\ Intact(d) \/ (m.type = "welcome" /\ view[d] = NewView)
                   /\ \A x \in SessionId : Shows(m, x) => x \in Present(d)'
                   /\ Intact(d) => \A x \in Present(d) : Removes(m, x) \/ x \in Present(d)'

\* Its queue is sent.
Drained(d) ==
  /\ sess'[d].outbound = EmptyQueue /\ view'[d] = Delivered(view[d], Queued(d))
  /\ sess'[d].sessionId = 0 => sess[d].sessionId = 0
  /\ Intact(d)' => Intact(d) /\ Present(d) \subseteq Present(d)'

\* The first message is lost on a connection that is no longer open.
Popped(d) ==
  /\ Queued(d) # << >> /\ sess'[d].outbound = PopFront(sess[d].outbound)
  /\ view'[d] = view[d]
  /\ sess'[d].sessionId = 0 => sess[d].sessionId = 0
  /\ ~Intact(d)'

\* It begins or ends.
Blank(d) == sess'[d].outbound = EmptyQueue /\ view'[d] = NewView /\ ~Intact(d)'

Changed(d) ==
  \/ Spared(d) \/ Drained(d) \/ Popped(d) \/ Blank(d)
  \/ \E m \in RelayMessage, isState \in BOOLEAN : Hears(d, m, isState)

\* The world only grows.
WorldGrown == /\ \A x \in SessionId : Bound[x] \in Nat /\ Bound'[x] \in Nat /\ Bound[x] <= Bound'[x]
              /\ MayGo \subseteq MayGo'

\* Nobody is told of to someone new.
LEMMA NewViewSays ==
  /\ NewView \in ViewType /\ NewView.roster = {} /\ NewView.gone = {}
  /\ \A x \in SessionId : NewView.heard[x] = 0
BY RegistryAssumption DEF NewView, ViewType, Version

\* Whatever a step does to a peer, it is told no more than it should be.
LEMMA ChangeKeepsPeer ==
  ASSUME NEW d \in Conn, PeerOK(d), QueueFits(Queued(d), Slot(d)), view[d] \in ViewType,
         WorldGrown, Changed(d)
  PROVE  PeerOK(d)' /\ view'[d] \in ViewType
<1> DEFINE q == Queued(d)  k == Slot(d)  w == view[d]
<1>s. Sound(q, k, w, Bound', MayGo') BY WorldGrows DEF PeerOK, WorldGrown
<1>r. w.roster \subseteq SessionId /\ Delivered(w, q).roster \subseteq SessionId
  BY DEF ViewType, Delivered
<1>e. EmptyQueue.messages = << >> /\ EmptyQueue.stateIndex = 0 BY DEF EmptyQueue
<1>1. CASE Spared(d)
  <2>1. Queued(d)' = q /\ Slot(d)' = k /\ view'[d] = w BY <1>1 DEF Spared, Queued, Slot
  <2>2. Foreseen(d)' = Foreseen(d) BY <2>1 DEF Foreseen
  <2>3. Sound(q, k, w, Bound, MayGo)' BY <1>s, <2>1
  <2> QED BY <1>1, <1>s, <2>1, <2>2 DEF Spared, PeerOK
<1>2. CASE Drained(d)
  <2> DEFINE u == Delivered(w, q)
  <2>1. Queued(d)' = << >> /\ Slot(d)' = 0 /\ view'[d] = u
    BY <1>2, <1>e DEF Drained, Queued, Slot
  <2>2. u \in ViewType /\ Sound(<< >>, 0, u, Bound', MayGo') BY <1>s, DeliveryIsSound
  <2>3. sess'[d].sessionId = 0 => u = NewView
    BY <1>2, ErrorsSayNothing DEF Drained, PeerOK
  <2>4. Foreseen(d)'.roster = Foreseen(d).roster /\ Foreseen(d)'.roster = u.roster
    BY <1>r, <2>1, DeliveredStays DEF Foreseen
  <2>5. Intact(d) => u.welcomed
    <3>1. Welcoming(q) => u.welcomed BY DEF Delivered, Welcoming
    <3>2. w.welcomed => u.welcomed BY DEF Delivered
    <3> QED BY <3>1, <3>2 DEF PeerOK
  <2> HIDE DEF u
  <2> QED BY <1>2, <2>1, <2>2, <2>3, <2>4, <2>5 DEF Drained, PeerOK
<1>3. CASE Popped(d)
  <2>1. /\ Queued(d)' = Tail(q) /\ Slot(d)' = (IF k = 0 THEN 0 ELSE k - 1) /\ view'[d] = w
    BY <1>3 DEF Popped, PopFront, Queued, Slot
  <2>2. q # << >> BY <1>3 DEF Popped
  <2>3. Sound(Queued(d)', Slot(d)', view'[d], Bound', MayGo')
    BY <1>s, <2>1, <2>2, PopKeepsSound
  <2>4. \A i \in DOMAIN Tail(q) : i + 1 \in DOMAIN q /\ Tail(q)[i] = q[i + 1]
    BY <2>2 DEF QueueFits
  <2> QED BY <1>3, <2>1, <2>3, <2>4 DEF Popped, PeerOK
<1>4. CASE Blank(d)
  <2>1. Queued(d)' = << >> /\ Slot(d)' = 0 /\ view'[d] = NewView
    BY <1>4, <1>e DEF Blank, Queued, Slot
  <2>2. Sound(<< >>, 0, NewView, Bound', MayGo')
    <3>1. \A x \in SessionId : NewView.heard[x] <= Bound'[x] BY NewViewSays DEF WorldGrown
    <3> QED BY <3>1, NewViewSays, EmptyIsSound
  <2> QED BY <1>4, <2>1, <2>2, NewViewSays DEF Blank, PeerOK
<1>5. ASSUME NEW m \in RelayMessage, NEW isState \in BOOLEAN, Hears(d, m, isState)
      PROVE  PeerOK(d)' /\ view'[d] \in ViewType
  <2> DEFINE q2 == Queued(d)'  k2 == Slot(d)'
  <2>1. /\ PushedQueue(q, k, q2, k2, m, isState) /\ view'[d] = w
        /\ Timely(q, w, m, isState) /\ Fair(m, Bound', MayGo')
    BY <1>5 DEF Hears
  <2> HIDE DEF q2, k2, q, k, w
  <2>q. QueueFits(q, k) /\ w \in ViewType BY DEF q, k, w
  <2>2. Sound(q2, k2, w, Bound', MayGo') BY <1>s, <2>1, <2>q, PushKeepsSound
  <2>3. /\ Welcoming(q) => Welcoming(q2)
        /\ m.type = "welcome" => Welcoming(q2)
        /\ \A i \in DOMAIN q2 : q2[i] = m \/ \E j \in DOMAIN q : q2[i] = q[j]
    BY <1>s, <2>1, <2>q, PushKeepsWelcome
  <2>4. sess'[d].sessionId = 0 =>
          view'[d] = NewView /\ \A i \in DOMAIN q2 : q2[i].type = "error"
    BY <1>5, <2>1, <2>3 DEF Hears, PeerOK, q, w
  <2>5. Intact(d)' /\ ~w.welcomed => w.roster = {} /\ Welcoming(q2)
    <3>1. CASE Intact(d) BY <2>3, <3>1 DEF PeerOK, q, w
    <3>2. CASE m.type = "welcome" /\ w = NewView BY <2>3, <3>2, NewViewSays
    <3> QED BY <1>5, <3>1, <3>2 DEF Hears, w
  <2>6. Intact(d)' => Delivered(w, q2).roster \subseteq Present(d)'
    <3> SUFFICES ASSUME Intact(d)', NEW x \in Delivered(w, q2).roster
                 PROVE  x \in Present(d)'
      OBVIOUS
    <3>1. x \in SessionId BY DEF Delivered
    <3>2. Shows(m, x) \/ (x \in Delivered(w, q).roster /\ ~Removes(m, x))
      BY <1>s, <2>1, <2>q, PushShows
    <3>3. CASE Shows(m, x) BY <1>5, <3>1, <3>3 DEF Hears
    <3>4. CASE Intact(d) /\ x \in Delivered(w, q).roster /\ ~Removes(m, x)
      BY <1>5, <3>4 DEF Hears, PeerOK, Foreseen, q, w
    <3>5. CASE m.type = "welcome" /\ w = NewView /\ x \in Delivered(w, q).roster
      <4>1. \A i \in DOMAIN q : q[i].type = "error" BY <2>1, <3>5 DEF Timely
      <4> QED BY <2>q, <3>5, <4>1, ErrorsSayNothing, NewViewSays
    <3> QED BY <1>5, <3>2, <3>3, <3>4, <3>5 DEF Hears, w
  <2> QED BY <2>1, <2>2, <2>4, <2>5, <2>6, <2>q DEF PeerOK, Foreseen, q2, k2
<1> QED BY <1>1, <1>2, <1>3, <1>4, <1>5 DEF Changed

-----------------------------------------------------------------------------
(* Sessions, one call at a time. *)

\* What a session was and did is not undone.
Grown(s, t) == /\ s.lost => t.lost
               /\ s.left => t.left
               /\ s.version <= t.version

\* A call that queues nothing.
Unqueued(s, t) == Grown(s, t) /\ t.outbound = s.outbound

\* m is pushed to the queue of a session, or refused to the session's cost.
Sent(s, t, m, isState) ==
  \/ t.outbound = s.outbound /\ (isState \/ t.lost)
  \/ PushedQueue(s.outbound.messages, s.outbound.stateIndex,
                 t.outbound.messages, t.outbound.stateIndex, m, isState)

\* enqueueTo pushes or refuses, and counts nothing.
LEMMA EnqueueSends ==
  ASSUME NEW s \in Session, NEW m, NEW isState \in BOOLEAN
  PROVE  LET t == EnqueueTo(s, m, isState)
         IN  /\ Grown(s, t) /\ Sent(s, t, m, isState)
             /\ t.left = s.left /\ t.version = s.version
<1> DEFINE q == IF isState THEN PushState(s.outbound, m) ELSE PushControl(s.outbound, m)
           t == EnqueueTo(s, m, isState)
<1>v. s.version \in Nat /\ s.version <= s.version /\ s.outbound \in QueueType
  BY DEF Session, Version
<1>1. CASE ~isState /\ Full(s.outbound)
  <2>1. /\ t.outbound = s.outbound /\ t.lost = TRUE /\ t.left = s.left
        /\ t.version = s.version
    BY <1>1 DEF EnqueueTo, Session
  <2> QED BY <1>v, <2>1 DEF Grown, Sent
<1>2. CASE isState \/ ~Full(s.outbound)
  <2>1. /\ t.outbound = q /\ t.lost = s.lost /\ t.left = s.left /\ t.version = s.version
    BY <1>2 DEF EnqueueTo, Session
  <2>2. \/ isState /\ q = s.outbound
        \/ PushedQueue(s.outbound.messages, s.outbound.stateIndex,
                       q.messages, q.stateIndex, m, isState)
    BY <1>2, <1>v DEF PushState, PushControl, PushedQueue, QueueType
  <2> HIDE DEF q
  <2> QED BY <1>v, <2>1, <2>2 DEF Grown, Sent
<1> QED BY <1>1, <1>2

\* Counters, marks and versions queue nothing.
LEMMA MarksQueueNothing ==
  ASSUME NEW s \in Session
  PROVE  /\ Unqueued(s, s)
         /\ Unqueued(s, [s EXCEPT !.unknownTypeReported = TRUE])
         /\ Unqueued(s, [s EXCEPT !.helloUsed = TRUE])
         /\ Unqueued(s, [s EXCEPT !.left = TRUE])
         /\ Unqueued(s, [s EXCEPT !.backpressure = "old"])
         /\ \A k : /\ Unqueued(s, [s EXCEPT !.consecutiveErrors = k])
                   /\ Unqueued(s, [s EXCEPT !.chatHits = k])
         /\ \A v \in Version : \A w : s.version <= v =>
              Unqueued(s, [s EXCEPT !.version = v, !.broadcast = w])
         /\ \A v \in Version : \A k, l : s.version <= v =>
              Unqueued(s, [s EXCEPT !.version = v, !.stateDrops = k, !.stateErrors = l])
<1>v. s.version \in Nat /\ s.version <= s.version
  BY DEF Session, Version
<1> QED BY <1>v DEF Unqueued, Grown, Session

-----------------------------------------------------------------------------
(* The world. *)

\* A joined session is its id's: it bounds what is told of the id, and leaving is up to it.
LEMMA BoundOfSession ==
  ASSUME MInv, NEW c \in sessions, sess[c].sessionId # 0
  PROVE  /\ sess[c].sessionId \in SessionId
         /\ Bound[sess[c].sessionId] = sess[c].version
         /\ sess[c].sessionId \in MayGo <=> sess[c].left
<1> DEFINE x == sess[c].sessionId
<1>1. /\ x \in SessionId /\ sess[c].roomId \in RoomIds /\ hdlBySessionId[x] = c
      /\ c \in Conn /\ c # NoHdl
      /\ \E m \in rooms[sess[c].roomId].members : m.sessionId = x
  BY MapsSay
<1>2. x < nextSessionId /\ nextSessionId \in Nat /\ x \in Nat
  BY <1>1 DEF MInv, SInv, RInv, SessionsUnique, RegistryTypeOK, SessionId
<1> QED BY <1>1, <1>2 DEF Bound, MayGo

\* Bounds are numbers.
LEMMA BoundIsNat ==
  ASSUME MInv, NEW x \in SessionId
  PROVE  /\ Bound[x] \in Nat
         /\ hdlBySessionId[x] # NoHdl => /\ hdlBySessionId[x] \in Conn
                                         /\ sess[hdlBySessionId[x]].version \in Version
         /\ nextSessionId <= x => hdlBySessionId[x] = NoHdl
<1>1. nextSessionId \in Nat /\ x \in Nat BY DEF MInv, SInv, RInv, RegistryTypeOK, SessionId
<1>2. ASSUME hdlBySessionId[x] # NoHdl
      PROVE  /\ hdlBySessionId[x] \in Conn /\ sess[hdlBySessionId[x]].version \in Version
             /\ x < nextSessionId
  <2> DEFINE c == hdlBySessionId[x]
  <2>1. c \in sessions /\ c \in Conn /\ sess[c].sessionId = x /\ sess[c].sessionId # 0
    BY <1>2, MapsSay DEF SessionId
  <2>2. sess[c] \in Session BY <2>1 DEF MInv, SInv
  <2>3. sess[c].roomId \in RoomIds /\ \E m \in rooms[sess[c].roomId].members : m.sessionId = x
    BY <2>1, MapsSay
  <2>4. x < nextSessionId BY <2>3 DEF MInv, SInv, RInv, SessionsUnique
  <2> QED BY <2>1, <2>2, <2>4 DEF Session
<1>3. Bound[x] \in Nat BY <1>2, RegistryAssumption DEF Bound, Version
<1> QED BY <1>1, <1>2, <1>3

\* Who leaves stays on the list.
LEMMA LeaversGrow ==
  ASSUME \A d \in Conn : sess[d].left => sess'[d].left /\ sess'[d].sessionId = sess[d].sessionId
  PROVE  Leavers \subseteq Leavers'
BY DEF Leavers

\* Steps that leave the players what they are: the world grows, nobody goes.
LEMMA QuietWorld ==
  ASSUME MInv, MInv', Quiet, nextSessionId' = nextSessionId,
         \A d \in Conn : Grown(sess[d], sess'[d])
  PROVE  /\ WorldGrown
         /\ \A d \in Conn : sess[d].roomId \in RoomIds => Present(d) \subseteq Present(d)'
<1>1. /\ hdlBySessionId' = hdlBySessionId /\ nextSessionId' = nextSessionId
      /\ \A d \in Conn : SamePlayer(sess[d], sess'[d])
      /\ MembersStay(rooms, rooms')
  BY DEF Quiet
<1>2. ASSUME NEW x \in SessionId
      PROVE  Bound[x] \in Nat /\ Bound'[x] \in Nat /\ Bound[x] <= Bound'[x]
  <2>1. Bound[x] \in Nat BY BoundIsNat
  <2>2. CASE hdlBySessionId[x] = NoHdl
    BY <1>1, <2>1, <2>2 DEF Bound
  <2>3. CASE hdlBySessionId[x] # NoHdl
    <3> DEFINE e == hdlBySessionId[x]
    <3>1. e \in Conn /\ x < nextSessionId /\ sess[e] \in Session /\ sess'[e] \in Session
      BY <2>3, BoundIsNat DEF MInv, SInv, RInv, RegistryTypeOK, SessionId
    <3>2. /\ sess[e].version <= sess'[e].version
          /\ sess[e].version \in Nat /\ sess'[e].version \in Nat
      BY <3>1 DEF Grown, Session, Version
    <3>3. /\ Bound[x] = IF x >= nextSessionId THEN 0 ELSE sess[e].version
          /\ Bound'[x] = IF x >= nextSessionId THEN 0 ELSE sess'[e].version
      BY <1>1, <2>3 DEF Bound
    <3> QED BY <3>2, <3>3
  <2> QED BY <2>2, <2>3
<1>3. MayGo \subseteq MayGo'
  BY <1>1, BoundIsNat DEF MayGo, Grown
<1>4. Leavers \subseteq Leavers' BY <1>1, LeaversGrow DEF Grown, SamePlayer
<1>5. ASSUME NEW d \in Conn, sess[d].roomId \in RoomIds
      PROVE  MemberIds(sess[d].roomId) \subseteq MemberIds(sess[d].roomId)'
  <2>1. sess'[d].roomId = sess[d].roomId BY <1>1 DEF SamePlayer
  <2> QED BY <1>1, <1>5, <2>1 DEF MembersStay, MemberIds
<1> QED BY <1>2, <1>3, <1>4, <1>5 DEF WorldGrown, Present

-----------------------------------------------------------------------------
(* Steps that leave the players what they are. *)
GoingDown == {"closing", "closed"}

\* No connection opens or comes back, and who leaves goes down.
ConnsOnlyEnd ==
  /\ \A d \in Conn : ws'[d] = "open" => ws[d] = "open"
  /\ \A d \in Conn : ws[d] \in GoingDown => ws'[d] \in GoingDown
  /\ \A d \in Conn : sess'[d].left => sess[d].left \/ ws'[d] \in GoingDown

\* A member's last state is old, or its player's.
LastStatesFollow ==
  \A r \in RoomIds : \A m \in rooms'[r].members :
    m \in rooms[r].members \/ m.lastState <= Bound'[m.sessionId]

\* A message m that may reach a peer d.
Reaches(d, m, isState) ==
  /\ Timely(Queued(d), view[d], m, isState) /\ Fair(m, Bound', MayGo')
  /\ Sent(sess[d], sess'[d], m, isState)
  /\ sess[d].sessionId = 0 => m.type = "error"
  /\ \A x \in SessionId : Shows(m, x) => x \in Present(d)'

\* The last states of the rooms stay their players' own.
LEMMA LastStatesStay ==
  ASSUME MInv, LastStatesOK, WorldGrown, LastStatesFollow PROVE LastStatesOK'
<1> SUFFICES ASSUME NEW r \in RoomIds, NEW m \in rooms'[r].members
             PROVE  m.lastState <= Bound'[m.sessionId]
  BY DEF LastStatesOK
<1>1. CASE m \in rooms[r].members
  <2>1. m.lastState \in Nat /\ m.sessionId \in SessionId BY <1>1, MapsSay DEF Member
  <2>2. m.lastState <= Bound[m.sessionId] BY <1>1 DEF LastStatesOK
  <2> QED BY <2>1, <2>2 DEF WorldGrown
<1> QED BY <1>1 DEF LastStatesFollow

\* The queues of the relay are queues.
LEMMA QueuesFit ==
  ASSUME SInv, NEW d \in Conn PROVE QueueFits(Queued(d), Slot(d))
<1>1. QueueOK(sess[d].outbound) BY DEF SInv, SessionOK
<1> QED BY <1>1 DEF QueueOK, QueueType, QueueFits, Queued, Slot

\* What a changed peer and a grown world come to.
LEMMA ChangesKeepVInv ==
  ASSUME MInv, VInv, WorldGrown, LastStatesFollow, \A d \in Conn : Changed(d),
         \A d \in Conn \ sessions' : view'[d] = NewView,
         \A d \in Conn : sess'[d].left => ws'[d] \in GoingDown,
         view' = [d \in Conn |-> view'[d]]
  PROVE  VInv'
<1>1. \A d \in Conn : PeerOK(d)' /\ view'[d] \in ViewType
  BY ChangeKeepsPeer, QueuesFit DEF VInv, MInv
<1>2. LastStatesOK' BY LastStatesStay DEF VInv
<1> QED BY <1>1, <1>2 DEF VInv, GoingDown

\* A step of which every peer hears nothing or one timely message.
LEMMA QuietStep ==
  ASSUME MInv, VInv, MInv', Quiet, nextSessionId' = nextSessionId, view' = view,
         \A d \in Conn : Grown(sess[d], sess'[d]), ConnsOnlyEnd, LastStatesFollow,
         \A d \in Conn : \/ sess'[d].outbound = sess[d].outbound
                         \/ \E m \in RelayMessage, isState \in BOOLEAN : Reaches(d, m, isState)
  PROVE  VInv'
<1>1. /\ WorldGrown
      /\ \A d \in Conn : sess[d].roomId \in RoomIds => Present(d) \subseteq Present(d)'
  BY QuietWorld
<1>2. ASSUME NEW d \in Conn, Intact(d)' PROVE Intact(d) /\ Present(d) \subseteq Present(d)'
  <2>1. d \in sessions /\ sess[d].sessionId # 0 /\ ws[d] = "open" /\ ~sess[d].lost
    BY <1>2 DEF Intact, Joined, Quiet, SamePlayer, ConnsOnlyEnd, Grown
  <2>2. sess[d].roomId \in RoomIds BY <2>1, MapsSay
  <2> QED BY <1>1, <2>1, <2>2 DEF Intact, Joined
<1>3. ASSUME NEW d \in Conn PROVE Changed(d)
  <2>1. view'[d] = view[d] /\ sess'[d].sessionId = sess[d].sessionId
    BY DEF Quiet, SamePlayer
  <2>2. CASE sess'[d].outbound = sess[d].outbound
    BY <1>2, <2>1, <2>2 DEF Changed, Spared
  <2>3. ASSUME NEW m \in RelayMessage, NEW isState \in BOOLEAN, Reaches(d, m, isState)
        PROVE  Changed(d)
    <3>1. CASE sess'[d].outbound = sess[d].outbound BY <2>2, <3>1
    <3>2. CASE PushedQueue(Queued(d), Slot(d), Queued(d)', Slot(d)', m, isState)
      <4>1. Hears(d, m, isState)
        BY <1>2, <2>1, <2>3, <3>2 DEF Hears, Reaches
      <4> QED BY <4>1 DEF Changed
    <3> QED BY <2>3, <3>1, <3>2 DEF Reaches, Sent, Queued, Slot
  <2> QED BY <2>2, <2>3
<1>4. /\ \A d \in Conn \ sessions' : view'[d] = NewView
      /\ \A d \in Conn : sess'[d].left => ws'[d] \in GoingDown
  BY DEF VInv, Quiet, ConnsOnlyEnd, GoingDown
<1>5. view' = [d \in Conn |-> view'[d]] BY DEF VInv
<1> QED BY <1>1, <1>3, <1>4, <1>5, ChangesKeepVInv

-----------------------------------------------------------------------------
(* What handlers send. *)

\* An error is timely anywhere.
LEMMA ErrorIsTimely ==
  ASSUME NEW q, NEW w, NEW B, NEW G
  PROVE  /\ ErrorMsg \in RelayMessage /\ Timely(q, w, ErrorMsg, FALSE) /\ Fair(ErrorMsg, B, G)
         /\ \A x \in SessionId : ~Shows(ErrorMsg, x)
BY MessagesAreTyped DEF ErrorMsg, Timely, Fair, OfRoom, Tells, Shows, Removes

\* What a player says that was not seen off, of a state not older than any told.
LEMMA SpeakerIsTimely ==
  ASSUME NEW q, NEW k, NEW w \in ViewType, NEW B, NEW G, Sound(q, k, w, B, G),
         QueueFits(q, k), NEW m \in RelayMessage, OfRoom(m), m.from \notin G,
         B[m.from] \in Nat, m.type = "player_state" => B[m.from] <= m.version
  PROVE  Timely(q, w, m, m.type = "player_state")
<1>1. m.from \in SessionId /\ (m.type = "player_state" => m.version \in Nat)
  BY MessageFields DEF Version
<1>2. /\ m.type # "welcome" /\ m.from \notin w.gone
      /\ \A i \in DOMAIN q : ~Removes(q[i], m.from)
  BY <1>1 DEF OfRoom, Sound, Fair
<1>3. ASSUME NEW x \in SessionId, Tells(m, x)
      PROVE  /\ w.heard[x] <= Told(m, x)
             /\ \A i \in DOMAIN q : Tells(q[i], x) => Told(q[i], x) <= Told(m, x)
  <2>1. m.type = "player_state" /\ m.from = x /\ Told(m, x) = m.version
    BY <1>2, <1>3 DEF Tells, Told
  <2>2. w.heard[x] \in Nat /\ w.heard[x] <= B[x] BY DEF ViewType, Version, Sound
  <2>3. ASSUME NEW i \in DOMAIN q, Tells(q[i], x) PROVE Told(q[i], x) <= Told(m, x)
    <3>1. q[i] \in RelayMessage BY DEF QueueFits
    <3>2. Told(q[i], x) \in Nat BY <2>3, <3>1, MessageFields DEF Version
    <3>3. Told(q[i], x) <= B[x] BY <2>3 DEF Sound, Fair
    <3> QED BY <1>1, <2>1, <3>2, <3>3
  <2> QED BY <1>1, <2>1, <2>2, <2>3
<1> QED BY <1>2, <1>3 DEF Timely

\* A broadcast of c goes to the others of its room, and to all of them.
LEMMA RecipientsAreRoom ==
  ASSUME MInv, NEW c \in sessions, sess[c].sessionId # 0
  PROVE  /\ \A d \in Recipients(sess[c].roomId, sess[c].sessionId) :
              /\ d \in sessions /\ d # c
              /\ sess[d].sessionId # 0 /\ sess[d].roomId = sess[c].roomId
         /\ \A d \in sessions :
              sess[d].sessionId # 0 /\ sess[d].roomId = sess[c].roomId /\ d # c =>
                d \in Recipients(sess[c].roomId, sess[c].sessionId)
<1> DEFINE r == sess[c].roomId  x == sess[c].sessionId
<1>1. r \in RoomIds /\ x \in SessionId /\ hdlBySessionId[x] = c BY MapsSay
<1>2. ASSUME NEW d \in Recipients(r, x)
      PROVE  d \in sessions /\ d # c /\ sess[d].sessionId # 0 /\ sess[d].roomId = r
  <2>1. PICK m \in rooms[r].members : m.sessionId # x /\ hdlBySessionId[m.sessionId] = d
    BY DEF Recipients
  <2>2. /\ d \in sessions /\ sess[d].sessionId = m.sessionId /\ sess[d].roomId = r
        /\ m.sessionId \in SessionId
    BY <1>1, <2>1, MapsSay DEF Member
  <2> QED BY <2>1, <2>2 DEF SessionId
<1>3. ASSUME NEW d \in sessions, sess[d].sessionId # 0, sess[d].roomId = r, d # c
      PROVE  d \in Recipients(r, x)
  <2>1. /\ hdlBySessionId[sess[d].sessionId] = d
        /\ \E m \in rooms[r].members : m.sessionId = sess[d].sessionId
    BY <1>3, MapsSay
  <2>2. sess[d].sessionId # x BY <1>1, <1>3, <2>1
  <2> QED BY <2>1, <2>2 DEF Recipients
<1> QED BY <1>2, <1>3

\* close takes a connection down and brings none back.
LEMMA CloseOnlyEnds ==
  ASSUME SInv, NEW c \in Conn, CloseConnection(c) \/ UNCHANGED ws
  PROVE  /\ \A d \in Conn : ws'[d] = "open" => ws[d] = "open"
         /\ \A d \in Conn : ws[d] \in GoingDown => ws'[d] \in GoingDown
         /\ CloseConnection(c) /\ ws[c] = "open" => ws'[c] \in GoingDown
BY DEF SInv, CloseConnection, GoingDown

\* Untouched rooms tell no new states.
LEMMA SameRoomsFollow ==
  ASSUME UNCHANGED rooms PROVE LastStatesFollow
BY DEF LastStatesFollow

\* A handler that marks its own session, with or without an error.
LEMMA OwnStepTells ==
  ASSUME MInv, VInv, MInv', Quiet, nextSessionId' = nextSessionId, view' = view,
         LastStatesFollow, NEW c \in Conn, CloseConnection(c) \/ UNCHANGED ws,
         NEW t \in Session, Unqueued(sess[c], t), t.left = sess[c].left,
         sess' = [sess EXCEPT ![c] = t] \/ sess' = [sess EXCEPT ![c] = SendError(t)]
  PROVE  VInv'
<1>s. sess \in [Conn -> Session] /\ SInv BY DEF MInv, SInv
<1>1. ASSUME NEW d \in Conn
      PROVE  /\ Grown(sess[d], sess'[d]) /\ (sess'[d].left => sess[d].left)
             /\ \/ sess'[d].outbound = sess[d].outbound
                \/ \E m \in RelayMessage, isState \in BOOLEAN : Reaches(d, m, isState)
  <2>1. CASE d # c \/ sess' = [sess EXCEPT ![c] = t]
    <3>1. sess'[d] = sess[d] \/ (d = c /\ sess'[d] = t) BY <1>s, <2>1
    <3>2. sess[d] \in Session BY <1>s
    <3> QED BY <3>1, <3>2, MarksQueueNothing DEF Unqueued
  <2>2. CASE d = c /\ sess' = [sess EXCEPT ![c] = SendError(t)]
    <3> DEFINE u == SendError(t)
    <3>1. Grown(t, u) /\ Sent(t, u, ErrorMsg, FALSE) /\ u.left = t.left /\ u.version = t.version
      BY EnqueueSends DEF SendError
    <3>2. sess'[d] = u BY <1>s, <2>2
    <3> HIDE DEF u
    <3>3. Grown(sess[d], u) /\ Sent(sess[d], u, ErrorMsg, FALSE)
      BY <2>2, <3>1 DEF Grown, Unqueued, Sent
    <3>4. Reaches(d, ErrorMsg, FALSE)
      BY <3>2, <3>3, ErrorIsTimely DEF Reaches, ErrorMsg
    <3> QED BY <2>2, <3>1, <3>2, <3>3, <3>4, ErrorIsTimely
  <2> QED BY <2>1, <2>2
<1>2. ConnsOnlyEnd
  <2>1. \A d \in Conn : sess'[d].left => sess[d].left BY <1>1
  <2> QED BY <1>s, <2>1, CloseOnlyEnds DEF ConnsOnlyEnd
<1> QED BY <1>1, <1>2, QuietStep

\* After a step that leaves the players, a session still bounds its id.
LEMMA BoundAfterQuiet ==
  ASSUME MInv, Quiet, nextSessionId' = nextSessionId, NEW c \in sessions,
         sess[c].sessionId # 0
  PROVE  /\ Bound'[sess[c].sessionId] = sess'[c].version
         /\ sess[c].sessionId \in MayGo' <=> sess'[c].left
<1> DEFINE x == sess[c].sessionId
<1>1. /\ x \in SessionId /\ sess[c].roomId \in RoomIds /\ hdlBySessionId[x] = c
      /\ c \in Conn /\ c # NoHdl
      /\ \E m \in rooms[sess[c].roomId].members : m.sessionId = x
  BY MapsSay
<1>2. x < nextSessionId /\ nextSessionId \in Nat /\ x \in Nat
  BY <1>1 DEF MInv, SInv, RInv, SessionsUnique, RegistryTypeOK, SessionId
<1>3. hdlBySessionId' = hdlBySessionId BY DEF Quiet
<1> HIDE DEF x
<1> QED BY <1>1, <1>2, <1>3 DEF Bound, MayGo, x

\* A player tells its room of itself.
LEMMA BroadcastTells ==
  ASSUME MInv, VInv, MInv', Quiet, nextSessionId' = nextSessionId, view' = view,
         LastStatesFollow, NEW c \in sessions, sess[c].sessionId # 0, ~sess[c].left,
         CloseConnection(c) \/ UNCHANGED ws,
         NEW t \in Session, Unqueued(sess[c], t), t.left => ws'[c] \in GoingDown,
         NEW m \in RelayMessage, OfRoom(m), m.from = sess[c].sessionId,
         m.type = "player_state" => sess[c].version <= m.version /\ m.version <= t.version,
         m.type = "leave" => t.left,
         sess' = BroadcastToRoom([sess EXCEPT ![c] = t], sess[c].roomId,
                                 sess[c].sessionId, m, m.type = "player_state")
  PROVE  VInv'
<1> DEFINE x == sess[c].sessionId  R == Recipients(sess[c].roomId, x)
           isState == m.type = "player_state"
           S == [sess EXCEPT ![c] = t]
<1>s. sess \in [Conn -> Session] /\ SInv /\ c \in Conn BY MapsSay DEF MInv, SInv
<1>r. \A d \in R : d \in sessions /\ d # c /\ sess[d].sessionId # 0 /\ sess[d].roomId = sess[c].roomId
  BY RecipientsAreRoom
<1>b. x \in SessionId /\ Bound[x] = sess[c].version /\ x \notin MayGo
  BY BoundOfSession
<1>1. sess'[c] = t
  BY <1>r, <1>s DEF BroadcastToRoom
<1>2. Bound'[x] = t.version /\ (x \in MayGo' <=> t.left)
  BY <1>1, BoundAfterQuiet
<1>3. ASSUME NEW d \in R
      PROVE  Grown(sess[d], sess'[d]) /\ sess'[d].left = sess[d].left
             /\ Sent(sess[d], sess'[d], m, isState)
  <2>1. d \in Conn /\ sess'[d] = EnqueueTo(sess[d], m, isState)
    BY <1>r, <1>s, <1>3, MapsSay DEF BroadcastToRoom
  <2>2. sess[d] \in Session /\ isState \in BOOLEAN BY <1>s, <2>1
  <2> HIDE DEF isState
  <2> QED BY <2>1, <2>2, EnqueueSends
<1>4. ASSUME NEW d \in Conn, d \notin R
      PROVE  Unqueued(sess[d], sess'[d]) /\ (sess'[d].left => sess[d].left \/ d = c)
  <2>1. sess'[d] = IF d = c THEN t ELSE sess[d] BY <1>s, <1>4 DEF BroadcastToRoom
  <2> QED BY <1>s, <2>1, MarksQueueNothing
<1>5. \A d \in Conn : Grown(sess[d], sess'[d]) BY <1>3, <1>4 DEF Unqueued
<1>6. ConnsOnlyEnd
  <2>1. \A d \in Conn : sess'[d].left => sess[d].left \/ d = c BY <1>3, <1>4
  <2> QED BY <1>1, <1>s, <2>1, CloseOnlyEnds DEF ConnsOnlyEnd
<1>7. ASSUME NEW d \in R PROVE Reaches(d, m, isState)
  <2>1. Timely(Queued(d), view[d], m, isState)
    <3>1. /\ d \in Conn /\ view[d] \in ViewType
          /\ Sound(Queued(d), Slot(d), view[d], Bound, MayGo) /\ QueueFits(Queued(d), Slot(d))
      BY <1>r, <1>s, <1>7, MapsSay, QueuesFit DEF VInv, PeerOK
    <3>2. Bound[x] \in Nat BY <1>b, BoundIsNat
    <3>3. m.from = x /\ (isState => Bound[m.from] <= m.version) BY <1>b
    <3> QED BY <1>b, <3>1, <3>2, <3>3, SpeakerIsTimely
  <2>2. Fair(m, Bound', MayGo')
    BY <1>2 DEF Fair, OfRoom, Tells, Told, Removes
  <2>3. x \in Present(d)'
    <3>1. d \in Conn /\ sess[d].roomId = sess[c].roomId /\ sess[d].roomId \in RoomIds
      BY <1>r, <1>s, <1>7, MapsSay
    <3>2. x \in MemberIds(sess[d].roomId) BY <3>1, MapsSay DEF MemberIds
    <3>3. Present(d) \subseteq Present(d)' BY <1>5, <3>1, QuietWorld
    <3> QED BY <3>2, <3>3 DEF Present
  <2>4. \A y \in SessionId : Shows(m, y) => y = x
    BY DEF Shows, Tells, OfRoom
  <2> QED BY <1>3, <1>7, <1>r, <2>1, <2>2, <2>3, <2>4 DEF Reaches
<1>8. \A d \in Conn : \/ sess'[d].outbound = sess[d].outbound
                      \/ \E k \in RelayMessage, b \in BOOLEAN : Reaches(d, k, b)
  BY <1>4, <1>7 DEF Unqueued
<1> QED BY <1>5, <1>6, <1>8, QuietStep

-----------------------------------------------------------------------------
(* The handlers of a message. *)

\* What every handler but the hello's leaves alone.
LEMMA MessageLeaves ==
  ASSUME NEW c \in Conn, NEW kind, Receive(c, kind)
  PROVE  view' = view /\ c \in sessions /\ ws[c] = "open"
BY DEF Receive

\* An answer or a refusal.
LEMMA AnswerTells ==
  ASSUME MInv, VInv, MInv', sessions' = sessions, view' = view, NEW c \in Conn,
         ReplyError(c) \/ SendErrorAndClose(c)
  PROVE  VInv'
<1>s. /\ sess \in [Conn -> Session] /\ sess[c] \in Session /\ SInv
      /\ [sess EXCEPT ![c] = sess[c]] = sess
  BY DEF MInv, SInv
<1>1. /\ Quiet /\ LastStatesFollow /\ nextSessionId' = nextSessionId
      /\ CloseConnection(c) \/ UNCHANGED ws
  BY <1>s, AnswerIsQuiet, SameRoomsFollow DEF ReplyError, SendErrorAndClose
<1>2. sess' = [sess EXCEPT ![c] = sess[c]] \/ sess' = [sess EXCEPT ![c] = SendError(sess[c])]
  BY <1>s DEF ReplyError, SendErrorAndClose
<1>3. Unqueued(sess[c], sess[c]) BY <1>s, MarksQueueNothing
<1> QED BY <1>s, <1>1, <1>2, <1>3, OwnStepTells

\* Malformed and unknown messages.
LEMMA BadMessageTells ==
  ASSUME MInv, VInv, MInv', NEW c \in Conn, OnMalformedMessage(c) \/ OnUnknownType(c)
  PROVE  VInv'
<1>s. sess[c] \in Session /\ SInv BY DEF MInv, SInv
<1>1. /\ Quiet /\ LastStatesFollow /\ nextSessionId' = nextSessionId /\ view' = view
  BY <1>s, BadMessageIsQuiet, SameRoomsFollow, MessageLeaves DEF OnMalformedMessage, OnUnknownType
<1>2. CASE OnMalformedMessage(c)
  <2> DEFINE t == [sess[c] EXCEPT !.consecutiveErrors = @ + 1]
  <2>1. sess[c].consecutiveErrors + 1 \in Nat BY <1>s DEF Session
  <2>2. t \in Session /\ t.left = sess[c].left BY <1>s, <2>1 DEF Session
  <2>3. Unqueued(sess[c], t) BY <1>s, MarksQueueNothing
  <2>4. /\ sess' = [sess EXCEPT ![c] = SendError(t)]
        /\ CloseConnection(c) \/ UNCHANGED ws
    BY <1>2 DEF OnMalformedMessage, CloseIf
  <2> HIDE DEF t
  <2> QED BY <1>1, <2>2, <2>3, <2>4, OwnStepTells
<1>3. CASE OnUnknownType(c)
  <2> DEFINE t == [sess[c] EXCEPT !.unknownTypeReported = TRUE]
  <2>1. t \in Session /\ t.left = sess[c].left BY <1>s DEF Session
  <2>2. Unqueued(sess[c], t) BY <1>s, MarksQueueNothing
  <2>3. (sess' = sess \/ sess' = [sess EXCEPT ![c] = SendError(t)]) /\ UNCHANGED ws
    BY <1>3 DEF OnUnknownType
  <2>4. [sess EXCEPT ![c] = sess[c]] = sess BY DEF MInv, SInv
  <2>5. Unqueued(sess[c], sess[c]) BY <1>s, MarksQueueNothing
  <2> HIDE DEF t
  <2>6. CASE sess' = sess
    BY <1>1, <1>s, <2>3, <2>4, <2>5, <2>6, OwnStepTells
  <2> QED BY <1>1, <2>1, <2>2, <2>3, <2>6, OwnStepTells
<1> QED BY <1>2, <1>3

\* A stored state is its player's newest.
LEMMA RecordFollows ==
  ASSUME MInv, Quiet, nextSessionId' = nextSessionId, NEW c \in sessions,
         sess[c].sessionId # 0, sess[c].version + 1 \in 1..MaxVersion,
         RecordState(sess[c].roomId, sess[c].sessionId, sess[c].version + 1),
         sess'[c].version = sess[c].version + 1
  PROVE  LastStatesFollow
<1> DEFINE r == sess[c].roomId  x == sess[c].sessionId  v == sess[c].version + 1
           Touched(m) == IF m.sessionId = x THEN [m EXCEPT !.lastState = v] ELSE m
<1>1. r \in RoomIds /\ x \in SessionId BY MapsSay
<1>2. /\ \A q \in RoomIds \ {r} : rooms'[q] = rooms[q]
      /\ rooms'[r].members = {Touched(m) : m \in rooms[r].members}
  BY <1>1, RecordEffect DEF MInv, SInv, RInv
<1>3. Bound'[x] = v BY BoundAfterQuiet
<1>v. v <= v OBVIOUS
<1>4. ASSUME NEW m \in rooms[r].members
      PROVE  Touched(m) \in rooms[r].members \/ Touched(m).lastState <= Bound'[Touched(m).sessionId]
  <2>1. m \in Member BY <1>1, MapsSay
  <2>2. CASE m.sessionId = x
    <3>1. Touched(m).sessionId = x /\ Touched(m).lastState = v BY <2>1, <2>2 DEF Member
    <3> QED BY <1>3, <1>v, <3>1
  <2>3. CASE m.sessionId # x BY <2>3
  <2> QED BY <2>2, <2>3
<1> HIDE DEF Touched
<1> QED BY <1>2, <1>4 DEF LastStatesFollow

\* A state is stored, and relayed or counted.
LEMMA StateTells ==
  ASSUME MInv, VInv, MInv', NEW c \in Conn, HandlePlayerState(c)
  PROVE  VInv'
<1>s. sess \in [Conn -> Session] /\ sess[c] \in Session /\ SInv BY DEF MInv, SInv
<1>r. /\ sessions' = sessions /\ c \in sessions /\ view' = view /\ ws[c] = "open" /\ Quiet
  BY <1>s, ReceiveLeaves, MessageLeaves, StateIsQuiet DEF HandlePlayerState
<1>1. CASE ReplyError(c)
  BY <1>1, <1>r, AnswerTells
<1>2. CASE /\ sess[c].helloDone
           /\ sess[c].version < MaxVersion
           /\ RecordState(sess[c].roomId, sess[c].sessionId, sess[c].version + 1)
           /\ LimitState(c) \/ RelayState(c)
  <2> DEFINE v == sess[c].version + 1
  <2>1. /\ v \in Version /\ v \in 1..MaxVersion /\ sess[c].version <= v /\ v <= v
    BY <1>s, <1>2, RegistryAssumption DEF Session, Version
  <2>2. /\ sess[c].sessionId # 0 /\ sess[c].sessionId \in SessionId
        /\ nextSessionId' = nextSessionId /\ ~sess[c].left
    BY <1>2, <1>r, <1>s, HelloHasId DEF SessionId, RecordState, VInv
  <2>3. CASE LimitState(c)
    <3> DEFINE full == sess[c].stateDrops + 1 >= StateDropsPerError
               drops == IF full THEN 0 ELSE sess[c].stateDrops + 1
               errors == IF full THEN sess[c].stateErrors + 1 ELSE sess[c].stateErrors
               t == [sess[c] EXCEPT !.version = v, !.stateDrops = drops,
                                    !.stateErrors = errors]
    <3>1. drops \in Nat /\ errors \in Nat BY <1>s DEF Session
    <3>2. /\ sess' = [sess EXCEPT ![c] = IF full THEN SendError(t) ELSE t]
          /\ CloseConnection(c) \/ UNCHANGED ws
      BY <2>3 DEF LimitState, CloseIf
    <3> HIDE DEF full, drops, errors, v
    <3>3. t \in Session /\ t.left = sess[c].left /\ t.version = v
      BY <1>s, <2>1, <3>1 DEF Session
    <3>4. Unqueued(sess[c], t) BY <1>s, <2>1, MarksQueueNothing
    <3> HIDE DEF t
    <3>5. SendError(t).version = v BY <3>3, EnqueueSends DEF SendError
    <3>6. sess'[c].version = v BY <1>s, <3>2, <3>3, <3>5
    <3>7. LastStatesFollow BY <1>2, <1>r, <2>1, <2>2, <3>6, RecordFollows DEF v
    <3> QED BY <1>r, <2>2, <3>2, <3>3, <3>4, <3>7, OwnStepTells
  <2>4. CASE RelayState(c)
    <3> DEFINE t == [sess[c] EXCEPT !.version = v, !.broadcast = v]
               m == StateMsg(sess[c].sessionId, v)
               r == sess[c].roomId
    <3>1. [sess EXCEPT ![c].version = v, ![c].broadcast = v] = [sess EXCEPT ![c] = t]
      BY DEF MInv, SInv, Session
    <3>2. /\ m \in RelayMessage /\ m.type = "player_state" /\ m.from = sess[c].sessionId
          /\ m.version = v /\ OfRoom(m)
      BY <2>1, <2>2, MessagesAreTyped DEF StateMsg, OfRoom
    <3>3. /\ sess' = BroadcastToRoom([sess EXCEPT ![c] = t], r, sess[c].sessionId, m,
                                     m.type = "player_state")
          /\ UNCHANGED ws
      BY <2>4, <3>1, <3>2 DEF RelayState
    <3> HIDE DEF v, m
    <3>4. t \in Session /\ t.left = sess[c].left /\ t.version = v
      BY <1>s, <2>1 DEF Session
    <3>5. Unqueued(sess[c], t) BY <1>s, <2>1, MarksQueueNothing
    <3> HIDE DEF t
    <3>6. c \notin Recipients(r, sess[c].sessionId) BY <1>r, <2>2, RecipientsAreRoom
    <3>7. sess'[c].version = v BY <1>s, <3>3, <3>4, <3>6 DEF BroadcastToRoom
    <3>8. LastStatesFollow BY <1>2, <1>r, <2>1, <2>2, <3>7, RecordFollows DEF v
    <3> QED BY <1>r, <2>1, <2>2, <3>2, <3>3, <3>4, <3>5, <3>8, BroadcastTells
  <2> QED BY <1>2, <2>3, <2>4
<1> QED BY <1>1, <1>2 DEF HandlePlayerState

\* A chat is relayed or counted.
LEMMA ChatTells ==
  ASSUME MInv, VInv, MInv', NEW c \in Conn, HandleChat(c)
  PROVE  VInv'
<1>s. sess \in [Conn -> Session] /\ sess[c] \in Session /\ SInv BY DEF MInv, SInv
<1>r. /\ sessions' = sessions /\ c \in sessions /\ view' = view /\ ws[c] = "open" /\ Quiet
  BY <1>s, ReceiveLeaves, MessageLeaves, ChatIsQuiet DEF HandleChat
<1>1. CASE ReplyError(c)
  BY <1>1, <1>r, AnswerTells
<1>2. CASE LimitChat(c) /\ UNCHANGED <<rooms, nextSessionId, hdlBySessionId>>
  <2> DEFINE t == [sess[c] EXCEPT !.chatHits = @ + 1]
  <2>1. sess[c].chatHits + 1 \in Nat BY <1>s DEF Session
  <2>2. t \in Session /\ t.left = sess[c].left BY <1>s, <2>1 DEF Session
  <2>3. Unqueued(sess[c], t) BY <1>s, MarksQueueNothing
  <2>4. /\ sess' = [sess EXCEPT ![c] = SendError(t)]
        /\ CloseConnection(c) \/ UNCHANGED ws
    BY <1>2 DEF LimitChat, CloseIf
  <2> HIDE DEF t
  <2> QED BY <1>2, <1>r, <2>2, <2>3, <2>4, SameRoomsFollow, OwnStepTells
<1>3. CASE /\ sess[c].helloDone /\ RelayChat(c)
           /\ UNCHANGED <<rooms, nextSessionId, hdlBySessionId>>
  <2> DEFINE m == ChatMsg(sess[c].sessionId)
  <2>1. /\ sess[c].sessionId # 0 /\ sess[c].sessionId \in SessionId /\ ~sess[c].left
    BY <1>3, <1>r, <1>s, HelloHasId DEF SessionId, VInv
  <2>2. m \in RelayMessage /\ m.type = "chat" /\ m.from = sess[c].sessionId /\ OfRoom(m)
    BY <2>1, MessagesAreTyped DEF ChatMsg, OfRoom
  <2>3. [sess EXCEPT ![c] = sess[c]] = sess BY <1>s
  <2>4. /\ sess' = BroadcastToRoom([sess EXCEPT ![c] = sess[c]], sess[c].roomId,
                                   sess[c].sessionId, m, m.type = "player_state")
        /\ UNCHANGED ws
    BY <1>3, <2>2, <2>3 DEF RelayChat
  <2>5. Unqueued(sess[c], sess[c]) BY <1>s, MarksQueueNothing
  <2> HIDE DEF m
  <2> QED BY <1>3, <1>r, <1>s, <2>1, <2>2, <2>4, <2>5, SameRoomsFollow, BroadcastTells
<1> QED BY <1>1, <1>2, <1>3 DEF HandleChat

\* A leave is announced, and its connection goes down.
LEMMA LeaveTells ==
  ASSUME MInv, VInv, MInv', NEW c \in Conn, HandleLeave(c)
  PROVE  VInv'
<1> DEFINE t == [sess[c] EXCEPT !.left = TRUE]
           m == LeaveMsg(sess[c].sessionId)
<1>s. sess \in [Conn -> Session] /\ sess[c] \in Session /\ SInv BY DEF MInv, SInv
<1>r. /\ sessions' = sessions /\ c \in sessions /\ view' = view /\ ws[c] = "open" /\ Quiet
  BY <1>s, ReceiveLeaves, MessageLeaves, LeaveIsQuiet DEF HandleLeave
<1>1. CASE SendErrorAndClose(c)
  BY <1>1, <1>r, AnswerTells
<1>2. CASE /\ sess[c].helloDone
           /\ sess' = BroadcastLeave([sess EXCEPT ![c].left = TRUE], c)
           /\ CloseConnection(c)
           /\ UNCHANGED <<rooms, nextSessionId, hdlBySessionId>>
  <2>1. /\ sess[c].sessionId # 0 /\ sess[c].sessionId \in SessionId /\ ~sess[c].left
    BY <1>2, <1>r, <1>s, HelloHasId DEF SessionId, VInv
  <2>2. m \in RelayMessage /\ m.type = "leave" /\ m.from = sess[c].sessionId /\ OfRoom(m)
    BY <2>1, MessagesAreTyped DEF LeaveMsg, OfRoom
  <2>3. sess' = BroadcastToRoom([sess EXCEPT ![c] = t], sess[c].roomId,
                                sess[c].sessionId, m, m.type = "player_state")
    BY <1>2, <2>2 DEF BroadcastLeave
  <2>4. t \in Session /\ t.left BY <1>s DEF Session
  <2>5. Unqueued(sess[c], t) BY <1>s, MarksQueueNothing
  <2>6. ws'[c] \in GoingDown BY <1>2, <1>r, <1>s, CloseOnlyEnds
  <2> HIDE DEF t, m
  <2> QED BY <1>2, <1>r, <2>1, <2>2, <2>3, <2>4, <2>5, <2>6, SameRoomsFollow, BroadcastTells
<1> QED BY <1>1, <1>2 DEF HandleLeave

\* A refused hello.
LEMMA RefusedHelloTells ==
  ASSUME MInv, VInv, MInv', sessions' = sessions, view' = view, NEW c \in Conn,
         NEW n \in Names, NEW r \in RoomIds, NEW p \in OptProject, Greet(c, n, r, p),
         nextSessionId' = nextSessionId
  PROVE  VInv'
<1> DEFINE t == [sess[c] EXCEPT !.helloUsed = TRUE]
<1>s. sess[c] \in Session /\ SInv BY DEF MInv, SInv
<1>1. CloseConnection(c) /\ sess' = [sess EXCEPT ![c] = t] BY DEF Greet
<1>2. t \in Session /\ t.left = sess[c].left BY <1>s DEF Session
<1>3. Unqueued(sess[c], t) BY <1>s, MarksQueueNothing
<1> HIDE DEF t
<1>4. LastStatesFollow
  <2>1. RegistryTypeOK /\ nextSessionId \in Nat BY <1>s DEF SInv, RInv, RegistryTypeOK
  <2>2. nextSessionId + 1 # nextSessionId BY <2>1
  <2>3. \A q \in RoomIds : rooms'[q].members = rooms[q].members
    BY <2>1, <2>2, AdmitEffect DEF Greet
  <2> QED BY <2>3 DEF LastStatesFollow
<1>5. Quiet BY <1>s, RefusedHelloIsQuiet
<1> QED BY <1>1, <1>2, <1>3, <1>4, <1>5, OwnStepTells

-----------------------------------------------------------------------------
(* Timers and drains. *)

\* A step of connections alone.
LEMMA ConnStepTells ==
  ASSUME MInv, VInv, MInv', Quiet, nextSessionId' = nextSessionId, view' = view,
         rooms' = rooms, sess' = sess,
         \A d \in Conn : ws'[d] = "open" => ws[d] = "open",
         \A d \in Conn : ws[d] \in GoingDown => ws'[d] \in GoingDown
  PROVE  VInv'
<1>1. \A d \in Conn : Grown(sess[d], sess'[d])
  BY MarksQueueNothing DEF Unqueued, MInv, SInv
<1>2. ConnsOnlyEnd BY DEF ConnsOnlyEnd
<1> QED BY <1>1, <1>2, SameRoomsFollow, QuietStep

\* The monitor.
LEMMA MonitorTells ==
  ASSUME MInv, VInv, MInv', CheckBackpressure PROVE VInv'
<1>1. SInv /\ ws \in [Conn -> WsState] BY DEF MInv, SInv
<1>2. Quiet BY <1>1, MonitorIsQuiet
<1> QED BY <1>1, <1>2, ConnStepTells DEF CheckBackpressure, GoingDown

\* Timers.
LEMMA TimersTell ==
  ASSUME MInv, VInv, MInv', NEW c \in Conn,
         OnIdleTimeout(c) \/ TransportClosed(c) \/ BackpressureAges(c)
  PROVE  VInv'
<1>s. sess[c] \in Session /\ SInv /\ ws \in [Conn -> WsState] BY DEF MInv, SInv
<1>1. CASE OnIdleTimeout(c)
  <2>1. Quiet BY <1>1, <1>s, PostedIsQuiet
  <2> QED BY <1>1, <1>s, <2>1, CloseOnlyEnds, ConnStepTells DEF OnIdleTimeout
<1>2. CASE TransportClosed(c)
  <2>1. Quiet BY <1>2, <1>s, PostedIsQuiet
  <2> QED BY <1>2, <1>s, <2>1, ConnStepTells DEF TransportClosed, GoingDown
<1>3. CASE BackpressureAges(c)
  <2> DEFINE t == [sess[c] EXCEPT !.backpressure = "old"]
  <2>1. Quiet BY <1>3, <1>s, PostedIsQuiet
  <2>2. sess' = [sess EXCEPT ![c] = t] BY <1>3, <1>s DEF BackpressureAges, Session, MInv, SInv
  <2>3. t \in Session /\ t.left = sess[c].left BY <1>s DEF Session
  <2>4. Unqueued(sess[c], t) BY <1>s, MarksQueueNothing
  <2> HIDE DEF t
  <2> QED BY <1>3, <2>1, <2>2, <2>3, <2>4, SameRoomsFollow, OwnStepTells DEF BackpressureAges
<1> QED BY <1>1, <1>2, <1>3

\* A drain, on an open connection and on another.
LEMMA DrainTells ==
  ASSUME MInv, VInv, MInv', NEW c \in Conn, Drain(c)
  PROVE  VInv'
<1> DEFINE q == Unsent(c)
           b == IF q.messages = << >> THEN "none" ELSE sess[c].backpressure
           t == [sess[c] EXCEPT !.drainPending = FALSE, !.outbound = q, !.backpressure = b]
<1>s. sess \in [Conn -> Session] /\ sess[c] \in Session /\ SInv BY DEF MInv, SInv
<1>q. Quiet BY <1>s, PostedIsQuiet
<1>1. sess' = [sess EXCEPT ![c] = t] BY <1>s DEF Drain, Session
<1>2. /\ t.outbound = q /\ t.lost = sess[c].lost /\ t.left = sess[c].left
      /\ t.version = sess[c].version
  BY <1>s DEF Session
<1> HIDE DEF t
<1>3. /\ \A d \in Conn : Grown(sess[d], sess'[d]) /\ sess'[d].left = sess[d].left
      /\ \A d \in Conn : sess'[d].outbound = IF d = c THEN q ELSE sess[d].outbound
  <2>1. \A d \in Conn : Grown(sess[d], sess[d])
    BY <1>s, MarksQueueNothing DEF Unqueued
  <2> QED BY <1>1, <1>2, <1>s, <2>1 DEF Grown
<1>4. /\ WorldGrown /\ rooms' = rooms /\ ws' = ws /\ sessions' = sessions
      /\ \A d \in Conn : sess[d].roomId \in RoomIds => Present(d) \subseteq Present(d)'
  BY <1>q, <1>3, QuietWorld DEF Drain
<1>5. ASSUME NEW d \in Conn, Intact(d)' PROVE Intact(d) /\ Present(d) \subseteq Present(d)'
  <2>1. d \in sessions /\ sess[d].sessionId # 0 /\ ws[d] = "open" /\ ~sess[d].lost
    BY <1>3, <1>4, <1>5, <1>q DEF Intact, Joined, Quiet, SamePlayer, Grown
  <2>2. sess[d].roomId \in RoomIds BY <2>1, MapsSay
  <2> QED BY <1>4, <2>1, <2>2 DEF Intact, Joined
<1>6. ASSUME NEW d \in Conn PROVE Changed(d)
  <2>1. sess'[d].sessionId = sess[d].sessionId BY <1>q DEF Quiet, SamePlayer
  <2>v. view \in [Conn -> ViewType] BY DEF VInv
  <2>2. CASE d # c
    <3>1. view'[d] = view[d] BY <2>2, <2>v DEF Drain
    <3> QED BY <1>3, <1>5, <2>1, <2>2, <3>1 DEF Changed, Spared
  <2>3. CASE d = c /\ ws[c] = "open"
    <3>1. q = EmptyQueue BY <2>3 DEF Unsent
    <3>2. view'[d] = Delivered(view[d], Queued(d)) BY <2>3, <2>v DEF Drain, Queued
    <3> HIDE DEF q
    <3> QED BY <1>3, <1>5, <2>1, <2>3, <3>1, <3>2 DEF Changed, Drained
  <2>4. CASE d = c /\ ws[c] # "open" /\ Queued(c) # << >>
    <3>1. q = PopFront(sess[c].outbound) BY <2>4 DEF Unsent, Queued
    <3>2. view'[d] = view[d] /\ ~Intact(d)' BY <1>4, <2>4 DEF Drain, Intact
    <3> HIDE DEF q
    <3> QED BY <1>3, <2>1, <2>4, <3>1, <3>2 DEF Changed, Popped
  <2>5. CASE d = c /\ ws[c] # "open" /\ Queued(c) = << >>
    <3>1. q = EmptyQueue BY <2>5 DEF Unsent, Queued
    <3>2. view'[d] = view[d] BY <2>5 DEF Drain
    <3>3. sess[c].outbound = EmptyQueue
      <4>1. sess[c].outbound \in QueueType /\ sess[c].outbound.stateIndex = 0
        BY <1>s, <2>5, QueuesFit DEF Session, QueueFits, Queued, Slot
      <4> QED BY <2>5, <4>1 DEF QueueType, EmptyQueue, Queued
    <3> HIDE DEF q
    <3> QED BY <1>3, <1>5, <2>1, <2>5, <3>1, <3>2, <3>3 DEF Changed, Spared
  <2> QED BY <2>2, <2>3, <2>4, <2>5
<1>7. /\ \A d \in Conn \ sessions' : view'[d] = NewView
      /\ view' = [d \in Conn |-> view'[d]]
  BY <1>4 DEF Drain, VInv
<1>8. \A d \in Conn : sess'[d].left => ws'[d] \in GoingDown
  BY <1>3, <1>4 DEF VInv, GoingDown
<1> QED BY <1>4, <1>6, <1>7, <1>8, SameRoomsFollow, ChangesKeepVInv

-----------------------------------------------------------------------------
(* What begins and ends a player. *)

\* A connection opens with a blank view.
LEMMA OpenTells ==
  ASSUME MInv, VInv, NEW c \in Conn, OnOpen(c)
  PROVE  VInv'
<1>s. /\ sess \in [Conn -> Session] /\ ws \in [Conn -> WsState] /\ view \in [Conn -> ViewType]
      /\ sessions \subseteq Conn
  BY DEF MInv, SInv, VInv
<1>1. /\ c \notin sessions /\ ~sess[c].left /\ view[c] = NewView
      /\ sess' = [sess EXCEPT ![c] = NewSession] /\ ws' = [ws EXCEPT ![c] = "open"]
      /\ sessions' = sessions \union {c} /\ view' = view /\ rooms' = rooms
      /\ hdlBySessionId' = hdlBySessionId /\ nextSessionId' = nextSessionId
  BY DEF OnOpen, MInv, VInv
<1>2. /\ NewSession.sessionId = 0 /\ NewSession.outbound = EmptyQueue
      /\ NewSession.left = FALSE
  BY DEF NewSession
<1>3. \A x \in SessionId : hdlBySessionId[x] # NoHdl =>
        sess'[hdlBySessionId[x]] = sess[hdlBySessionId[x]]
  BY <1>1, <1>s, MapsSay
<1>4. WorldGrown
  <2>1. \A x \in SessionId : Bound'[x] = Bound[x]
    BY <1>1, <1>3 DEF Bound
  <2>2. MayGo' = MayGo BY <1>1, <1>3 DEF MayGo
  <2>3. \A x \in SessionId : Bound[x] \in Nat /\ Bound[x] <= Bound[x] BY BoundIsNat
  <2> QED BY <2>1, <2>2, <2>3 DEF WorldGrown
<1>5. \A d \in Conn \ {c} : /\ sess'[d] = sess[d] /\ ws'[d] = ws[d]
                            /\ d \in sessions' <=> d \in sessions
  BY <1>1, <1>s
<1>6. Leavers \subseteq Leavers' BY <1>1, <1>5, LeaversGrow
<1>7. ASSUME NEW d \in Conn PROVE Changed(d)
  <2>1. CASE d = c
    BY <1>1, <1>2, <1>s, <2>1 DEF Changed, Blank, Intact, Joined
  <2>2. CASE d # c
    <3>1. Intact(d)' => Intact(d) BY <1>5, <2>2 DEF Intact, Joined
    <3>2. Present(d) \subseteq Present(d)'
      BY <1>1, <1>5, <1>6, <2>2 DEF Present, MemberIds
    <3> QED BY <1>1, <1>5, <2>2, <3>1, <3>2 DEF Changed, Spared
  <2> QED BY <2>1, <2>2
<1>8. /\ \A d \in Conn \ sessions' : view'[d] = NewView
      /\ view' = [d \in Conn |-> view'[d]]
  BY <1>1, <1>s DEF VInv
<1>9. \A d \in Conn : sess'[d].left => ws'[d] \in GoingDown
  BY <1>1, <1>2, <1>5, <1>s DEF VInv, GoingDown
<1> QED BY <1>1, <1>4, <1>7, <1>8, <1>9, SameRoomsFollow, ChangesKeepVInv

\* An admitted hello: a fresh id, and a welcome that lists the room.
LEMMA GreetTells ==
  ASSUME MInv, VInv, MInv', sessions' = sessions, view' = view, NEW c \in sessions,
         ~sess[c].helloDone, ws[c] = "open",
         NEW n \in Names, NEW r \in RoomIds, NEW p \in OptProject,
         Greet(c, n, r, p), nextSessionId' # nextSessionId
  PROVE  VInv'
<1> DEFINE x == nextSessionId
           t == Greeted(sess[c], n, r, p, x)
           m == WelcomeMsg(x, Occupants(rooms'[r]))
           u == EnqueueTo(t, m, FALSE)
<1>s. /\ c \in Conn /\ sess \in [Conn -> Session] /\ sess[c] \in Session /\ SInv
      /\ sessions \subseteq Conn /\ ~sess[c].left /\ view \in [Conn -> ViewType]
  BY MapsSay DEF MInv, SInv, VInv
<1>0. sess[c].sessionId = 0 BY <1>s DEF SInv
<1>1. /\ \A q \in RoomIds \ {r} : rooms'[q] = rooms[q]
      /\ rooms'[r].members = rooms[r].members \union {Newcomer(n)}
      /\ x \in SessionId /\ nextSessionId' = x + 1
  BY <1>s, AdmitEffect DEF Greet, SInv, RInv
<1>2. /\ hdlBySessionId \in [SessionId -> Conn \union {NoHdl}]
      /\ hdlBySessionId' = [hdlBySessionId EXCEPT ![x] = c]
      /\ ws' = ws /\ sess' = [sess EXCEPT ![c] = u]
  BY DEF Greet, MInv, EntriesAreOwn
<1>3. /\ t \in Session /\ t.sessionId = x /\ t.roomId = r /\ t.outbound = sess[c].outbound
      /\ t.left = FALSE /\ t.version = sess[c].version
  BY <1>s, <1>1 DEF Greeted, Session
<1>m. /\ m \in RelayMessage /\ m.type = "welcome" /\ m.you = x
      /\ m.states = Occupants(rooms'[r])
  <2>1. rooms'[r] \in Room BY DEF MInv, SInv, RInv, RegistryTypeOK
  <2> QED BY <1>1, <2>1, OccupantsAreTyped, MessagesAreTyped DEF WelcomeMsg
<1>o. \A y \in DOMAIN Occupants(rooms'[r]) :
        \E k \in rooms'[r].members : k.sessionId = y /\ Occupants(rooms'[r])[y] = k.lastState
  BY DEF Occupants
<1> HIDE DEF t, m
<1>4. /\ Sent(sess[c], u, m, FALSE) /\ u.sessionId = x /\ u.roomId = r
      /\ u.left = FALSE /\ u.version = sess[c].version
  <2>1. Sent(t, u, m, FALSE) /\ u.left = t.left /\ u.version = t.version
    BY <1>3, EnqueueSends
  <2>2. SamePlayer(t, u) BY <1>3, EnqueueSame
  <2> QED BY <1>3, <2>1, <2>2 DEF Sent, SamePlayer
<1> HIDE DEF u
<1>5. /\ sess'[c] = u /\ \A d \in Conn \ {c} : sess'[d] = sess[d]
  BY <1>2, <1>s
<1>6. WorldGrown
  <2>n. x \in Nat /\ sess[c].version \in Nat BY <1>s, <1>1 DEF SessionId, Session, Version
  <2>1. \A y \in SessionId : hdlBySessionId[y] # c
    BY <1>0, <1>s, MapsSay DEF SessionId
  <2>2. ASSUME NEW y \in SessionId, y # x
        PROVE  Bound'[y] = Bound[y] /\ (y \in MayGo' <=> y \in MayGo)
    <3>1. hdlBySessionId'[y] = hdlBySessionId[y] BY <1>2, <2>2
    <3>2. hdlBySessionId[y] # NoHdl => sess'[hdlBySessionId[y]] = sess[hdlBySessionId[y]]
      BY <1>5, <1>s, <2>1, MapsSay
    <3>3. y < nextSessionId' <=> y < x BY <1>1, <2>2, <2>n DEF SessionId
    <3>4. y >= nextSessionId' <=> y >= x BY <1>1, <2>2, <2>n DEF SessionId
    <3> QED BY <2>2, <3>1, <3>2, <3>3, <3>4 DEF Bound, MayGo
  <2>3. Bound[x] = 0 /\ Bound'[x] = sess[c].version
    <3>1. hdlBySessionId'[x] = c /\ c # NoHdl BY <1>1, <1>2, <1>s, MapsSay
    <3>2. x >= x /\ ~(x >= nextSessionId') BY <1>1, <2>n
    <3> QED BY <1>1, <1>4, <1>5, <3>1, <3>2 DEF Bound
  <2>4. x \notin MayGo BY <2>n DEF MayGo
  <2>5. \A y \in SessionId : Bound[y] \in Nat /\ Bound[y] <= Bound[y] BY BoundIsNat
  <2>6. MayGo \subseteq MayGo' BY <2>2, <2>4 DEF MayGo
  <2>7. ASSUME NEW y \in SessionId
        PROVE  Bound[y] \in Nat /\ Bound'[y] \in Nat /\ Bound[y] <= Bound'[y]
    <3>1. CASE y = x BY <2>3, <2>n, <3>1
    <3>2. CASE y # x BY <2>2, <2>5, <3>2
    <3> QED BY <3>1, <3>2
  <2> QED BY <2>6, <2>7 DEF WorldGrown
<1>7. LastStatesFollow
  <2>1. Newcomer(n).lastState = 0 /\ Newcomer(n).sessionId = x BY DEF Newcomer
  <2>2. 0 <= Bound'[x] BY <1>1, <1>6 DEF WorldGrown
  <2> HIDE DEF x
  <2> QED BY <1>1, <2>1, <2>2 DEF LastStatesFollow
<1>8. Leavers \subseteq Leavers' BY <1>5, <1>s, LeaversGrow
<1>9. ASSUME NEW d \in Conn \ {c} PROVE Changed(d)
  <2>1. Intact(d)' => Intact(d) BY <1>2, <1>5 DEF Intact, Joined
  <2>2. Present(d) \subseteq Present(d)' \/ ~Intact(d)
    <3>1. Intact(d) => sess[d].roomId \in RoomIds BY MapsSay DEF Intact, Joined
    <3>2. \A q \in RoomIds : rooms[q].members \subseteq rooms'[q].members BY <1>1
    <3> QED BY <1>5, <1>8, <3>1, <3>2 DEF Present, MemberIds
  <2> QED BY <1>5, <2>1, <2>2 DEF Changed, Spared
<1>10. Changed(c)
  <2>p. PeerOK(c) /\ QueueFits(Queued(c), Slot(c)) BY <1>s, QueuesFit DEF VInv
  <2>1. view[c] = NewView /\ \A i \in DOMAIN Queued(c) : Queued(c)[i].type = "error"
    BY <1>0, <2>p DEF PeerOK
  <2>2. ~Intact(c) /\ sess'[c].sessionId # 0
    BY <1>0, <1>1, <1>4, <1>5 DEF Intact, Joined, SessionId
  <2>3. CASE u.outbound = sess[c].outbound /\ u.lost
    <3>1. ~Intact(c)' BY <1>5, <2>3 DEF Intact
    <3> QED BY <1>5, <2>2, <2>3, <3>1 DEF Changed, Spared
  <2>4. CASE PushedQueue(Queued(c), Slot(c), Queued(c)', Slot(c)', m, FALSE)
    <3>1. Timely(Queued(c), view[c], m, FALSE)
      <4>1. \A y \in SessionId : \A i \in DOMAIN Queued(c) : ~Tells(Queued(c)[i], y)
        BY <2>1 DEF Tells
      <4>2. ASSUME NEW y \in SessionId, Tells(m, y) PROVE view[c].heard[y] <= Told(m, y)
        <5>1. Told(m, y) \in Nat BY <1>m, <4>2, MessageFields DEF Version
        <5> QED BY <2>1, <5>1, NewViewSays
      <4> QED BY <1>m, <2>1, <4>1, <4>2 DEF Timely, OfRoom
    <3>2. Fair(m, Bound', MayGo')
      <4> SUFFICES ASSUME NEW y \in SessionId
                   PROVE  /\ Tells(m, y) => Told(m, y) <= Bound'[y]
                          /\ Removes(m, y) => y \in MayGo'
        BY DEF Fair
      <4>1. ASSUME Tells(m, y) PROVE Told(m, y) <= Bound'[y]
        <5>1. y \in DOMAIN m.states /\ Told(m, y) = m.states[y]
          BY <1>m, <4>1 DEF Tells, Told
        <5>2. PICK k \in rooms'[r].members : k.sessionId = y /\ Told(m, y) = k.lastState
          BY <1>m, <1>o, <5>1
        <5>3. LastStatesOK' BY <1>6, <1>7, LastStatesStay DEF VInv
        <5> QED BY <5>2, <5>3 DEF LastStatesOK
      <4> QED BY <1>m, <4>1 DEF Removes
    <3>3. \A y \in SessionId : Shows(m, y) => y \in Present(c)'
      <4> SUFFICES ASSUME NEW y \in SessionId, Shows(m, y) PROVE y \in Present(c)'
        OBVIOUS
      <4>1. \E k \in rooms'[r].members : k.sessionId = y
        BY <1>m, <1>o DEF Shows, Tells
      <4> QED BY <1>4, <1>5, <4>1 DEF Present, MemberIds
    <3>4. Hears(c, m, FALSE)
      BY <1>m, <2>1, <2>2, <2>4, <3>1, <3>2, <3>3 DEF Hears
    <3> QED BY <1>m, <3>4 DEF Changed
  <2> QED BY <1>4, <1>5, <2>3, <2>4 DEF Sent, Queued, Slot
<1>11. \A d \in Conn : sess'[d].left => ws'[d] \in GoingDown
  BY <1>2, <1>4, <1>5 DEF VInv, GoingDown
<1>12. /\ \A d \in Conn \ sessions' : view'[d] = NewView
       /\ view' = [d \in Conn |-> view'[d]]
  BY <1>s DEF VInv
<1> QED BY <1>6, <1>7, <1>9, <1>10, <1>11, <1>12, ChangesKeepVInv

\* What remains of an erased session.
LEMMA RemainsSays ==
  ASSUME NEW s
  PROVE  /\ Remains(s).sessionId = s.sessionId /\ Remains(s).left = s.left
         /\ Remains(s).outbound = EmptyQueue
BY DEF Remains, NewSession

\* onClose: the room is told unless it was told already, and the id is nobody's.
LEMMA CloseTells ==
  ASSUME MInv, VInv, MInv', NEW c \in Conn, OnClose(c)
  PROVE  VInv'
<1> DEFINE x == sess[c].sessionId
           S == Announce(c)
           R == Recipients(sess[c].roomId, x)
           Announced == x # 0 /\ ~sess[c].left
<1>s. /\ c \in sessions /\ sess \in [Conn -> Session] /\ sess[c] \in Session /\ SInv
      /\ sessions \subseteq Conn /\ view \in [Conn -> ViewType] /\ ws' = ws
      /\ sessions' = sessions \ {c} /\ nextSessionId' = nextSessionId
      /\ view' = [view EXCEPT ![c] = NewView]
      /\ sess' = [S EXCEPT ![c] = Remains(S[c])]
  BY DEF MInv, SInv, VInv, OnClose
<1>x. x # 0 => /\ x \in SessionId /\ sess[c].roomId \in RoomIds /\ x < nextSessionId
               /\ hdlBySessionId[x] = c /\ c # NoHdl
               /\ Bound[x] = sess[c].version /\ (x \in MayGo <=> sess[c].left)
  <2>1. x # 0 => /\ x \in SessionId /\ sess[c].roomId \in RoomIds /\ hdlBySessionId[x] = c
                 /\ \E k \in rooms[sess[c].roomId].members : k.sessionId = x
    BY <1>s, MapsSay
  <2>2. x # 0 => x < nextSessionId BY <2>1 DEF MInv, SInv, RInv, SessionsUnique
  <2> QED BY <1>s, <2>1, <2>2, MapsSay, BoundOfSession
<1>r. x # 0 => /\ \A d \in R : /\ d \in sessions /\ d # c
                                /\ sess[d].sessionId # 0 /\ sess[d].roomId = sess[c].roomId
               /\ \A d \in sessions :
                    sess[d].sessionId # 0 /\ sess[d].roomId = sess[c].roomId /\ d # c => d \in R
  <2>1. CASE x # 0
    <3>1. c \in sessions /\ sess[c].sessionId # 0 BY <1>s, <2>1
    <3> QED BY <3>1, RecipientsAreRoom
  <2> QED BY <2>1
<1>1. /\ \A d \in Conn : d \notin R \/ ~Announced => S[d] = sess[d]
      /\ \A d \in Conn : d \in R /\ Announced => S[d] = EnqueueTo(sess[d], LeaveMsg(x), FALSE)
      /\ S = [d \in Conn |-> S[d]]
  BY <1>s DEF Announce, BroadcastLeave, BroadcastToRoom
<1> HIDE DEF S
<1>2. ASSUME NEW d \in Conn
      PROVE  /\ Grown(sess[d], S[d]) /\ S[d].left = sess[d].left
             /\ SamePlayer(sess[d], S[d]) /\ S[d].version = sess[d].version
             /\ Announced /\ d \in R => Sent(sess[d], S[d], LeaveMsg(x), FALSE)
  <2>1. sess[d] \in Session BY <1>s
  <2>2. CASE d \in R /\ Announced
    <3> DEFINE u == EnqueueTo(sess[d], LeaveMsg(x), FALSE)
    <3>1. S[d] = u BY <1>1, <2>2
    <3>2. /\ Grown(sess[d], u) /\ Sent(sess[d], u, LeaveMsg(x), FALSE)
          /\ u.left = sess[d].left /\ u.version = sess[d].version
      BY <2>1, EnqueueSends
    <3>3. SamePlayer(sess[d], u) BY <2>1, EnqueueSame
    <3> HIDE DEF u
    <3> QED BY <3>1, <3>2, <3>3
  <2>3. CASE ~(d \in R /\ Announced)
    BY <1>1, <2>1, <2>3, MarksQueueNothing DEF Unqueued, SamePlayer
  <2> QED BY <2>2, <2>3
<1>3. /\ \A d \in Conn \ {c} : sess'[d] = S[d]
      /\ sess'[c] = Remains(S[c])
  BY <1>s, <1>1
<1>4. \A y \in SessionId : hdlBySessionId'[y] = IF y = x THEN NoHdl ELSE hdlBySessionId[y]
  <2>1. hdlBySessionId \in [SessionId -> Conn \union {NoHdl}] BY DEF MInv, EntriesAreOwn
  <2>2. CASE x = 0 BY <2>2 DEF OnClose, ForgetMember, SessionId
  <2>3. CASE x # 0 BY <1>x, <2>1, <2>3 DEF OnClose, ForgetMember
  <2> QED BY <2>2, <2>3
<1>5. \A q \in RoomIds : /\ rooms'[q].members \subseteq rooms[q].members
                         /\ \A k \in rooms[q].members :
                              k \in rooms'[q].members
                                \/ (x # 0 /\ q = sess[c].roomId /\ k.sessionId = x)
  <2>1. rooms \in [RoomIds -> Room] BY <1>s DEF SInv, RInv, RegistryTypeOK
  <2>2. CASE x = 0 BY <2>2 DEF OnClose, ForgetMember
  <2>3. CASE x # 0
    <3>1. rooms' = RemoveMember(rooms, sess[c].roomId, x) BY <2>3 DEF OnClose, ForgetMember
    <3> HIDE DEF x
    <3> QED BY <1>x, <2>1, <2>3, <3>1 DEF RemoveMember, Room
  <2> QED BY <2>2, <2>3
<1>6. WorldGrown
  <2>1. ASSUME NEW y \in SessionId
        PROVE  /\ Bound[y] \in Nat /\ Bound'[y] \in Nat /\ Bound[y] <= Bound'[y]
               /\ y \in MayGo => y \in MayGo'
    <3>1. Bound[y] \in Nat /\ Bound[y] <= Bound[y] BY BoundIsNat
    <3>2. CASE y = x
      <4>1. x # 0 /\ hdlBySessionId'[y] = NoHdl BY <1>4, <3>2 DEF SessionId
      <4>2. y < nextSessionId /\ ~(y >= nextSessionId)
        BY <1>x, <3>2, <4>1 DEF SInv, RInv, RegistryTypeOK, MInv, SessionId
      <4>3. Bound'[y] = MaxVersion /\ y \in MayGo' BY <1>s, <4>1, <4>2 DEF Bound, MayGo
      <4>4. sess[c].version \in Version /\ Bound[y] = sess[c].version
        BY <1>s, <1>x, <3>2, <4>1 DEF Session
      <4> QED BY <3>1, <4>3, <4>4, RegistryAssumption DEF Version
    <3>3. CASE y # x
      <4>1. hdlBySessionId'[y] = hdlBySessionId[y] BY <1>4, <3>3
      <4>2. ASSUME hdlBySessionId[y] # NoHdl
            PROVE  /\ sess'[hdlBySessionId[y]].version = sess[hdlBySessionId[y]].version
                   /\ sess'[hdlBySessionId[y]].left = sess[hdlBySessionId[y]].left
        <5>1. hdlBySessionId[y] \in Conn \ {c} BY <1>s, <3>3, <4>2, MapsSay
        <5> QED BY <1>2, <1>3, <5>1
      <4>3. Bound'[y] = Bound[y] BY <1>s, <4>1, <4>2 DEF Bound
      <4> QED BY <1>s, <3>1, <4>1, <4>2, <4>3 DEF MayGo
    <3> QED BY <3>2, <3>3
  <2>2. MayGo \subseteq MayGo' BY <2>1 DEF MayGo
  <2> QED BY <2>1, <2>2 DEF WorldGrown
<1>7. LastStatesFollow BY <1>5 DEF LastStatesFollow
<1>8. \A d \in Conn : sess'[d].left = sess[d].left /\ sess'[d].sessionId = sess[d].sessionId
  <2>1. ASSUME NEW d \in Conn
        PROVE  sess'[d].left = sess[d].left /\ sess'[d].sessionId = sess[d].sessionId
    <3>1. S[d].left = sess[d].left /\ S[d].sessionId = sess[d].sessionId
      BY <1>2 DEF SamePlayer
    <3>2. CASE d = c
      <4>1. sess'[d] = Remains(S[d]) BY <1>3, <3>2
      <4> QED BY <3>1, <4>1, RemainsSays
    <3>3. CASE d # c BY <1>3, <3>1, <3>3
    <3> QED BY <3>2, <3>3
  <2> QED BY <2>1
<1>9. Leavers \subseteq Leavers' BY <1>8, LeaversGrow
<1>10. ASSUME NEW d \in Conn \ {c} PROVE Changed(d)
  <2>1. view'[d] = view[d] /\ sess'[d] = S[d] /\ sess'[d].roomId = sess[d].roomId
    BY <1>2, <1>3, <1>s DEF SamePlayer
  <2>2. Intact(d)' => Intact(d)
    BY <1>2, <1>8, <1>s, <2>1 DEF Intact, Joined, Grown
  <2>3. Intact(d) => d \in sessions /\ sess[d].sessionId # 0 /\ sess[d].roomId \in RoomIds
    BY <1>s, MapsSay DEF Intact, Joined
  <2>4. CASE Announced /\ d \in R
    <3> DEFINE m == LeaveMsg(x)
    <3>1. m \in RelayMessage /\ m.type = "leave" /\ m.from = x /\ OfRoom(m)
      BY <1>x, <2>4, MessagesAreTyped DEF LeaveMsg, OfRoom
    <3>2. Sent(sess[d], sess'[d], m, FALSE) BY <1>2, <2>1, <2>4
    <3> HIDE DEF m
    <3>3. CASE sess'[d].outbound = sess[d].outbound /\ sess'[d].lost
      <4>1. ~Intact(d)' BY <3>3 DEF Intact
      <4> QED BY <1>8, <2>1, <3>3, <4>1 DEF Changed, Spared
    <3>4. CASE PushedQueue(Queued(d), Slot(d), Queued(d)', Slot(d)', m, FALSE)
      <4>1. Timely(Queued(d), view[d], m, FALSE)
        <5>1. /\ view[d] \in ViewType /\ Sound(Queued(d), Slot(d), view[d], Bound, MayGo)
              /\ QueueFits(Queued(d), Slot(d))
          BY <1>s, QueuesFit DEF VInv, PeerOK
        <5>2. Bound[x] \in Nat /\ x \notin MayGo BY <1>x, <2>4, BoundIsNat
        <5>3. m.type # "player_state" BY <3>1
        <5>4. Timely(Queued(d), view[d], m, m.type = "player_state")
          BY <3>1, <5>1, <5>2, <5>3, SpeakerIsTimely
        <5>5. (m.type = "player_state") = FALSE BY <5>3
        <5> QED BY <5>4, <5>5
      <4>2. Fair(m, Bound', MayGo')
        <5>1. x \in MayGo' BY <1>4, <1>s, <1>x, <2>4 DEF MayGo
        <5> QED BY <3>1, <5>1 DEF Fair, Tells, Removes
      <4>3. \A y \in SessionId : ~Shows(m, y) BY <3>1 DEF Shows, Tells
      <4>4. Intact(d) => \A y \in Present(d) : Removes(m, y) \/ y \in Present(d)'
        BY <1>5, <1>9, <2>1, <2>3, <3>1 DEF Present, MemberIds, Removes
      <4>5. Hears(d, m, FALSE)
        BY <1>8, <1>r, <2>1, <2>2, <2>4, <3>4, <4>1, <4>2, <4>3, <4>4 DEF Hears
      <4> QED BY <3>1, <4>5 DEF Changed
    <3> QED BY <3>2, <3>3, <3>4 DEF Sent, Queued, Slot
  <2>5. CASE ~(Announced /\ d \in R)
    <3>1. sess'[d].outbound = sess[d].outbound BY <1>1, <2>1, <2>5
    <3>2. Intact(d) => Present(d) \subseteq Present(d)'
      <4> SUFFICES ASSUME Intact(d), NEW y \in Present(d) PROVE y \in Present(d)'
        OBVIOUS
      <4>1. CASE y \in Leavers BY <1>9, <4>1 DEF Present
      <4>2. CASE y \in MemberIds(sess[d].roomId)
        <5>1. PICK k \in rooms[sess[d].roomId].members : k.sessionId = y
          BY <4>2 DEF MemberIds
        <5>2. CASE k \in rooms'[sess[d].roomId].members
          BY <2>1, <5>1, <5>2 DEF Present, MemberIds
        <5>3. CASE x # 0 /\ sess[d].roomId = sess[c].roomId /\ k.sessionId = x
          <6>1. sess[c].left BY <1>r, <2>3, <2>5, <5>3
          <6>2. y \in Leavers BY <1>s, <5>1, <5>3, <6>1 DEF Leavers
          <6> QED BY <4>1, <6>2
        <5> QED BY <1>5, <2>3, <5>2, <5>3
      <4> QED BY <4>1, <4>2 DEF Present
    <3> QED BY <1>8, <2>1, <2>2, <3>1, <3>2 DEF Changed, Spared
  <2> QED BY <2>4, <2>5
<1>11. Changed(c)
  <2>1. view'[c] = NewView /\ sess'[c].outbound = EmptyQueue /\ c \notin sessions'
    BY <1>3, <1>s, RemainsSays
  <2> QED BY <2>1 DEF Changed, Blank, Intact, Joined
<1>12. \A d \in Conn : sess'[d].left => ws'[d] \in GoingDown
  BY <1>8, <1>s DEF VInv, GoingDown
<1>13. /\ \A d \in Conn \ sessions' : view'[d] = NewView
       /\ view' = [d \in Conn |-> view'[d]]
  BY <1>s DEF VInv
<1> QED BY <1>6, <1>7, <1>10, <1>11, <1>12, <1>13, ChangesKeepVInv

-----------------------------------------------------------------------------
(* The invariant and what it says. *)

\* Nobody was told anything.
LEMMA InitVInv == Init => VInv
<1> SUFFICES ASSUME Init PROVE VInv
  OBVIOUS
<1>m. MInv BY InitMaps
<1>1. /\ sessions = {} /\ view = [c \in Conn |-> NewView] /\ sess = [c \in Conn |-> NewSession]
      /\ \A r \in RoomIds : rooms[r].members = {}
  BY DEF Init, RegistryInit
<1>2. /\ NewSession.sessionId = 0 /\ NewSession.left = FALSE
      /\ NewSession.outbound.messages = << >> /\ NewSession.outbound.stateIndex = 0
  BY DEF NewSession, EmptyQueue
<1>3. ASSUME NEW d \in Conn PROVE PeerOK(d)
  <2>1. Queued(d) = << >> /\ Slot(d) = 0 /\ view[d] = NewView /\ ~Intact(d)
    BY <1>1, <1>2 DEF Queued, Slot, Intact, Joined
  <2>2. \A x \in SessionId : NewView.heard[x] <= Bound[x] BY <1>m, BoundIsNat, NewViewSays
  <2>3. Sound(<< >>, 0, NewView, Bound, MayGo) BY <2>2, NewViewSays, EmptyIsSound
  <2> QED BY <2>1, <2>3 DEF PeerOK
<1> QED BY <1>1, <1>2, <1>3, NewViewSays DEF VInv, LastStatesOK

\* What a message comes to for the peers.
LEMMA MessageTells ==
  ASSUME MInv, VInv, MInv', NEW c \in Conn, OnMessage(c)
  PROVE  VInv'
<1>1. CASE OnForeignMessage(c) \/ OnClientError(c)
  BY <1>1, AnswerTells DEF OnForeignMessage, OnClientError, Receive
<1>2. CASE HandlePing(c)
  <2>1. sessions' = sessions /\ view' = view BY <1>2 DEF HandlePing, Receive
  <2>2. CASE ReplyError(c) BY <2>1, <2>2, AnswerTells
  <2>3. CASE UNCHANGED <<rooms, nextSessionId, ws, sess, hdlBySessionId>>
    <3>1. Quiet BY <2>1, <2>3, RoomsStay DEF Quiet, SamePlayer
    <3> QED BY <2>1, <2>3, <3>1, ConnStepTells
  <2> QED BY <1>2, <2>2, <2>3 DEF HandlePing
<1>3. ASSUME NEW n \in Names, NEW r \in RoomIds, NEW p \in OptProject, HandleHello(c, n, r, p)
      PROVE  VInv'
  <2>1. sessions' = sessions /\ view' = view /\ c \in sessions /\ ws[c] = "open"
    BY <1>3 DEF HandleHello, Receive
  <2>2. CASE SendErrorAndClose(c) BY <2>1, <2>2, AnswerTells
  <2>3. CASE Greet(c, n, r, p) /\ ~sess[c].helloDone
    <3>1. CASE nextSessionId' = nextSessionId BY <2>1, <2>3, <3>1, RefusedHelloTells
    <3>2. CASE nextSessionId' # nextSessionId BY <2>1, <2>3, <3>2, GreetTells
    <3> QED BY <3>1, <3>2
  <2> QED BY <1>3, <2>2, <2>3 DEF HandleHello
<1> QED BY <1>1, <1>2, <1>3, BadMessageTells, StateTells, ChatTells, LeaveTells DEF OnMessage

\* Every step keeps what the peers were told within bounds.
LEMMA StepKeepsVInv == MInv /\ VInv /\ [Next]_vars => VInv'
<1> SUFFICES ASSUME MInv, VInv, [Next]_vars PROVE VInv'
  OBVIOUS
<1>m. MInv' BY StepKeepsMaps
<1>1. CASE UNCHANGED vars
  <2>1. Quiet BY <1>1, RoomsStay DEF vars, Quiet, SamePlayer
  <2> QED BY <1>1, <1>m, <2>1, ConnStepTells DEF vars
<1>2. CASE CheckBackpressure BY <1>2, <1>m, MonitorTells
<1>3. ASSUME NEW c \in Conn, OnOpen(c) PROVE VInv' BY <1>3, OpenTells
<1>4. ASSUME NEW c \in Conn, OnMessage(c) PROVE VInv' BY <1>4, <1>m, MessageTells
<1>5. ASSUME NEW c \in Conn, OnClose(c) PROVE VInv' BY <1>5, <1>m, CloseTells
<1>6. ASSUME NEW c \in Conn, Drain(c) PROVE VInv' BY <1>6, <1>m, DrainTells
<1>7. ASSUME NEW c \in Conn, OnIdleTimeout(c) \/ TransportClosed(c) \/ BackpressureAges(c)
      PROVE  VInv'
  BY <1>7, <1>m, TimersTell
<1> QED BY <1>1, <1>2, <1>3, <1>4, <1>5, <1>6, <1>7 DEF Next

\* Whoever kept all its control messages hears of its room only after its welcome
\* (enqueueTo never overwrites a control message, OutboundQueue::push).
THEOREM WelcomeAlwaysComesFirst == Spec => []WelcomeComesFirst
<1>1. ASSUME MInv, VInv PROVE WelcomeComesFirst
  <2> SUFFICES ASSUME NEW c \in Conn, Intact(c), ~view[c].welcomed
               PROVE  /\ view[c].roster = {}
                      /\ \A i \in 1..Len(Queued(c)) :
                           Queued(c)[i].type \in {"player_state", "chat", "leave"} =>
                             \E j \in 1..(i - 1) : Queued(c)[j].type = "welcome"
    BY DEF WelcomeComesFirst
  <2>1. /\ view[c].roster = {} /\ Welcoming(Queued(c)) /\ Shaped(Queued(c), Slot(c))
        /\ QueueFits(Queued(c), Slot(c))
    BY <1>1, QueuesFit DEF VInv, PeerOK, Sound, MInv
  <2>2. DOMAIN Queued(c) = 1..Len(Queued(c)) /\ Len(Queued(c)) \in Nat BY <2>1 DEF QueueFits
  <2>3. PICK j \in DOMAIN Queued(c) : Queued(c)[j].type = "welcome" BY <2>1 DEF Welcoming
  <2>4. ASSUME NEW i \in 1..Len(Queued(c)), Queued(c)[i].type \in {"player_state", "chat", "leave"}
        PROVE  j \in 1..(i - 1)
    <3>1. i # j /\ ~(i < j) BY <2>1, <2>2, <2>3, <2>4 DEF Shaped
    <3> QED BY <2>2, <2>3, <3>1
  <2> QED BY <2>1, <2>3, <2>4
<1> QED BY <1>1, InitMaps, StepKeepsMaps, InitVInv, StepKeepsVInv, PTL DEF Spec

\* Nothing about a player follows its departure, in the queue or after it was sent: neither
\* a late state nor a second leave (handleLeave, onClose).
THEOREM LeaveIsAlwaysLast == Spec => []LeaveIsLast
<1>1. ASSUME MInv, VInv PROVE LeaveIsLast
  <2> SUFFICES ASSUME NEW c \in Conn, NEW i \in 1..Len(Queued(c)),
                      Queued(c)[i].type \in {"player_state", "chat", "leave"}
               PROVE  /\ Queued(c)[i].from \notin view[c].gone
                      /\ \A j \in 1..(i - 1) : Queued(c)[j].type = "leave" =>
                           Queued(c)[j].from # Queued(c)[i].from
    BY DEF LeaveIsLast
  <2>1. LastWord(Queued(c), view[c]) /\ QueueFits(Queued(c), Slot(c))
    BY <1>1, QueuesFit DEF VInv, PeerOK, Sound, MInv
  <2>2. DOMAIN Queued(c) = 1..Len(Queued(c)) /\ Len(Queued(c)) \in Nat BY <2>1 DEF QueueFits
  <2>3. \A j \in 1..(i - 1) : j \in DOMAIN Queued(c) /\ j < i BY <2>2
  <2> QED BY <2>1, <2>2, <2>3 DEF LastWord, OfRoom, Removes
<1> QED BY <1>1, InitMaps, StepKeepsMaps, InitVInv, StepKeepsVInv, PTL DEF Spec

\* Once its queue has arrived a peer sees nobody who is not in its room or sent leave, and
\* was told of nobody's departure who is there and did not (handleHello, onClose).
THEOREM RosterAlwaysFollowsRoom == Spec => []RosterFollowsRoom
<1>1. ASSUME MInv, VInv PROVE RosterFollowsRoom
  <2> SUFFICES ASSUME NEW c \in Conn, Intact(c)
               PROVE  /\ Foreseen(c).roster \ MemberIds(sess[c].roomId) \subseteq Leavers
                      /\ Foreseen(c).gone \intersect MemberIds(sess[c].roomId) \subseteq Leavers
    BY DEF RosterFollowsRoom
  <2>1. Foreseen(c).roster \subseteq Present(c) BY <1>1 DEF VInv, PeerOK
  <2>2. ASSUME NEW x \in Foreseen(c).gone, x \in MemberIds(sess[c].roomId)
        PROVE  x \in Leavers
    <3>1. Sound(Queued(c), Slot(c), view[c], Bound, MayGo) BY <1>1 DEF VInv, PeerOK
    <3>2. x \in MayGo BY <3>1 DEF Foreseen, Delivered, Sound, Fair
    <3>3. sess[c].roomId \in RoomIds BY <1>1, MapsSay DEF Intact, Joined
    <3>4. PICK m \in rooms[sess[c].roomId].members : m.sessionId = x BY <2>2 DEF MemberIds
    <3>5. /\ hdlBySessionId[x] \in sessions /\ sessions \subseteq Conn /\ NoHdl \notin Conn
          /\ sess[hdlBySessionId[x]].sessionId = x
      BY <1>1, <3>3, <3>4, MapsSay
    <3>6. hdlBySessionId[x] \in Conn /\ sess[hdlBySessionId[x]].left
      BY <3>2, <3>5 DEF MayGo
    <3> QED BY <3>5, <3>6 DEF Leavers
  <2> QED BY <2>1, <2>2 DEF Present
<1> QED BY <1>1, InitMaps, StepKeepsMaps, InitVInv, StepKeepsVInv, PTL DEF Spec

\* What a peer knows of a player's position never goes back (the state slot is overwritten
\* in place, and a welcome precedes every state).
THEOREM StatesNeverGoBack == Spec => StatesNeverRewind
<1>1. ASSUME MInv, VInv, MInv', [Next]_vars
      PROVE  [\A c \in sessions', x \in SessionId : view[c].heard[x] <= view'[c].heard[x]]_vars
  <2>v. /\ view \in [Conn -> ViewType] /\ sessions \subseteq Conn /\ sessions' \subseteq Conn
    BY <1>1, MapsSay DEF VInv, MInv, SInv
  <2>1. ASSUME NEW c \in Conn, view'[c] = view[c], NEW x \in SessionId
        PROVE  view[c].heard[x] <= view'[c].heard[x]
    BY <2>v, <2>1 DEF ViewType, Version
  <2>2. CASE view' = view BY <2>1, <2>2, <2>v
  <2>3. ASSUME NEW d \in Conn, OnClose(d)
        PROVE  \A c \in sessions', x \in SessionId : view[c].heard[x] <= view'[c].heard[x]
    <3>1. \A c \in sessions' : c \in Conn /\ view'[c] = view[c] BY <2>3, <2>v DEF OnClose
    <3> QED BY <2>1, <3>1
  <2>4. ASSUME NEW d \in Conn, Drain(d)
        PROVE  \A c \in sessions', x \in SessionId : view[c].heard[x] <= view'[c].heard[x]
    <3>1. \A c \in Conn \ {d} : view'[c] = view[c] BY <2>4, <2>v DEF Drain
    <3>2. view'[d] = view[d] \/ view'[d] = Delivered(view[d], Queued(d))
      BY <2>4, <2>v DEF Drain, Queued
    <3>3. \A x \in SessionId : view[d].heard[x] <= Delivered(view[d], Queued(d)).heard[x]
      <4>1. /\ view[d] \in ViewType /\ QueueFits(Queued(d), Slot(d))
            /\ Sound(Queued(d), Slot(d), view[d], Bound, MayGo)
        BY <1>1, <2>v, QueuesFit DEF VInv, PeerOK, MInv
      <4> QED BY <4>1, DeliveryIsSound
    <3>4. \A x \in SessionId : view[d].heard[x] <= view'[d].heard[x] BY <2>1, <3>2, <3>3
    <3> QED BY <2>1, <2>v, <3>1, <3>4
  <2>5. \/ view' = view \/ \E d \in Conn : OnClose(d) \/ Drain(d)
    BY <1>1 DEF Next, vars, CheckBackpressure, OnOpen, OnMessage, TransportClosed,
       OnIdleTimeout, BackpressureAges, OnForeignMessage, OnMalformedMessage, OnUnknownType,
       OnClientError, HandleHello, HandlePlayerState, HandleChat, HandleLeave, HandlePing, Receive
  <2> QED BY <2>2, <2>3, <2>4, <2>5
<1> QED BY <1>1, InitMaps, StepKeepsMaps, InitVInv, StepKeepsVInv, PTL DEF Spec, StatesNeverRewind

-----------------------------------------------------------------------------
(* Rooms of two.  The queue has one place for a state, whoever it is of: a *)
(* third player's overwrites that of the second.  Where no room has a      *)
(* third, what is relayed is heard.                                        *)

\* The newest state of x that c will know when its queue has arrived.
Will(c, x) == LastTold(view[c].heard[x], Queued(c), x)

\* A peer that dropped no state, and another player of its room.
Together(c, d) == /\ Intact(c) /\ ~sess[c].dropped /\ Joined(d)
                  /\ c # d /\ sess[c].roomId = sess[d].roomId

\* What was relayed had been sent, and the room has it for the next welcome.
Relayed ==
  /\ \A d \in Conn : /\ sess[d].broadcast <= sess[d].version
                     /\ sess[d].sessionId = 0 => sess[d].broadcast = 0
  /\ \A d \in Conn : Joined(d) => \A m \in rooms[sess[d].roomId].members :
       m.sessionId = sess[d].sessionId => sess[d].broadcast <= m.lastState

\* The inductive invariant: a peer whose queue dropped nothing will know what the other
\* player of its room last relayed.
PairInv ==
  /\ Relayed
  /\ \A c, d \in Conn : Together(c, d) => sess[d].broadcast <= Will(c, sess[d].sessionId)

\* The messages that say nothing of where anybody is.
Positionless(m) == m.type \in {"error", "chat", "leave"}

\* A session that relayed nothing, and whose queue took no position.
Reticent(s, t) ==
  /\ t.broadcast = s.broadcast
  /\ s.dropped => t.dropped
  /\ \/ t.outbound = s.outbound \/ t.lost
     \/ \E m \in RelayMessage :
          Positionless(m) /\ t.outbound.messages = Append(s.outbound.messages, m)

\* A message without a position leaves what will be known.
LEMMA PositionlessTellsNothing ==
  ASSUME NEW q, NEW k, QueueFits(q, k), Shaped(q, k), NEW x, NEW h,
         NEW m \in RelayMessage, Positionless(m)
  PROVE  LastTold(h, Append(q, m), x) = LastTold(h, q, x)
<1> DEFINE r == Append(q, m)
           T == {i \in DOMAIN q : Tells(q[i], x)}
<1>1. /\ DOMAIN q = 1..Len(q) /\ DOMAIN r = 1..(Len(q) + 1) /\ Len(q) \in Nat
      /\ r[Len(q) + 1] = m /\ \A i \in DOMAIN q : r[i] = q[i]
  BY DEF QueueFits
<1>2. ~Tells(m, x) BY DEF Tells, Positionless
<1> HIDE DEF r
<1>3. {i \in DOMAIN r : Tells(r[i], x)} = T
  <2>1. \A i \in DOMAIN r : i \in DOMAIN q \/ r[i] = m BY <1>1
  <2>2. DOMAIN q \subseteq DOMAIN r BY <1>1
  <2> QED BY <1>1, <1>2, <2>1, <2>2
<1>4. ASSUME T = {} PROVE LastTold(h, r, x) = LastTold(h, q, x)
  BY <1>3, <1>4 DEF LastTold
<1>5. ASSUME T # {} PROVE LastTold(h, r, x) = LastTold(h, q, x)
  <2> DEFINE i == CHOOSE i \in T : \A j \in T : j <= i
  <2>1. \E l \in T : \A j \in T : j <= l BY <1>5, TellingEnds
  <2>2. i \in T BY <2>1
  <2>3. r[i] = q[i] BY <1>1, <2>2
  <2>4. LastTold(h, r, x) = Told(r[i], x) BY <1>3, <1>5 DEF LastTold
  <2>5. LastTold(h, q, x) = Told(q[i], x) BY <1>5 DEF LastTold
  <2> QED BY <2>3, <2>4, <2>5
<1> QED BY <1>4, <1>5 DEF r

\* What is pushed is what will be known.
LEMMA PushedIsTold ==
  ASSUME NEW q, NEW k, QueueFits(q, k), Shaped(q, k), NEW x, NEW h,
         NEW m \in RelayMessage, NEW isState \in BOOLEAN, Tells(m, x),
         NEW q2, NEW k2, PushedQueue(q, k, q2, k2, m, isState)
  PROVE  LastTold(h, q2, x) = Told(m, x)
<1> DEFINE T == {i \in DOMAIN q2 : Tells(q2[i], x)}
<1>n. DOMAIN q \subseteq Nat /\ DOMAIN q2 \subseteq Nat
  BY PushPlaces DEF QueueFits
<1>p. PICK p \in DOMAIN q2 :
        /\ q2[p] = m
        /\ \A i \in DOMAIN q2 : i # p => i \in DOMAIN q /\ q2[i] = q[i]
        /\ \/ \A i \in DOMAIN q2 : i <= p
           \/ p \in DOMAIN q /\ p = k
  BY PushPlaces
<1>1. p \in T BY <1>p
<1>2. \A j \in T : j <= p
  <2>1. CASE p \in DOMAIN q /\ p = k
    <3> SUFFICES ASSUME NEW j \in T, j # p PROVE j <= p BY <1>n, <1>1
    <3>1. j \in DOMAIN q /\ Tells(q[j], x) BY <1>p
    <3>2. q[p].type = "player_state" /\ q[j].type # "player_state"
      BY <2>1, <3>1 DEF Shaped
    <3>3. q[j].type = "welcome" BY <3>1, <3>2 DEF Tells
    <3>4. ~(p < j) BY <2>1, <3>1, <3>2, <3>3 DEF Shaped
    <3> QED BY <1>n, <3>1, <3>4
  <2> QED BY <1>p, <2>1
<1>3. \A i \in T : (\A j \in T : j <= i) => i = p
  BY <1>n, <1>1, <1>2
<1>4. p = CHOOSE i \in T : \A j \in T : j <= i BY <1>1, <1>2, <1>3
<1>5. LastTold(h, q2, x) = Told(q2[p], x) BY <1>1, <1>4 DEF LastTold
<1> QED BY <1>5, <1>p

\* Nothing queued, nothing new.
LEMMA NothingIsTold ==
  ASSUME NEW h, NEW x PROVE LastTold(h, << >>, x) = h
BY DEF LastTold

\* With two places a room has no third player.
LEMMA NoThird ==
  ASSUME MInv, MaxPlayers <= 2, NEW a \in Conn, NEW b \in Conn, NEW e \in Conn,
         Joined(a), Joined(b), Joined(e),
         sess[a].roomId = sess[b].roomId, sess[a].roomId = sess[e].roomId
  PROVE  a = b \/ a = e \/ b = e
<1> SUFFICES ASSUME a # b, a # e, b # e PROVE FALSE
  OBVIOUS
<1> DEFINE M == rooms[sess[a].roomId].members
<1>1. \A c \in {a, b, e} : /\ sess[a].roomId \in RoomIds /\ hdlBySessionId[sess[c].sessionId] = c
                           /\ \E m \in M : m.sessionId = sess[c].sessionId
  <2> SUFFICES ASSUME NEW c \in {a, b, e}
               PROVE  /\ sess[a].roomId \in RoomIds /\ hdlBySessionId[sess[c].sessionId] = c
                      /\ \E m \in M : m.sessionId = sess[c].sessionId
    OBVIOUS
  <2>1. c \in sessions /\ sess[c].sessionId # 0 /\ sess[c].roomId = sess[a].roomId
    BY DEF Joined
  <2> QED BY <2>1, MapsSay
<1>2. PICK m1 \in M, m2 \in M, m3 \in M :
        m1.sessionId = sess[a].sessionId /\ m2.sessionId = sess[b].sessionId
          /\ m3.sessionId = sess[e].sessionId
  BY <1>1
<1>3. m1 # m2 /\ m1 # m3 /\ m2 # m3 BY <1>1, <1>2
<1>4. IsFiniteSet(M) /\ Cardinality(M) <= MaxPlayers
  BY <1>1 DEF MInv, SInv, RInv, RoomCap
<1> HIDE DEF M
<1>5. /\ IsFiniteSet({m1, m2}) /\ Cardinality({m1, m2}) = 2
  <2>1. IsFiniteSet({m1}) /\ Cardinality({m1}) = 1 BY FS_Singleton
  <2>2. {m1, m2} = {m1} \union {m2} /\ m2 \notin {m1} BY <1>3
  <2>3. IsFiniteSet({m1} \union {m2}) /\ Cardinality({m1} \union {m2}) = 1 + 1
    BY <2>1, <2>2, FS_AddElement
  <2> QED BY <2>2, <2>3
<1>6. Cardinality({m1, m2} \union {m3}) = 3
  <2>1. m3 \notin {m1, m2} BY <1>3
  <2> QED BY <1>5, <2>1, FS_AddElement
<1>7. {m1, m2} \union {m3} \subseteq M BY <1>2
<1>8. Cardinality({m1, m2} \union {m3}) <= Cardinality(M) BY <1>4, <1>7, FS_Subset
<1>9. Cardinality(M) \in Nat /\ MaxPlayers \in Nat BY <1>4, FS_CardinalityType, RegistryAssumption
<1> QED BY <1>4, <1>6, <1>8, <1>9

-----------------------------------------------------------------------------
(* Sessions again. *)

\* enqueueTo with a message of no position.
LEMMA EnqueueIsReticent ==
  ASSUME NEW s \in Session, NEW m \in RelayMessage, Positionless(m)
  PROVE  Reticent(s, EnqueueTo(s, m, FALSE))
<1> DEFINE t == EnqueueTo(s, m, FALSE)
<1>1. CASE Full(s.outbound)
  <2>1. t.broadcast = s.broadcast /\ t.dropped = s.dropped /\ t.outbound = s.outbound
    BY <1>1 DEF EnqueueTo, Session
  <2> QED BY <2>1 DEF Reticent
<1>2. CASE ~Full(s.outbound)
  <2>1. /\ t.broadcast = s.broadcast /\ (s.dropped => t.dropped)
        /\ t.outbound = PushControl(s.outbound, m)
    BY <1>2 DEF EnqueueTo, Session
  <2>2. PushControl(s.outbound, m).messages = Append(s.outbound.messages, m)
    BY <1>2 DEF PushControl, Session, QueueType
  <2> QED BY <2>1, <2>2 DEF Reticent
<1> QED BY <1>1, <1>2

\* enqueueTo with a state: it is pushed, or dropped and marked so.
LEMMA StateIsPushed ==
  ASSUME NEW s \in Session, NEW m
  PROVE  LET t == EnqueueTo(s, m, TRUE)
         IN  /\ t.broadcast = s.broadcast /\ (s.dropped => t.dropped)
             /\ \/ t.dropped
                \/ PushedQueue(s.outbound.messages, s.outbound.stateIndex,
                               t.outbound.messages, t.outbound.stateIndex, m, TRUE)
<1> DEFINE q == PushState(s.outbound, m)
           t == EnqueueTo(s, m, TRUE)
<1>1. /\ t.broadcast = s.broadcast /\ t.outbound = q
      /\ t.dropped <=> s.dropped \/ StateDropped(s.outbound)
  BY DEF EnqueueTo, Session
<1>2. ~StateDropped(s.outbound) =>
        PushedQueue(s.outbound.messages, s.outbound.stateIndex, q.messages, q.stateIndex, m, TRUE)
  BY DEF PushState, PushedQueue, StateDropped, Session, QueueType
<1> HIDE DEF q, t
<1>3. \/ t.dropped
      \/ PushedQueue(s.outbound.messages, s.outbound.stateIndex,
                     t.outbound.messages, t.outbound.stateIndex, m, TRUE)
  BY <1>1, <1>2
<1> QED BY <1>1, <1>3 DEF t

\* The marks and counters of a handler relay nothing.
LEMMA MarksAreReticent ==
  ASSUME NEW s \in Session
  PROVE  /\ Reticent(s, s)
         /\ Reticent(s, [s EXCEPT !.unknownTypeReported = TRUE])
         /\ Reticent(s, [s EXCEPT !.helloUsed = TRUE])
         /\ Reticent(s, [s EXCEPT !.left = TRUE])
         /\ Reticent(s, [s EXCEPT !.backpressure = "old"])
         /\ \A k : /\ Reticent(s, [s EXCEPT !.consecutiveErrors = k])
                   /\ Reticent(s, [s EXCEPT !.chatHits = k])
         /\ \A v, k, l : Reticent(s, [s EXCEPT !.version = v, !.stateDrops = k, !.stateErrors = l])
BY DEF Reticent, Session

\* An answer after a mark.
LEMMA ErrorIsReticent ==
  ASSUME NEW s, NEW t \in Session, Unqueued(s, t), Reticent(s, t)
  PROVE  Reticent(s, SendError(t))
<1>1. ErrorMsg \in RelayMessage /\ Positionless(ErrorMsg)
  BY MessagesAreTyped DEF ErrorMsg, Positionless
<1>2. Reticent(t, SendError(t)) BY <1>1, EnqueueIsReticent DEF SendError
<1> QED BY <1>2 DEF Reticent, Unqueued

-----------------------------------------------------------------------------
(* Steps that relay no position. *)

\* The rooms keep what was relayed.
Remembers ==
  \A d \in Conn : Joined(d) => \A m \in rooms'[sess[d].roomId].members :
    m.sessionId = sess[d].sessionId =>
      m \in rooms[sess[d].roomId].members \/ sess'[d].broadcast <= m.lastState

\* What a session that took no position will know stays what it was.
LEMMA ReticentWill ==
  ASSUME MInv, VInv, NEW c \in Conn, NEW x, Reticent(sess[c], sess'[c]), ~sess'[c].lost,
         view'[c] = view[c]
  PROVE  LastTold(view'[c].heard[x], sess'[c].outbound.messages, x) = Will(c, x)
<1>1. QueueFits(Queued(c), Slot(c)) /\ Shaped(Queued(c), Slot(c))
  BY QueuesFit DEF MInv, VInv, PeerOK, Sound
<1>2. CASE sess'[c].outbound = sess[c].outbound BY <1>2 DEF Will, Queued
<1>3. ASSUME NEW m \in RelayMessage, Positionless(m),
             sess'[c].outbound.messages = Append(sess[c].outbound.messages, m)
      PROVE  LastTold(view'[c].heard[x], sess'[c].outbound.messages, x) = Will(c, x)
  BY <1>1, <1>3, PositionlessTellsNothing DEF Will, Queued
<1> QED BY <1>2, <1>3 DEF Reticent

\* A step in which no session relays.
LEMMA ReticentStep ==
  ASSUME MInv, VInv, PairInv, MInv', Quiet, view' = view, Remembers,
         \A d \in Conn : Grown(sess[d], sess'[d]) /\ Reticent(sess[d], sess'[d]),
         \A d \in Conn : ws'[d] = "open" => ws[d] = "open"
  PROVE  PairInv'
<1>s. \A d \in Conn : sess[d] \in Session /\ sess'[d] \in Session BY DEF MInv, SInv
<1>q. /\ sessions' = sessions
      /\ \A d \in Conn : sess'[d].sessionId = sess[d].sessionId /\ sess'[d].roomId = sess[d].roomId
  BY DEF Quiet, SamePlayer
<1>b. \A d \in Conn : sess'[d].broadcast = sess[d].broadcast BY DEF Reticent
<1>1. ASSUME NEW d \in Conn
      PROVE  /\ sess'[d].broadcast <= sess'[d].version
             /\ sess'[d].sessionId = 0 => sess'[d].broadcast = 0
  <2>1. sess[d].broadcast <= sess[d].version /\ sess[d].version <= sess'[d].version
    BY DEF PairInv, Relayed, Grown
  <2>2. sess[d].broadcast \in Nat /\ sess[d].version \in Nat /\ sess'[d].version \in Nat
    BY <1>s DEF Session, Version
  <2> QED BY <1>b, <1>q, <2>1, <2>2 DEF PairInv, Relayed
<1>2. ASSUME NEW d \in Conn, Joined(d)', NEW m \in rooms'[sess'[d].roomId].members,
             m.sessionId = sess'[d].sessionId
      PROVE  sess'[d].broadcast <= m.lastState
  <2>1. Joined(d) BY <1>2, <1>q DEF Joined
  <2> QED BY <1>2, <1>b, <1>q, <2>1 DEF Remembers, PairInv, Relayed
<1>3. ASSUME NEW c \in Conn, NEW d \in Conn, Together(c, d)'
      PROVE  sess'[d].broadcast <= Will(c, sess[d].sessionId)'
  <2>1. /\ c \in sessions /\ sess[c].sessionId # 0 /\ ws[c] = "open" /\ ~sess'[c].lost
        /\ ~sess[c].lost /\ ~sess[c].dropped /\ Joined(d) /\ c # d
        /\ sess[c].roomId = sess[d].roomId
    BY <1>3, <1>q DEF Together, Intact, Joined, Grown, Reticent
  <2>2. Together(c, d) BY <2>1 DEF Together, Intact, Joined
  <2>3. Will(c, sess[d].sessionId)' = Will(c, sess[d].sessionId)
    <3>1. LastTold(view'[c].heard[sess[d].sessionId], sess'[c].outbound.messages, sess[d].sessionId)
            = Will(c, sess[d].sessionId)
      BY <2>1, ReticentWill
    <3> QED BY <1>q, <3>1 DEF Will, Queued
  <2> QED BY <1>b, <2>2, <2>3 DEF PairInv
<1> QED BY <1>1, <1>2, <1>3, <1>q DEF PairInv, Relayed

\* A handler that marks its own session, with or without an error.
LEMMA OwnPair ==
  ASSUME MInv, VInv, PairInv, MInv', Quiet, view' = view, Remembers, NEW c \in Conn,
         CloseConnection(c) \/ UNCHANGED ws,
         NEW t \in Session, Unqueued(sess[c], t), Reticent(sess[c], t),
         sess' = [sess EXCEPT ![c] = t] \/ sess' = [sess EXCEPT ![c] = SendError(t)]
  PROVE  PairInv'
<1>s. sess \in [Conn -> Session] /\ SInv BY DEF MInv, SInv
<1>1. ASSUME NEW d \in Conn PROVE Grown(sess[d], sess'[d]) /\ Reticent(sess[d], sess'[d])
  <2>1. CASE d # c \/ sess' = [sess EXCEPT ![c] = t]
    <3>1. sess'[d] = sess[d] \/ (d = c /\ sess'[d] = t) BY <1>s, <2>1
    <3>2. sess[d] \in Session BY <1>s
    <3> QED BY <3>1, <3>2, MarksQueueNothing, MarksAreReticent DEF Unqueued
  <2>2. CASE d = c /\ sess' = [sess EXCEPT ![c] = SendError(t)]
    <3>1. Grown(t, SendError(t)) BY EnqueueSends DEF SendError
    <3>2. sess'[d] = SendError(t) BY <1>s, <2>2
    <3>3. sess[c].version \in Nat /\ t.version \in Nat /\ sess'[c].version \in Nat
      BY <1>s DEF Session, Version, MInv, SInv
    <3>4. Grown(sess[d], SendError(t)) BY <2>2, <3>1, <3>2, <3>3 DEF Grown, Unqueued
    <3> QED BY <2>2, <3>2, <3>4, ErrorIsReticent
  <2> QED BY <2>1, <2>2
<1> QED BY <1>1, <1>s, CloseOnlyEnds, ReticentStep

\* A player tells its room something other than where it is.
LEMMA TalkPair ==
  ASSUME MInv, VInv, PairInv, MInv', Quiet, view' = view, Remembers, NEW c \in sessions,
         sess[c].sessionId # 0, CloseConnection(c) \/ UNCHANGED ws,
         NEW t \in Session, Unqueued(sess[c], t), Reticent(sess[c], t),
         NEW m \in RelayMessage, Positionless(m),
         sess' = BroadcastToRoom([sess EXCEPT ![c] = t], sess[c].roomId,
                                 sess[c].sessionId, m, FALSE)
  PROVE  PairInv'
<1> DEFINE R == Recipients(sess[c].roomId, sess[c].sessionId)
<1>s. sess \in [Conn -> Session] /\ SInv /\ c \in Conn BY MapsSay DEF MInv, SInv
<1>r. c \notin R BY RecipientsAreRoom
<1>1. ASSUME NEW d \in Conn PROVE Grown(sess[d], sess'[d]) /\ Reticent(sess[d], sess'[d])
  <2>0. sess[d] \in Session BY <1>s
  <2>1. CASE d \in R
    <3>1. sess'[d] = EnqueueTo(sess[d], m, FALSE)
      BY <1>r, <1>s, <2>1 DEF BroadcastToRoom
    <3> QED BY <2>0, <3>1, EnqueueSends, EnqueueIsReticent
  <2>2. CASE d \notin R
    <3>1. sess'[d] = IF d = c THEN t ELSE sess[d] BY <1>s, <2>2 DEF BroadcastToRoom
    <3> QED BY <2>0, <3>1, MarksQueueNothing, MarksAreReticent DEF Unqueued
  <2> QED BY <2>1, <2>2
<1> QED BY <1>1, <1>s, CloseOnlyEnds, ReticentStep

\* Untouched rooms remember.
LEMMA SameRoomsRemember == UNCHANGED rooms => Remembers
BY DEF Remembers

\* An answer or a refusal.
LEMMA AnswerPair ==
  ASSUME MInv, VInv, PairInv, MInv', sessions' = sessions, view' = view, NEW c \in Conn,
         ReplyError(c) \/ SendErrorAndClose(c)
  PROVE  PairInv'
<1>s. /\ sess \in [Conn -> Session] /\ sess[c] \in Session /\ SInv
      /\ [sess EXCEPT ![c] = sess[c]] = sess
  BY DEF MInv, SInv
<1>1. Quiet /\ Remembers /\ (CloseConnection(c) \/ UNCHANGED ws)
  BY <1>s, AnswerIsQuiet, SameRoomsRemember DEF ReplyError, SendErrorAndClose
<1>2. sess' = [sess EXCEPT ![c] = sess[c]] \/ sess' = [sess EXCEPT ![c] = SendError(sess[c])]
  BY <1>s DEF ReplyError, SendErrorAndClose
<1>3. Unqueued(sess[c], sess[c]) /\ Reticent(sess[c], sess[c])
  BY <1>s, MarksQueueNothing, MarksAreReticent
<1> QED BY <1>s, <1>1, <1>2, <1>3, OwnPair

\* Malformed and unknown messages.
LEMMA BadMessagePair ==
  ASSUME MInv, VInv, PairInv, MInv', NEW c \in Conn, OnMalformedMessage(c) \/ OnUnknownType(c)
  PROVE  PairInv'
<1>s. sess[c] \in Session /\ SInv BY DEF MInv, SInv
<1>1. Quiet /\ Remembers /\ view' = view
  BY <1>s, BadMessageIsQuiet, SameRoomsRemember, MessageLeaves DEF OnMalformedMessage, OnUnknownType
<1>2. CASE OnMalformedMessage(c)
  <2> DEFINE t == [sess[c] EXCEPT !.consecutiveErrors = @ + 1]
  <2>1. sess[c].consecutiveErrors + 1 \in Nat BY <1>s DEF Session
  <2>2. t \in Session BY <1>s, <2>1 DEF Session
  <2>3. Unqueued(sess[c], t) /\ Reticent(sess[c], t)
    BY <1>s, MarksQueueNothing, MarksAreReticent
  <2>4. /\ sess' = [sess EXCEPT ![c] = SendError(t)]
        /\ CloseConnection(c) \/ UNCHANGED ws
    BY <1>2 DEF OnMalformedMessage, CloseIf
  <2> HIDE DEF t
  <2> QED BY <1>1, <2>2, <2>3, <2>4, OwnPair
<1>3. CASE OnUnknownType(c)
  <2> DEFINE t == [sess[c] EXCEPT !.unknownTypeReported = TRUE]
  <2>1. t \in Session BY <1>s DEF Session
  <2>2. /\ Unqueued(sess[c], t) /\ Reticent(sess[c], t)
        /\ Unqueued(sess[c], sess[c]) /\ Reticent(sess[c], sess[c])
    BY <1>s, MarksQueueNothing, MarksAreReticent
  <2>3. (sess' = sess \/ sess' = [sess EXCEPT ![c] = SendError(t)]) /\ UNCHANGED ws
    BY <1>3 DEF OnUnknownType
  <2>4. [sess EXCEPT ![c] = sess[c]] = sess BY DEF MInv, SInv
  <2> HIDE DEF t
  <2>5. CASE sess' = sess
    BY <1>1, <1>s, <2>2, <2>3, <2>4, <2>5, OwnPair
  <2> QED BY <1>1, <2>1, <2>2, <2>3, <2>5, OwnPair
<1> QED BY <1>2, <1>3

\* A chat is relayed or counted.
LEMMA ChatPair ==
  ASSUME MInv, VInv, PairInv, MInv', NEW c \in Conn, HandleChat(c)
  PROVE  PairInv'
<1>s. sess \in [Conn -> Session] /\ sess[c] \in Session /\ SInv BY DEF MInv, SInv
<1>r. /\ sessions' = sessions /\ c \in sessions /\ view' = view /\ Quiet
  BY <1>s, ReceiveLeaves, MessageLeaves, ChatIsQuiet DEF HandleChat
<1>1. CASE ReplyError(c)
  BY <1>1, <1>r, AnswerPair
<1>2. CASE LimitChat(c) /\ UNCHANGED <<rooms, nextSessionId, hdlBySessionId>>
  <2> DEFINE t == [sess[c] EXCEPT !.chatHits = @ + 1]
  <2>1. sess[c].chatHits + 1 \in Nat BY <1>s DEF Session
  <2>2. t \in Session BY <1>s, <2>1 DEF Session
  <2>3. Unqueued(sess[c], t) /\ Reticent(sess[c], t)
    BY <1>s, MarksQueueNothing, MarksAreReticent
  <2>4. /\ sess' = [sess EXCEPT ![c] = SendError(t)]
        /\ CloseConnection(c) \/ UNCHANGED ws
    BY <1>2 DEF LimitChat, CloseIf
  <2> HIDE DEF t
  <2> QED BY <1>2, <1>r, <2>2, <2>3, <2>4, SameRoomsRemember, OwnPair
<1>3. CASE /\ sess[c].helloDone /\ RelayChat(c)
           /\ UNCHANGED <<rooms, nextSessionId, hdlBySessionId>>
  <2> DEFINE m == ChatMsg(sess[c].sessionId)
  <2>1. sess[c].sessionId # 0 /\ sess[c].sessionId \in SessionId
    BY <1>3, <1>s, HelloHasId DEF SessionId
  <2>2. m \in RelayMessage /\ Positionless(m)
    BY <2>1, MessagesAreTyped DEF ChatMsg, Positionless
  <2>3. [sess EXCEPT ![c] = sess[c]] = sess BY <1>s
  <2>4. /\ sess' = BroadcastToRoom([sess EXCEPT ![c] = sess[c]], sess[c].roomId,
                                   sess[c].sessionId, m, FALSE)
        /\ UNCHANGED ws
    BY <1>3, <2>3 DEF RelayChat
  <2>5. Unqueued(sess[c], sess[c]) /\ Reticent(sess[c], sess[c])
    BY <1>s, MarksQueueNothing, MarksAreReticent
  <2> HIDE DEF m
  <2> QED BY <1>3, <1>r, <1>s, <2>1, <2>2, <2>4, <2>5, SameRoomsRemember, TalkPair
<1> QED BY <1>1, <1>2, <1>3 DEF HandleChat

\* A leave is announced.
LEMMA LeavePair ==
  ASSUME MInv, VInv, PairInv, MInv', NEW c \in Conn, HandleLeave(c)
  PROVE  PairInv'
<1> DEFINE t == [sess[c] EXCEPT !.left = TRUE]
           m == LeaveMsg(sess[c].sessionId)
<1>s. sess \in [Conn -> Session] /\ sess[c] \in Session /\ SInv BY DEF MInv, SInv
<1>r. /\ sessions' = sessions /\ c \in sessions /\ view' = view /\ Quiet
  BY <1>s, ReceiveLeaves, MessageLeaves, LeaveIsQuiet DEF HandleLeave
<1>1. CASE SendErrorAndClose(c)
  BY <1>1, <1>r, AnswerPair
<1>2. CASE /\ sess[c].helloDone
           /\ sess' = BroadcastLeave([sess EXCEPT ![c].left = TRUE], c)
           /\ CloseConnection(c)
           /\ UNCHANGED <<rooms, nextSessionId, hdlBySessionId>>
  <2>1. sess[c].sessionId # 0 /\ sess[c].sessionId \in SessionId
    BY <1>2, <1>s, HelloHasId DEF SessionId
  <2>2. m \in RelayMessage /\ Positionless(m)
    BY <2>1, MessagesAreTyped DEF LeaveMsg, Positionless
  <2>3. sess' = BroadcastToRoom([sess EXCEPT ![c] = t], sess[c].roomId,
                                sess[c].sessionId, m, FALSE)
    BY <1>2 DEF BroadcastLeave
  <2>4. t \in Session BY <1>s DEF Session
  <2>5. Unqueued(sess[c], t) /\ Reticent(sess[c], t)
    BY <1>s, MarksQueueNothing, MarksAreReticent
  <2> HIDE DEF t, m
  <2> QED BY <1>2, <1>r, <2>1, <2>2, <2>3, <2>4, <2>5, SameRoomsRemember, TalkPair
<1> QED BY <1>1, <1>2 DEF HandleLeave

\* A refused hello.
LEMMA RefusedHelloPair ==
  ASSUME MInv, VInv, PairInv, MInv', sessions' = sessions, view' = view, NEW c \in Conn,
         NEW n \in Names, NEW r \in RoomIds, NEW p \in OptProject, Greet(c, n, r, p),
         nextSessionId' = nextSessionId
  PROVE  PairInv'
<1> DEFINE t == [sess[c] EXCEPT !.helloUsed = TRUE]
<1>s. sess[c] \in Session /\ SInv BY DEF MInv, SInv
<1>1. CloseConnection(c) /\ sess' = [sess EXCEPT ![c] = t] BY DEF Greet
<1>2. t \in Session BY <1>s DEF Session
<1>3. Unqueued(sess[c], t) /\ Reticent(sess[c], t)
  BY <1>s, MarksQueueNothing, MarksAreReticent
<1> HIDE DEF t
<1>4. Remembers
  <2>1. RegistryTypeOK /\ nextSessionId \in Nat BY <1>s DEF SInv, RInv, RegistryTypeOK
  <2>2. nextSessionId + 1 # nextSessionId BY <2>1
  <2>3. \A q \in RoomIds : rooms'[q].members = rooms[q].members
    BY <2>1, <2>2, AdmitEffect DEF Greet
  <2> QED BY <2>3, MapsSay DEF Remembers, Joined
<1>5. Quiet BY <1>s, RefusedHelloIsQuiet
<1> QED BY <1>1, <1>2, <1>3, <1>4, <1>5, OwnPair

\* A step of connections alone.
LEMMA ConnStepPair ==
  ASSUME MInv, VInv, PairInv, MInv', Quiet, view' = view, rooms' = rooms, sess' = sess,
         \A d \in Conn : ws'[d] = "open" => ws[d] = "open"
  PROVE  PairInv'
<1>1. \A d \in Conn : Grown(sess[d], sess'[d]) /\ Reticent(sess[d], sess'[d])
  BY MarksQueueNothing, MarksAreReticent DEF Unqueued, MInv, SInv
<1> QED BY <1>1, SameRoomsRemember, ReticentStep

\* Timers.
LEMMA TimersPair ==
  ASSUME MInv, VInv, PairInv, MInv', NEW c \in Conn,
         OnIdleTimeout(c) \/ TransportClosed(c) \/ BackpressureAges(c)
  PROVE  PairInv'
<1>s. sess[c] \in Session /\ SInv /\ ws \in [Conn -> WsState] BY DEF MInv, SInv
<1>q. Quiet BY <1>s, PostedIsQuiet
<1>1. CASE OnIdleTimeout(c)
  BY <1>1, <1>q, <1>s, CloseOnlyEnds, ConnStepPair DEF OnIdleTimeout
<1>2. CASE TransportClosed(c)
  BY <1>2, <1>q, <1>s, ConnStepPair DEF TransportClosed
<1>3. CASE BackpressureAges(c)
  <2> DEFINE t == [sess[c] EXCEPT !.backpressure = "old"]
  <2>1. sess' = [sess EXCEPT ![c] = t] BY <1>3, <1>s DEF BackpressureAges, Session, MInv, SInv
  <2>2. t \in Session BY <1>s DEF Session
  <2>3. Unqueued(sess[c], t) /\ Reticent(sess[c], t)
    BY <1>s, MarksQueueNothing, MarksAreReticent
  <2> HIDE DEF t
  <2> QED BY <1>3, <1>q, <2>1, <2>2, <2>3, SameRoomsRemember, OwnPair DEF BackpressureAges
<1> QED BY <1>1, <1>2, <1>3

-----------------------------------------------------------------------------
(* Steps that concern positions. *)

\* What a stored state leaves of the rooms.
LEMMA RecordSays ==
  ASSUME MInv, NEW c \in sessions, sess[c].sessionId # 0, NEW v \in 1..MaxVersion,
         RecordState(sess[c].roomId, sess[c].sessionId, v),
         NEW d \in Conn, Joined(d), NEW m \in rooms'[sess[d].roomId].members,
         m.sessionId = sess[d].sessionId
  PROVE  IF d = c THEN m.lastState = v ELSE m \in rooms[sess[d].roomId].members
<1> DEFINE r == sess[c].roomId  x == sess[c].sessionId
           Touched(k) == IF k.sessionId = x THEN [k EXCEPT !.lastState = v] ELSE k
<1>1. r \in RoomIds /\ x \in SessionId /\ hdlBySessionId[x] = c BY MapsSay
<1>2. /\ sess[d].roomId \in RoomIds /\ hdlBySessionId[sess[d].sessionId] = d
  BY MapsSay DEF Joined
<1>3. /\ \A q \in RoomIds \ {r} : rooms'[q] = rooms[q]
      /\ rooms'[r].members = {Touched(k) : k \in rooms[r].members}
  BY <1>1, RecordEffect DEF MInv, SInv, RInv
<1>4. CASE sess[d].roomId # r BY <1>2, <1>3, <1>4
<1>5. CASE sess[d].roomId = r
  <2>1. PICK k \in rooms[r].members : m = Touched(k) BY <1>3, <1>5
  <2>2. k \in Member BY <1>1, MapsSay
  <2>3. m.sessionId = k.sessionId /\ (k.sessionId = x => m.lastState = v)
    BY <2>1, <2>2 DEF Member
  <2>4. d = c <=> k.sessionId = x BY <1>1, <1>2, <2>3
  <2> QED BY <1>5, <2>1, <2>3, <2>4
<1> QED BY <1>4, <1>5

\* A state is stored and relayed: whoever is there and drops nothing will know it.
LEMMA RelayPair ==
  ASSUME MInv, VInv, PairInv, MInv', MaxPlayers <= 2, NEW c \in sessions, Quiet, view' = view,
         sess[c].sessionId # 0, UNCHANGED ws, NEW v \in Version, v = sess[c].version + 1,
         v \in 1..MaxVersion, RecordState(sess[c].roomId, sess[c].sessionId, v),
         RelayState(c)
  PROVE  PairInv'
<1> DEFINE t == [sess[c] EXCEPT !.version = v, !.broadcast = v]
           x == sess[c].sessionId
           m == StateMsg(x, v)
           R == Recipients(sess[c].roomId, x)
<1>s. /\ sess \in [Conn -> Session] /\ sess' \in [Conn -> Session] /\ SInv /\ c \in Conn
      /\ sess[c] \in Session /\ sessions \subseteq Conn
  BY MapsSay DEF MInv, SInv
<1>q. /\ sessions' = sessions
      /\ \A d \in Conn : sess'[d].sessionId = sess[d].sessionId /\ sess'[d].roomId = sess[d].roomId
  BY DEF Quiet, SamePlayer
<1>x. x \in SessionId BY MapsSay
<1>m. /\ m \in RelayMessage /\ Tells(m, x) /\ Told(m, x) = v
  BY <1>x, MessagesAreTyped DEF StateMsg, Tells, Told
<1>r. /\ c \notin R
      /\ \A d \in sessions : sess[d].sessionId # 0 /\ sess[d].roomId = sess[c].roomId /\ d # c =>
           d \in R
  BY RecipientsAreRoom
<1>1. sess' = BroadcastToRoom([sess EXCEPT ![c] = t], sess[c].roomId, x, m, TRUE)
  <2>1. [sess EXCEPT ![c].version = v, ![c].broadcast = v] = [sess EXCEPT ![c] = t]
    BY <1>s DEF Session
  <2> QED BY <2>1 DEF RelayState
<1>2. t.version = v /\ t.broadcast = v /\ t.outbound = sess[c].outbound /\ t.dropped = sess[c].dropped
  BY <1>s DEF Session
<1> HIDE DEF t, m
<1>3. sess'[c] = t BY <1>1, <1>r, <1>s DEF BroadcastToRoom
<1>4. ASSUME NEW d \in R
      PROVE  /\ sess'[d].broadcast = sess[d].broadcast /\ Grown(sess[d], sess'[d])
             /\ sess[d].dropped => sess'[d].dropped
             /\ \/ sess'[d].dropped
                \/ PushedQueue(Queued(d), Slot(d), Queued(d)', Slot(d)', m, TRUE)
  <2>1. d \in Conn /\ sess'[d] = EnqueueTo(sess[d], m, TRUE)
    BY <1>1, <1>r, <1>s, <1>4 DEF BroadcastToRoom, Recipients
  <2> DEFINE u == EnqueueTo(sess[d], m, TRUE)
  <2>2. sess[d] \in Session BY <1>s, <2>1
  <2>3. /\ u.broadcast = sess[d].broadcast /\ (sess[d].dropped => u.dropped)
        /\ \/ u.dropped
           \/ PushedQueue(sess[d].outbound.messages, sess[d].outbound.stateIndex,
                          u.outbound.messages, u.outbound.stateIndex, m, TRUE)
    BY <2>2, StateIsPushed
  <2>4. Grown(sess[d], u) BY <2>2, EnqueueSends
  <2> HIDE DEF u
  <2>5. sess'[d] = u BY <2>1 DEF u
  <2> QED BY <2>3, <2>4, <2>5 DEF Queued, Slot
<1>5. \A d \in Conn : d \notin R /\ d # c => sess'[d] = sess[d]
  BY <1>1, <1>s DEF BroadcastToRoom
<1>6. ASSUME NEW d \in Conn, d # c
      PROVE  /\ sess'[d].broadcast = sess[d].broadcast
             /\ sess[d].version <= sess'[d].version
             /\ sess[d].dropped => sess'[d].dropped
  <2>1. sess[d].version \in Nat /\ sess[d].version <= sess[d].version
    BY <1>s DEF Session, Version
  <2> QED BY <1>4, <1>5, <1>6, <2>1 DEF Grown
<1>7. ASSUME NEW d \in Conn
      PROVE  /\ sess'[d].broadcast <= sess'[d].version
             /\ sess'[d].sessionId = 0 => sess'[d].broadcast = 0
  <2>1. CASE d = c BY <1>2, <1>3, <1>q, <2>1
  <2>2. CASE d # c
    <3>1. sess[d].broadcast <= sess[d].version BY DEF PairInv, Relayed
    <3>2. sess[d].broadcast \in Nat /\ sess[d].version \in Nat /\ sess'[d].version \in Nat
      BY <1>s DEF Session, Version
    <3> QED BY <1>6, <1>q, <2>2, <3>1, <3>2 DEF PairInv, Relayed
  <2> QED BY <2>1, <2>2
<1>8. ASSUME NEW d \in Conn, Joined(d)', NEW k \in rooms'[sess'[d].roomId].members,
             k.sessionId = sess'[d].sessionId
      PROVE  sess'[d].broadcast <= k.lastState
  <2>1. Joined(d) BY <1>8, <1>q DEF Joined
  <2>2. IF d = c THEN k.lastState = v ELSE k \in rooms[sess[d].roomId].members
    BY <1>8, <1>q, <2>1, RecordSays
  <2> QED BY <1>2, <1>3, <1>6, <1>8, <1>q, <2>1, <2>2 DEF PairInv, Relayed
<1>9. ASSUME NEW a \in Conn, NEW b \in Conn, Together(a, b)'
      PROVE  sess'[b].broadcast <= Will(a, sess[b].sessionId)'
  <2>1. /\ a \in sessions /\ sess[a].sessionId # 0 /\ ws[a] = "open" /\ a # b
        /\ ~sess'[a].lost /\ ~sess'[a].dropped /\ Joined(b) /\ Joined(a)
        /\ sess[a].roomId = sess[b].roomId
    BY <1>9, <1>q DEF Together, Intact, Joined
  <2>2. CASE a \notin R
    <3>1. /\ sess'[a].outbound = sess[a].outbound /\ sess'[a].dropped = sess[a].dropped
          /\ sess'[a].lost = sess[a].lost
      <4>1. t.lost = sess[c].lost BY <1>s DEF t, Session
      <4> QED BY <1>2, <1>3, <1>5, <2>2, <4>1
    <3>2. Together(a, b) BY <2>1, <3>1 DEF Together, Intact
    <3>3. b # c BY <1>r, <2>1, <2>2
    <3>4. Will(a, sess[b].sessionId)' = Will(a, sess[b].sessionId)
      BY <1>q, <3>1 DEF Will, Queued
    <3> QED BY <1>6, <3>2, <3>3, <3>4 DEF PairInv
  <2>3. CASE a \in R
    <3>1. a # c /\ sess[a].roomId = sess[c].roomId /\ Joined(c)
      BY <2>3, RecipientsAreRoom DEF Joined
    <3>2. b = c BY <1>s, <2>1, <3>1, NoThird
    <3>3. PushedQueue(Queued(a), Slot(a), Queued(a)', Slot(a)', m, TRUE)
      BY <1>4, <2>1, <2>3
    <3>4. QueueFits(Queued(a), Slot(a)) /\ Shaped(Queued(a), Slot(a))
      BY <1>s, QueuesFit DEF VInv, PeerOK, Sound
    <3>5. LastTold(view[a].heard[x], Queued(a)', x) = v
      <4> DEFINE q == Queued(a)  k == Slot(a)  q2 == Queued(a)'  k2 == Slot(a)'
                 h == view[a].heard[x]  isState == TRUE
      <4>1. /\ QueueFits(q, k) /\ Shaped(q, k) /\ PushedQueue(q, k, q2, k2, m, isState)
            /\ isState \in BOOLEAN /\ m \in RelayMessage /\ Tells(m, x) /\ Told(m, x) = v
        BY <1>m, <3>3, <3>4
      <4> HIDE DEF q, k, q2, k2, h, x, isState
      <4>2. LastTold(h, q2, x) = Told(m, x) BY <4>1, PushedIsTold
      <4> QED BY <4>1, <4>2 DEF h, q2
    <3>6. Will(a, sess[b].sessionId)' = v BY <1>q, <3>2, <3>5 DEF Will
    <3> QED BY <1>2, <1>3, <3>2, <3>6
  <2> QED BY <2>2, <2>3
<1> QED BY <1>7, <1>8, <1>9, <1>q DEF PairInv, Relayed

\* A state is stored, and relayed or counted.
LEMMA StatePair ==
  ASSUME MInv, VInv, PairInv, MInv', MaxPlayers <= 2, NEW c \in Conn, HandlePlayerState(c)
  PROVE  PairInv'
<1>s. sess \in [Conn -> Session] /\ sess[c] \in Session /\ SInv BY DEF MInv, SInv
<1>r. /\ sessions' = sessions /\ c \in sessions /\ view' = view /\ Quiet
  BY <1>s, ReceiveLeaves, MessageLeaves, StateIsQuiet DEF HandlePlayerState
<1>1. CASE ReplyError(c)
  BY <1>1, <1>r, AnswerPair
<1>2. CASE /\ sess[c].helloDone
           /\ sess[c].version < MaxVersion
           /\ RecordState(sess[c].roomId, sess[c].sessionId, sess[c].version + 1)
           /\ LimitState(c) \/ RelayState(c)
  <2> DEFINE v == sess[c].version + 1
  <2>1. v \in Version /\ v \in 1..MaxVersion /\ sess[c].version <= v
    BY <1>s, <1>2, RegistryAssumption DEF Session, Version
  <2>2. sess[c].sessionId # 0
    BY <1>2, <1>s, HelloHasId DEF SessionId
  <2>3. CASE LimitState(c)
    <3> DEFINE full == sess[c].stateDrops + 1 >= StateDropsPerError
               drops == IF full THEN 0 ELSE sess[c].stateDrops + 1
               errors == IF full THEN sess[c].stateErrors + 1 ELSE sess[c].stateErrors
               t == [sess[c] EXCEPT !.version = v, !.stateDrops = drops,
                                    !.stateErrors = errors]
    <3>1. drops \in Nat /\ errors \in Nat BY <1>s DEF Session
    <3>2. /\ sess' = [sess EXCEPT ![c] = IF full THEN SendError(t) ELSE t]
          /\ CloseConnection(c) \/ UNCHANGED ws
      BY <2>3 DEF LimitState, CloseIf
    <3> HIDE DEF full, drops, errors, v
    <3>3. t \in Session /\ t.broadcast = sess[c].broadcast
      BY <1>s, <2>1, <3>1 DEF Session
    <3>4. Unqueued(sess[c], t) /\ Reticent(sess[c], t)
      BY <1>s, <2>1, MarksQueueNothing, MarksAreReticent
    <3> HIDE DEF t
    <3>5. ErrorMsg \in RelayMessage /\ Positionless(ErrorMsg)
      BY MessagesAreTyped DEF ErrorMsg, Positionless
    <3>6. SendError(t).broadcast = t.broadcast
      BY <3>3, <3>5, EnqueueIsReticent DEF SendError, Reticent
    <3>7. \A d \in Conn : sess'[d].broadcast = sess[d].broadcast
      BY <1>s, <3>2, <3>3, <3>6
    <3>8. sess[c].broadcast <= v
      <4>1. sess[c].broadcast <= sess[c].version BY DEF PairInv, Relayed
      <4>2. sess[c].broadcast \in Nat /\ sess[c].version \in Nat BY <1>s DEF Session, Version
      <4> QED BY <4>1, <4>2 DEF v
    <3>9. Remembers
      <4> SUFFICES ASSUME NEW d \in Conn, Joined(d), NEW m \in rooms'[sess[d].roomId].members,
                          m.sessionId = sess[d].sessionId
                   PROVE  m \in rooms[sess[d].roomId].members \/ sess'[d].broadcast <= m.lastState
        BY DEF Remembers
      <4>1. IF d = c THEN m.lastState = v ELSE m \in rooms[sess[d].roomId].members
        BY <1>2, <1>r, <2>1, <2>2, RecordSays DEF v
      <4> QED BY <3>7, <3>8, <4>1
    <3> QED BY <1>r, <3>2, <3>3, <3>4, <3>9, OwnPair
  <2>4. CASE RelayState(c)
    <3>1. UNCHANGED ws BY <2>4 DEF RelayState
    <3> HIDE DEF v
    <3> QED BY <1>2, <1>r, <2>1, <2>2, <2>4, <3>1, RelayPair DEF v
  <2> QED BY <1>2, <2>3, <2>4
<1> QED BY <1>1, <1>2 DEF HandlePlayerState

\* A drain: what would be known is known.
LEMMA DrainPair ==
  ASSUME MInv, VInv, PairInv, MInv', NEW c \in Conn, Drain(c)
  PROVE  PairInv'
<1> DEFINE q == Unsent(c)
           b == IF q.messages = << >> THEN "none" ELSE sess[c].backpressure
           t == [sess[c] EXCEPT !.drainPending = FALSE, !.outbound = q, !.backpressure = b]
           Known(a, x) == LastTold(view'[a].heard[x], Queued(a)', x)
<1>s. /\ sess \in [Conn -> Session] /\ sess[c] \in Session /\ SInv
      /\ view \in [Conn -> ViewType]
  BY DEF MInv, SInv, VInv
<1>q. /\ sessions' = sessions /\ ws' = ws /\ rooms' = rooms
      /\ \A d \in Conn : sess'[d].sessionId = sess[d].sessionId /\ sess'[d].roomId = sess[d].roomId
  BY <1>s, PostedIsQuiet DEF Drain, Quiet, SamePlayer
<1>1. sess' = [sess EXCEPT ![c] = t] BY <1>s DEF Drain, Session
<1>2. /\ t.outbound = q /\ t.lost = sess[c].lost /\ t.dropped = sess[c].dropped
      /\ t.version = sess[c].version /\ t.broadcast = sess[c].broadcast
  BY <1>s DEF Session
<1> HIDE DEF t
<1>3. \A d \in Conn : /\ sess'[d].lost = sess[d].lost /\ sess'[d].dropped = sess[d].dropped
                      /\ sess'[d].version = sess[d].version
                      /\ sess'[d].broadcast = sess[d].broadcast
                      /\ sess'[d].outbound = IF d = c THEN q ELSE sess[d].outbound
  BY <1>1, <1>2, <1>s
<1>4. ASSUME NEW a \in Conn, NEW x \in SessionId, ws[a] = "open"
      PROVE  Known(a, x) = Will(a, x)
  <2>1. CASE a # c
    <3>1. view'[a] = view[a] BY <1>s, <2>1 DEF Drain
    <3> QED BY <1>3, <2>1, <3>1 DEF Will, Queued
  <2>2. CASE a = c
    <3>1. q = EmptyQueue /\ EmptyQueue.messages = << >> BY <1>4, <2>2 DEF Unsent, EmptyQueue
    <3>2. view'[a] = Delivered(view[a], Queued(a)) BY <1>4, <1>s, <2>2 DEF Drain, Queued
    <3>3. view'[a].heard[x] = LastTold(view[a].heard[x], Queued(a), x)
      BY <3>2 DEF Delivered
    <3> HIDE DEF q
    <3>4. Queued(a)' = << >> BY <1>3, <2>2, <3>1 DEF Queued
    <3> QED BY <3>3, <3>4, NothingIsTold DEF Will
  <2> QED BY <2>1, <2>2
<1>5. Relayed' BY <1>3, <1>q DEF PairInv, Relayed, Joined
<1>6. ASSUME NEW a \in Conn, NEW d \in Conn, Together(a, d)'
      PROVE  sess'[d].broadcast <= Will(a, sess[d].sessionId)'
  <2>1. Together(a, d) /\ ws[a] = "open" BY <1>3, <1>6, <1>q DEF Together, Intact, Joined
  <2>2. sess[d].sessionId \in SessionId BY <2>1, MapsSay DEF Together, Joined
  <2>3. Known(a, sess[d].sessionId) = Will(a, sess[d].sessionId) BY <1>4, <2>1, <2>2
  <2>4. Will(a, sess[d].sessionId)' = Known(a, sess[d].sessionId) BY <1>q DEF Will
  <2> QED BY <1>3, <2>1, <2>3, <2>4 DEF PairInv
<1> QED BY <1>5, <1>6, <1>q DEF PairInv

\* A connection opens: it is no player yet.
LEMMA OpenPair ==
  ASSUME MInv, VInv, PairInv, NEW c \in Conn, OnOpen(c)
  PROVE  PairInv'
<1>1. /\ sess' = [sess EXCEPT ![c] = NewSession] /\ ws' = [ws EXCEPT ![c] = "open"]
      /\ sessions' = sessions \union {c} /\ view' = view /\ rooms' = rooms
  BY DEF OnOpen
<1>2. NewSession.sessionId = 0 /\ NewSession.broadcast = 0 /\ NewSession.version = 0
  BY DEF NewSession
<1>3. /\ sess'[c] = NewSession
      /\ \A d \in Conn \ {c} : /\ sess'[d] = sess[d] /\ ws'[d] = ws[d]
                               /\ d \in sessions' <=> d \in sessions
  BY <1>1 DEF MInv, SInv
<1>4. ~Joined(c)' BY <1>2, <1>3 DEF Joined
<1> HIDE DEF NewSession
<1>5. ASSUME NEW d \in Conn, Joined(d)' PROVE d # c /\ Joined(d)
  <2>1. d # c BY <1>4, <1>5
  <2> QED BY <1>3, <1>5, <2>1 DEF Joined
<1>6. ASSUME NEW d \in Conn
      PROVE  /\ sess'[d].broadcast <= sess'[d].version
             /\ sess'[d].sessionId = 0 => sess'[d].broadcast = 0
  <2>1. CASE d = c BY <1>2, <1>3, <2>1
  <2>2. CASE d # c BY <1>3, <2>2 DEF PairInv, Relayed
  <2> QED BY <2>1, <2>2
<1>7. ASSUME NEW a \in Conn, NEW d \in Conn, Together(a, d)'
      PROVE  Together(a, d) /\ a # c /\ d # c
  <2>1. Joined(a)' /\ Joined(d)' BY <1>7 DEF Together, Intact
  <2>2. Joined(a) /\ Joined(d) /\ a # c /\ d # c BY <1>5, <2>1
  <2> QED BY <1>3, <1>7, <2>2 DEF Together, Intact
<1>9. ASSUME NEW a \in Conn, NEW d \in Conn, Together(a, d)'
      PROVE  sess'[d].broadcast <= Will(a, sess[d].sessionId)'
  <2>1. Together(a, d) /\ a # c /\ d # c BY <1>7, <1>9
  <2>2. sess'[d] = sess[d] /\ sess'[a] = sess[a] BY <1>3, <2>1
  <2>3. Will(a, sess[d].sessionId)' = Will(a, sess[d].sessionId)
    BY <1>1, <2>2 DEF Will, Queued
  <2> QED BY <2>1, <2>2, <2>3 DEF PairInv
<1> QED BY <1>1, <1>3, <1>5, <1>6, <1>9 DEF PairInv, Relayed

\* An admitted hello: the newcomer relayed nothing, and its welcome has what the others did.
LEMMA GreetPair ==
  ASSUME MInv, VInv, PairInv, MInv', VInv', sessions' = sessions, view' = view, NEW c \in sessions,
         ~sess[c].helloDone,
         NEW n \in Names, NEW r \in RoomIds, NEW p \in OptProject,
         Greet(c, n, r, p), nextSessionId' # nextSessionId
  PROVE  PairInv'
<1> DEFINE x == nextSessionId
           t == Greeted(sess[c], n, r, p, x)
           m == WelcomeMsg(x, Occupants(rooms'[r]))
           u == EnqueueTo(t, m, FALSE)
           Known(a, y) == LastTold(view'[a].heard[y], Queued(a)', y)
<1>s. /\ c \in Conn /\ sess \in [Conn -> Session] /\ sess[c] \in Session /\ SInv
      /\ sessions \subseteq Conn
  BY MapsSay DEF MInv, SInv
<1>0. sess[c].sessionId = 0 /\ sess[c].broadcast = 0
  BY <1>s DEF SInv, PairInv, Relayed
<1>1. /\ \A q \in RoomIds \ {r} : rooms'[q] = rooms[q]
      /\ rooms'[r].members = rooms[r].members \union {Newcomer(n)}
      /\ x \in SessionId
  BY <1>s, AdmitEffect DEF Greet, SInv, RInv
<1>2. ws' = ws /\ sess' = [sess EXCEPT ![c] = u] BY DEF Greet
<1>3. /\ t \in Session /\ t.sessionId = x /\ t.roomId = r /\ t.outbound = sess[c].outbound
      /\ t.version = sess[c].version /\ t.broadcast = 0
  BY <1>0, <1>s, <1>1 DEF Greeted, Session
<1>m. m \in RelayMessage /\ m.type = "welcome" /\ m.states = Occupants(rooms'[r])
  <2>1. rooms'[r] \in Room BY DEF MInv, SInv, RInv, RegistryTypeOK
  <2> QED BY <1>1, <2>1, OccupantsAreTyped, MessagesAreTyped DEF WelcomeMsg
<1>o. /\ DOMAIN Occupants(rooms'[r]) = {k.sessionId : k \in rooms'[r].members}
      /\ \A y \in DOMAIN Occupants(rooms'[r]) :
           \E k \in rooms'[r].members : k.sessionId = y /\ Occupants(rooms'[r])[y] = k.lastState
  BY DEF Occupants
<1>b. u.broadcast = 0 /\ u.version = sess[c].version /\ u.sessionId = x /\ u.roomId = r
  <2>1. u.broadcast = t.broadcast BY <1>3 DEF EnqueueTo, Session
  <2>2. u.version = t.version BY <1>3, EnqueueSends
  <2>3. SamePlayer(t, u) BY <1>3, EnqueueSame
  <2> QED BY <1>3, <2>1, <2>2, <2>3 DEF SamePlayer
<1> HIDE DEF t, m
<1>4. Sent(sess[c], u, m, FALSE)
  <2>1. Sent(t, u, m, FALSE) BY <1>3, EnqueueSends
  <2> QED BY <1>3, <2>1 DEF Sent
<1> HIDE DEF u
<1>5. sess'[c] = u /\ \A d \in Conn \ {c} : sess'[d] = sess[d] BY <1>2, <1>s
<1>6. ASSUME NEW d \in Conn
      PROVE  /\ sess'[d].broadcast <= sess'[d].version
             /\ sess'[d].sessionId = 0 => sess'[d].broadcast = 0
  <2>1. sess[c].broadcast <= sess[c].version BY <1>s DEF PairInv, Relayed
  <2> QED BY <1>0, <1>5, <1>b, <2>1 DEF PairInv, Relayed
<1>7. ASSUME NEW d \in Conn, Joined(d)', NEW k \in rooms'[sess'[d].roomId].members,
             k.sessionId = sess'[d].sessionId
      PROVE  sess'[d].broadcast <= k.lastState
  <2>1. CASE d = c
    <3>1. k \in Member BY <1>5, <1>7, <1>b, <2>1, MapsSay DEF MInv, SInv, RInv, RegistryTypeOK, Room
    <3> QED BY <1>5, <1>b, <2>1, <3>1 DEF Member
  <2>2. CASE d # c
    <3>1. sess'[d] = sess[d] /\ Joined(d) BY <1>5, <1>7, <2>2 DEF Joined
    <3>2. sess[d].roomId \in RoomIds /\ \E l \in rooms[sess[d].roomId].members :
            l.sessionId = sess[d].sessionId
      BY <3>1, MapsSay DEF Joined
    <3>3. sess[d].sessionId < x BY <3>2 DEF MInv, SInv, RInv, SessionsUnique
    <3>4. sess[d].sessionId # x BY <1>1, <3>3 DEF SessionId
    <3>5. Newcomer(n).sessionId = x BY DEF Newcomer
    <3>6. k \in rooms[sess[d].roomId].members BY <1>1, <1>7, <3>1, <3>2, <3>4, <3>5
    <3> QED BY <1>7, <3>1, <3>6 DEF PairInv, Relayed
  <2> QED BY <2>1, <2>2
<1>8. ASSUME NEW a \in Conn, NEW d \in Conn, Together(a, d)'
      PROVE  sess'[d].broadcast <= Will(a, sess[d].sessionId)'
  <2>k. Will(a, sess[d].sessionId)' = Known(a, sess'[d].sessionId) BY DEF Will
  <2>j. a \in sessions /\ a # d /\ sess'[a].roomId = sess'[d].roomId /\ ~sess'[a].lost /\ Joined(d)'
    BY <1>8 DEF Together, Intact, Joined
  <2>1. CASE a = c
    <3>1. sess'[d] = sess[d] /\ sess[d].roomId = r BY <1>5, <1>b, <2>1, <2>j
    <3>2. Joined(d) BY <2>j, <3>1 DEF Joined
    <3> DEFINE y == sess[d].sessionId
    <3>3. /\ y \in SessionId /\ \E k \in rooms[r].members : k.sessionId = y
      BY <3>1, <3>2, MapsSay DEF Joined
    <3>4. y \in DOMAIN Occupants(rooms'[r]) BY <1>1, <1>o, <3>3
    <3>5. Tells(m, y) /\ Told(m, y) = Occupants(rooms'[r])[y]
      BY <1>m, <3>4 DEF Tells, Told
    <3>6. PICK k \in rooms'[r].members : k.sessionId = y /\ Told(m, y) = k.lastState
      BY <1>o, <3>4, <3>5
    <3>7. sess[d].broadcast <= Told(m, y) BY <1>7, <2>j, <3>1, <3>6
    <3>8. Known(a, y) = Told(m, y)
      <4> DEFINE q == Queued(a)  k1 == Slot(a)  q2 == Queued(a)'  k2 == Slot(a)'
                 h == view[a].heard[y]  isState == FALSE
      <4>1. PushedQueue(q, k1, q2, k2, m, isState)
        BY <1>4, <1>5, <2>1, <2>j DEF Sent, Queued, Slot
      <4>2. QueueFits(q, k1) /\ Shaped(q, k1) /\ isState \in BOOLEAN
        BY <1>s, QueuesFit DEF VInv, PeerOK, Sound
      <4> HIDE DEF q, k1, q2, k2, h, isState, y
      <4>3. LastTold(h, q2, y) = Told(m, y) BY <1>m, <3>5, <4>1, <4>2, PushedIsTold
      <4> QED BY <4>3 DEF h, q2
    <3> QED BY <2>k, <3>1, <3>7, <3>8
  <2>2. CASE a # c /\ d = c
    <3>1. Known(a, x) \in Version
      <4>q. QueueFits(Queued(a)', Slot(a)')
        BY DEF MInv, SInv, SessionOK, QueueOK, QueueType, QueueFits, Queued, Slot
      <4>1. /\ view'[a] \in ViewType /\ QueueFits(Queued(a)', Slot(a)')
            /\ Sound(Queued(a)', Slot(a)', view'[a], Bound', MayGo')
        BY <4>q DEF VInv, PeerOK
      <4>2. Delivered(view'[a], Queued(a)') \in ViewType BY <4>1, DeliveryIsSound
      <4>3. Delivered(view'[a], Queued(a)').heard[x] \in Version BY <1>1, <4>2 DEF ViewType
      <4>4. Delivered(view'[a], Queued(a)').heard[x] = LastTold(view'[a].heard[x], Queued(a)', x)
        BY <1>1 DEF Delivered
      <4> QED BY <4>3, <4>4
    <3>2. sess'[d].sessionId = x /\ sess'[d].broadcast = 0 BY <1>5, <1>b, <2>2
    <3> QED BY <2>k, <3>1, <3>2 DEF Version
  <2>3. CASE a # c /\ d # c
    <3>1. sess'[a] = sess[a] /\ sess'[d] = sess[d] BY <1>5, <2>3
    <3>2. Together(a, d) BY <1>2, <1>8, <3>1 DEF Together, Intact, Joined
    <3>3. Will(a, sess[d].sessionId)' = Will(a, sess[d].sessionId) BY <3>1 DEF Will, Queued
    <3> QED BY <3>1, <3>2, <3>3 DEF PairInv
  <2> QED BY <2>1, <2>2, <2>3
<1> QED BY <1>6, <1>7, <1>8 DEF PairInv, Relayed

\* onClose: a departure has no position, and the erased session has relayed nothing.
LEMMA ClosePair ==
  ASSUME MInv, VInv, PairInv, NEW c \in Conn, OnClose(c)
  PROVE  PairInv'
<1> DEFINE x == sess[c].sessionId
           S == Announce(c)
           R == Recipients(sess[c].roomId, x)
           Announced == x # 0 /\ ~sess[c].left
<1>s. /\ c \in sessions /\ sess \in [Conn -> Session] /\ SInv
      /\ sessions \subseteq Conn /\ view \in [Conn -> ViewType] /\ ws' = ws
      /\ sessions' = sessions \ {c}
      /\ view' = [view EXCEPT ![c] = NewView]
      /\ sess' = [S EXCEPT ![c] = Remains(S[c])]
  BY DEF MInv, SInv, VInv, OnClose
<1>1. /\ \A d \in Conn : d \notin R \/ ~Announced => S[d] = sess[d]
      /\ \A d \in Conn : d \in R /\ Announced => S[d] = EnqueueTo(sess[d], LeaveMsg(x), FALSE)
      /\ S = [d \in Conn |-> S[d]]
  BY <1>s DEF Announce, BroadcastLeave, BroadcastToRoom
<1> HIDE DEF S
<1>2. ASSUME NEW d \in Conn
      PROVE  /\ Grown(sess[d], S[d]) /\ SamePlayer(sess[d], S[d])
             /\ S[d].version = sess[d].version /\ Reticent(sess[d], S[d])
  <2>0. sess[d] \in Session BY <1>s
  <2>1. CASE d \in R /\ Announced
    <3> DEFINE u == EnqueueTo(sess[d], LeaveMsg(x), FALSE)
    <3>1. S[d] = u BY <1>1, <2>1
    <3>2. Grown(sess[d], u) /\ u.version = sess[d].version BY <2>0, EnqueueSends
    <3>3. SamePlayer(sess[d], u) BY <2>0, EnqueueSame
    <3>4. Reticent(sess[d], u)
      <4>1. x \in SessionId BY <1>s, <2>1, MapsSay
      <4>2. LeaveMsg(x) \in RelayMessage /\ Positionless(LeaveMsg(x))
        BY <4>1, MessagesAreTyped DEF LeaveMsg, Positionless
      <4> QED BY <2>0, <4>2, EnqueueIsReticent
    <3> HIDE DEF u
    <3> QED BY <3>1, <3>2, <3>3, <3>4
  <2>2. CASE ~(d \in R /\ Announced)
    BY <1>1, <2>0, <2>2, MarksQueueNothing, MarksAreReticent DEF Unqueued, SamePlayer
  <2> QED BY <2>1, <2>2
<1>3. /\ \A d \in Conn \ {c} : sess'[d] = S[d]
      /\ sess'[c] = Remains(S[c])
  BY <1>s, <1>1
<1>4. \A q \in RoomIds : rooms'[q].members \subseteq rooms[q].members
  <2>1. rooms \in [RoomIds -> Room] BY <1>s DEF SInv, RInv, RegistryTypeOK
  <2>2. CASE x = 0 BY <2>2 DEF OnClose, ForgetMember
  <2>3. CASE x # 0
    <3>1. rooms' = RemoveMember(rooms, sess[c].roomId, x) BY <2>3 DEF OnClose, ForgetMember
    <3>2. sess[c].roomId \in RoomIds BY <1>s, <2>3, MapsSay
    <3> HIDE DEF x
    <3> QED BY <2>1, <3>1, <3>2 DEF RemoveMember, Room
  <2> QED BY <2>2, <2>3
<1>5. ASSUME NEW d \in Conn
      PROVE  /\ sess'[d].broadcast <= sess'[d].version
             /\ sess'[d].sessionId = 0 => sess'[d].broadcast = 0
  <2>1. CASE d = c
    <3>1. sess'[c].broadcast = 0 /\ sess'[c].version = 0
      BY <1>3 DEF Remains, NewSession
    <3> QED BY <2>1, <3>1
  <2>2. CASE d # c
    BY <1>2, <1>3, <2>2 DEF PairInv, Relayed, SamePlayer, Reticent
  <2> QED BY <2>1, <2>2
<1>6. ASSUME NEW d \in Conn, Joined(d)'
      PROVE  /\ d # c /\ Joined(d) /\ sess[d].roomId \in RoomIds
             /\ sess'[d].sessionId = sess[d].sessionId /\ sess'[d].roomId = sess[d].roomId
             /\ sess'[d].broadcast = sess[d].broadcast
  <2>1. d # c /\ d \in sessions /\ sess'[d].sessionId # 0 BY <1>6, <1>s DEF Joined
  <2>2. /\ sess'[d].sessionId = sess[d].sessionId /\ sess'[d].roomId = sess[d].roomId
        /\ sess'[d].broadcast = sess[d].broadcast
    BY <1>2, <1>3, <2>1 DEF SamePlayer, Reticent
  <2> QED BY <2>1, <2>2, MapsSay DEF Joined
<1>7. ASSUME NEW d \in Conn, Joined(d)', NEW k \in rooms'[sess'[d].roomId].members,
             k.sessionId = sess'[d].sessionId
      PROVE  sess'[d].broadcast <= k.lastState
  BY <1>4, <1>6, <1>7 DEF PairInv, Relayed
<1>8. ASSUME NEW a \in Conn, NEW d \in Conn, Together(a, d)'
      PROVE  sess'[d].broadcast <= Will(a, sess[d].sessionId)'
  <2>1. /\ Joined(a)' /\ Joined(d)' /\ ws'[a] = "open" /\ ~sess'[a].lost /\ ~sess'[a].dropped
        /\ a # d /\ sess'[a].roomId = sess'[d].roomId
    BY <1>8 DEF Together, Intact
  <2>2. /\ a # c /\ Joined(a) /\ Joined(d) /\ sess[a].roomId = sess[d].roomId
        /\ sess'[d].sessionId = sess[d].sessionId /\ sess'[d].broadcast = sess[d].broadcast
    BY <1>6, <2>1
  <2>3. Reticent(sess[a], sess'[a]) /\ Grown(sess[a], sess'[a]) BY <1>2, <1>3, <2>2
  <2>4. Together(a, d) BY <1>s, <2>1, <2>2, <2>3 DEF Together, Intact, Reticent, Grown
  <2>5. view'[a] = view[a] BY <1>s, <2>2
  <2>6. LastTold(view'[a].heard[sess[d].sessionId], sess'[a].outbound.messages, sess[d].sessionId)
          = Will(a, sess[d].sessionId)
    BY <2>1, <2>3, <2>5, ReticentWill
  <2>7. Will(a, sess[d].sessionId)' = Will(a, sess[d].sessionId)
    BY <2>2, <2>6 DEF Will, Queued
  <2> QED BY <2>2, <2>4, <2>7 DEF PairInv
<1> QED BY <1>5, <1>7, <1>8 DEF PairInv, Relayed

-----------------------------------------------------------------------------
(* The invariant of rooms of two. *)

\* Nobody is together.
LEMMA InitPair == Init => PairInv
BY DEF Init, NewSession, PairInv, Relayed, Together, Intact, Joined

\* What a message comes to.
LEMMA MessagePair ==
  ASSUME MInv, VInv, PairInv, MInv', VInv', MaxPlayers <= 2, NEW c \in Conn, OnMessage(c)
  PROVE  PairInv'
<1>1. CASE OnForeignMessage(c) \/ OnClientError(c)
  BY <1>1, AnswerPair DEF OnForeignMessage, OnClientError, Receive
<1>2. CASE HandlePing(c)
  <2>1. sessions' = sessions /\ view' = view BY <1>2 DEF HandlePing, Receive
  <2>2. CASE ReplyError(c) BY <2>1, <2>2, AnswerPair
  <2>3. CASE UNCHANGED <<rooms, nextSessionId, ws, sess, hdlBySessionId>>
    <3>1. Quiet BY <2>1, <2>3, RoomsStay DEF Quiet, SamePlayer
    <3> QED BY <2>1, <2>3, <3>1, ConnStepPair
  <2> QED BY <1>2, <2>2, <2>3 DEF HandlePing
<1>3. ASSUME NEW n \in Names, NEW r \in RoomIds, NEW p \in OptProject, HandleHello(c, n, r, p)
      PROVE  PairInv'
  <2>1. sessions' = sessions /\ view' = view /\ c \in sessions
    BY <1>3 DEF HandleHello, Receive
  <2>2. CASE SendErrorAndClose(c) BY <2>1, <2>2, AnswerPair
  <2>3. CASE Greet(c, n, r, p) /\ ~sess[c].helloDone
    <3>1. CASE nextSessionId' = nextSessionId BY <2>1, <2>3, <3>1, RefusedHelloPair
    <3>2. CASE nextSessionId' # nextSessionId BY <2>1, <2>3, <3>2, GreetPair
    <3> QED BY <3>1, <3>2
  <2> QED BY <1>3, <2>2, <2>3 DEF HandleHello
<1> QED BY <1>1, <1>2, <1>3, BadMessagePair, StatePair, ChatPair, LeavePair DEF OnMessage

\* Every step of rooms of two keeps it.
LEMMA StepKeepsPair ==
  ASSUME MaxPlayers <= 2
  PROVE  MInv /\ VInv /\ PairInv /\ [Next]_vars => PairInv'
<1> SUFFICES ASSUME MInv, VInv, PairInv, [Next]_vars PROVE PairInv'
  OBVIOUS
<1>m. MInv' /\ VInv' BY StepKeepsMaps, StepKeepsVInv
<1>1. CASE UNCHANGED vars
  <2>1. Quiet BY <1>1, RoomsStay DEF vars, Quiet, SamePlayer
  <2> QED BY <1>1, <1>m, <2>1, ConnStepPair DEF vars
<1>2. CASE CheckBackpressure
  <2>1. SInv /\ ws \in [Conn -> WsState] BY DEF MInv, SInv
  <2>2. Quiet BY <1>2, <2>1, MonitorIsQuiet
  <2>3. \A d \in Conn : ws'[d] = "open" => ws[d] = "open" BY <1>2 DEF CheckBackpressure
  <2> QED BY <1>2, <1>m, <2>2, <2>3, ConnStepPair DEF CheckBackpressure
<1>3. ASSUME NEW c \in Conn, OnOpen(c) PROVE PairInv' BY <1>3, OpenPair
<1>4. ASSUME NEW c \in Conn, OnMessage(c) PROVE PairInv' BY <1>4, <1>m, MessagePair
<1>5. ASSUME NEW c \in Conn, OnClose(c) PROVE PairInv' BY <1>5, ClosePair
<1>6. ASSUME NEW c \in Conn, Drain(c) PROVE PairInv' BY <1>6, <1>m, DrainPair
<1>7. ASSUME NEW c \in Conn, OnIdleTimeout(c) \/ TransportClosed(c) \/ BackpressureAges(c)
      PROVE  PairInv'
  BY <1>7, <1>m, TimersPair
<1> QED BY <1>1, <1>2, <1>3, <1>4, <1>5, <1>6, <1>7 DEF Next

\* In rooms of at most two, a peer with nothing left in its queue, and for which no state was
\* dropped, knows the newest state relayed by the other, whatever the connections, rooms and
\* messages are (ADR-004, rule 1).  A third player ends it: the run relay_newest.
THEOREM RoomsOfTwoAreCurrent ==
  ASSUME MaxPlayers <= 2
  PROVE  Spec => []SettledPeersAreCurrent
<1>1. ASSUME MInv, PairInv PROVE SettledPeersAreCurrent
  <2> SUFFICES ASSUME NEW c \in Conn, NEW d \in Conn,
                      Intact(c), Queued(c) = << >>, ~sess[c].dropped,
                      Joined(d), sess[c].roomId = sess[d].roomId, d # c
               PROVE  view[c].heard[sess[d].sessionId] >= sess[d].broadcast
    BY DEF SettledPeersAreCurrent
  <2>1. sess[d].broadcast <= Will(c, sess[d].sessionId) BY <1>1 DEF PairInv, Together
  <2>2. Will(c, sess[d].sessionId) = view[c].heard[sess[d].sessionId]
    BY NothingIsTold DEF Will
  <2> QED BY <2>1, <2>2
<1>2. MInv /\ VInv /\ PairInv /\ [Next]_vars => PairInv' BY StepKeepsPair
<1> QED BY <1>1, <1>2, InitMaps, StepKeepsMaps, InitVInv, StepKeepsVInv, InitPair, PTL DEF Spec
=============================================================================
