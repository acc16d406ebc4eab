------------------------------- MODULE Relay -------------------------------
(***************************************************************************)
(* The relay server (server/src/server.cpp): WebSocket sessions, the       *)
(* message handlers, the room broadcasts through one outbound queue per    *)
(* session, posted drains, idle timeouts, the slow-consumer monitor and    *)
(* the clean-up of a closed connection.  All handlers run on one           *)
(* io_context thread, so a handler is one step; handlers of different      *)
(* connections, timers and posted drains interleave freely.                *)
(*                                                                         *)
(* websocketpp is external: ws[c] is the state of connection c.  A message *)
(* reaches the handler, and a send succeeds, only while it is open; close  *)
(* makes it closing; it becomes closed at any time (peer, network, end of  *)
(* the close handshake) and the close handler runs later.                  *)
(*                                                                         *)
(* Of a message only what the rooms tell each other is kept.  The states   *)
(* of one player are numbered.  Whether a token bucket admits a message    *)
(* depends on elapsed time: both outcomes are always possible here.        *)
(***************************************************************************)
EXTENDS RoomRegistry, OutboundQueue, Integers, SequencesExt

CONSTANTS Conn,                  \* connections (websocketpp::connection_hdl)
          NoHdl, NoRoom, NoName, \* an absent map entry, empty strings
          MaxConsecutiveErrors,  \* 5: malformed messages before closing
          StateDropsPerError,    \* 3 * kStateBurst
          MaxStateErrors,        \* 3
          MaxChatHits,           \* 10
          ClientSends,           \* bound: the kinds of message clients send
          MaxReceived            \* bound: messages received in a behaviour

MessageKinds == {"foreign", "malformed", "unknown", "invalid", "error",
                 "hello", "player_state", "chat", "leave", "ping"}

ASSUME RelayAssumption == /\ NoHdl \notin Conn
                          /\ NoRoom \notin RoomIds
                          /\ NoName \notin Names
                          /\ MaxConsecutiveErrors \in Nat \ {0}
                          /\ StateDropsPerError \in Nat \ {0}
                          /\ MaxStateErrors \in Nat \ {0}
                          /\ MaxChatHits \in Nat \ {0}
                          /\ ClientSends \subseteq MessageKinds
                          /\ MaxReceived \in Nat

VARIABLES ws,              \* [Conn -> none, open, closing or closed]
          sessions,        \* the connections sessions_ has an entry for
          sess,            \* [Conn -> Session]; after erase only the id and
                           \* left remain, as history
          hdlBySessionId,  \* [SessionId -> Conn or NoHdl]
          view,            \* [Conn -> what the peer was told so far]
          received         \* messages received, for the bound MaxReceived

connVars == <<ws, sessions, sess, hdlBySessionId, view, received>>
vars == <<rooms, nextSessionId, ws, sessions, sess, hdlBySessionId, view, received>>

NewSession ==
  [sessionId |-> 0, helloDone |-> FALSE, helloUsed |-> FALSE,
   playerName |-> NoName, roomId |-> NoRoom, projectId |-> NoProject,
   left |-> FALSE, unknownTypeReported |-> FALSE,
   consecutiveErrors |-> 0, stateDrops |-> 0, stateErrors |-> 0, chatHits |-> 0,
   outbound |-> EmptyQueue, drainPending |-> FALSE, backpressure |-> "none",
   version |-> 0,      \* number of the last state the player sent
   broadcast |-> 0,    \* number of the last state relayed to the room
   lost |-> FALSE,     \* history: a control message was refused
   dropped |-> FALSE]  \* history: a state was dropped, the queue being full

\* What a peer knows: a welcome came, who is in its room, whose leave came,
\* and the number of the last state of each player.
NewView == [welcomed |-> FALSE, roster |-> {}, gone |-> {},
            heard |-> [x \in SessionId |-> 0]]

Init == /\ RegistryInit
        /\ ws = [c \in Conn |-> "none"]
        /\ sessions = {}
        /\ sess = [c \in Conn |-> NewSession]
        /\ hdlBySessionId = [x \in SessionId |-> NoHdl]
        /\ view = [c \in Conn |-> NewView]
        /\ received = 0

-----------------------------------------------------------------------------
(* Messages to a peer; a welcome carries the id of the peer itself and the
   last states of everyone in the room. *)
WelcomeMsg(x, states) == [type |-> "welcome", you |-> x, states |-> states]
StateMsg(x, v) == [type |-> "player_state", from |-> x, version |-> v]
ChatMsg(x) == [type |-> "chat", from |-> x]
LeaveMsg(x) == [type |-> "leave", from |-> x]
ErrorMsg == [type |-> "error"]

\* What a message m says of a player x: the number of its last state, that it is
\* there (a welcome lists the peer itself, which is no remote player), or that it left.
Tells(m, x) == \/ m.type = "welcome" /\ x \in DOMAIN m.states
               \/ m.type = "player_state" /\ m.from = x
Told(m, x) == IF m.type = "welcome" THEN m.states[x] ELSE m.version
Shows(m, x) == Tells(m, x) /\ (m.type = "welcome" => m.you # x)
Removes(m, x) == m.type = "leave" /\ m.from = x

\* The number the last of the messages q to tell of x gives, heard if there is none.
LastTold(heard, q, x) ==
  LET told == {i \in DOMAIN q : Tells(q[i], x)}
  IN  IF told = {} THEN heard ELSE Told(q[CHOOSE i \in told : \A j \in told : j <= i], x)

\* The peer's reaction to the messages q in their order (the runtime's
\* NetworkClient): the last word on a player counts.
Delivered(w, q) ==
  [welcomed |-> w.welcomed \/ \E i \in DOMAIN q : q[i].type = "welcome",
   roster |-> {x \in SessionId :
                 \/ x \in w.roster /\ \A i \in DOMAIN q : ~Removes(q[i], x)
                 \/ \E i \in DOMAIN q : /\ Shows(q[i], x)
                                        /\ \A j \in DOMAIN q : j > i => ~Removes(q[j], x)},
   gone |-> w.gone \union {x \in SessionId : \E i \in DOMAIN q : Removes(q[i], x)},
   heard |-> [x \in SessionId |-> LastTold(w.heard[x], q, x)]]

-----------------------------------------------------------------------------
(* Helpers on one session s, and on the map S of all of them. *)

\* Mutant of EnqueueTo: a state does not post a drain.
EnqueueToPostsForControl(s, m, isState) ==
  IF ~isState /\ Full(s.outbound)
  THEN [s EXCEPT !.backpressure = IF @ = "none" THEN "fresh" ELSE @,
                 !.lost = TRUE]
  ELSE [s EXCEPT !.outbound = IF isState THEN PushState(@, m) ELSE PushControl(@, m),
                 !.dropped = @ \/ (isState /\ StateDropped(s.outbound)),
                 !.drainPending = @ \/ ~isState]

\* A refused control message only starts the slow-consumer clock; any other
\* outcome posts a drain unless one is pending.
EnqueueTo(s, m, isState) ==
  IF ~isState /\ Full(s.outbound)
  THEN [s EXCEPT !.backpressure = IF @ = "none" THEN "fresh" ELSE @,
                 !.lost = TRUE]
  ELSE [s EXCEPT !.outbound = IF isState THEN PushState(@, m) ELSE PushControl(@, m),
                 !.dropped = @ \/ (isState /\ StateDropped(s.outbound)),
                 !.drainPending = TRUE]

SendError(s) == EnqueueTo(s, ErrorMsg, FALSE)

\* Everyone in the room the two maps lead to, except the sender.
Recipients(r, x) ==
  {c \in sessions : \E m \in rooms[r].members :
                       m.sessionId # x /\ hdlBySessionId[m.sessionId] = c}

BroadcastToRoom(S, r, x, m, isState) ==
  [c \in Conn |-> IF c \in Recipients(r, x) THEN EnqueueTo(S[c], m, isState) ELSE S[c]]

BroadcastLeave(S, c) ==
  BroadcastToRoom(S, sess[c].roomId, sess[c].sessionId, LeaveMsg(sess[c].sessionId), FALSE)

\* ws_.close: refused unless open.  closeReason only feeds texts.
CloseConnection(c) == ws' = [ws EXCEPT ![c] = IF @ = "open" THEN "closing" ELSE @]

CloseIf(c, tooMany) == IF tooMany THEN CloseConnection(c) ELSE UNCHANGED ws

-----------------------------------------------------------------------------
(* Connection life cycle. *)
OnOpen(c) ==
  /\ ws[c] = "none"
  /\ ws' = [ws EXCEPT ![c] = "open"]
  /\ sessions' = sessions \union {c}
  /\ sess' = [sess EXCEPT ![c] = NewSession]
  /\ UNCHANGED <<rooms, nextSessionId, hdlBySessionId, view, received>>

\* External: the peer or the network ends the connection, or the close
\* handshake completes or times out.
TransportClosed(c) ==
  /\ ws[c] \in {"open", "closing"}
  /\ ws' = [ws EXCEPT ![c] = "closed"]
  /\ UNCHANGED <<rooms, nextSessionId, sessions, sess, hdlBySessionId, view, received>>

\* Mutant of Announce: an explicit leave is announced again.
AnnounceTwice(c) == IF sess[c].sessionId # 0 THEN BroadcastLeave(sess, c) ELSE sess

\* Mutant of Announce: only an explicit leave is ever announced.
AnnounceNever(c) == sess

\* The room hears of the departure unless handleLeave has already told it.
Announce(c) ==
  IF sess[c].sessionId # 0 /\ ~sess[c].left THEN BroadcastLeave(sess, c) ELSE sess

\* Mutant of ForgetMember: one who sent leave is taken for removed already.
ForgetMemberUnlessLeft(c) ==
  LET s == sess[c]
  IN  IF s.sessionId # 0 /\ ~s.left
      THEN /\ hdlBySessionId' = [hdlBySessionId EXCEPT ![s.sessionId] = NoHdl]
           /\ rooms' = RemoveMember(rooms, s.roomId, s.sessionId)
      ELSE UNCHANGED <<hdlBySessionId, rooms>>

\* Mutant of ForgetMember: an empty room is removed with its last member.
ForgetMemberAndRoom(c) ==
  LET s == sess[c]
  IN  IF s.sessionId # 0
      THEN /\ hdlBySessionId' = [hdlBySessionId EXCEPT ![s.sessionId] = NoHdl]
           /\ rooms' = [RemoveMember(rooms, s.roomId, s.sessionId)
                          EXCEPT ![s.roomId].created = (@ /\ Cardinality(rooms[s.roomId].members) > 1)]
      ELSE UNCHANGED <<hdlBySessionId, rooms>>

\* Mutant of ForgetMember: a session that never joined is not cleaned up.
ForgetMemberJoinedOnly(c) ==
  LET s == sess[c]
  IN  /\ s.sessionId # 0
      /\ hdlBySessionId' = [hdlBySessionId EXCEPT ![s.sessionId] = NoHdl]
      /\ rooms' = RemoveMember(rooms, s.roomId, s.sessionId)

ForgetMember(c) ==
  LET s == sess[c]
  IN  IF s.sessionId # 0
      THEN /\ hdlBySessionId' = [hdlBySessionId EXCEPT ![s.sessionId] = NoHdl]
           /\ rooms' = RemoveMember(rooms, s.roomId, s.sessionId)
      ELSE UNCHANGED <<hdlBySessionId, rooms>>

\* What is kept of an erased session, for the properties.
Remains(s) == [NewSession EXCEPT !.sessionId = s.sessionId, !.left = s.left]

OnClose(c) ==
  /\ ws[c] = "closed"
  /\ c \in sessions
  /\ sess' = [Announce(c) EXCEPT ![c] = Remains(@)]
  /\ ForgetMember(c)
  /\ sessions' = sessions \ {c}
  /\ view' = [view EXCEPT ![c] = NewView]
  /\ UNCHANGED <<nextSessionId, ws, received>>

-----------------------------------------------------------------------------
(* onMessage and the handlers it dispatches to.  No handler touches sessions_
   or reaches a peer other than through a queue. *)
Receive(c, kind) == /\ kind \in ClientSends
                    /\ c \in sessions
                    /\ ws[c] = "open"
                    /\ received < MaxReceived
                    /\ received' = received + 1
                    /\ UNCHANGED <<sessions, view>>

\* A queued reply, and nothing else.
ReplyError(c) ==
  /\ sess' = [sess EXCEPT ![c] = SendError(@)]
  /\ UNCHANGED <<rooms, nextSessionId, ws, hdlBySessionId>>

\* The error goes out directly, past the queue.
SendErrorAndClose(c) ==
  /\ CloseConnection(c)
  /\ UNCHANGED <<rooms, nextSessionId, sess, hdlBySessionId>>

\* A binary frame or another protocol version.
OnForeignMessage(c) == Receive(c, "foreign") /\ SendErrorAndClose(c)

\* Oversized, not JSON, or a bad envelope.  The counter is never reset.
OnMalformedMessage(c) ==
  /\ Receive(c, "malformed")
  /\ LET counted == [sess[c] EXCEPT !.consecutiveErrors = @ + 1]
     IN  /\ sess' = [sess EXCEPT ![c] = SendError(counted)]
         /\ CloseIf(c, counted.consecutiveErrors >= MaxConsecutiveErrors)
  /\ UNCHANGED <<rooms, nextSessionId, hdlBySessionId>>

OnUnknownType(c) ==
  /\ Receive(c, "unknown")
  /\ LET marked == [sess[c] EXCEPT !.unknownTypeReported = TRUE]
     IN  sess' = IF sess[c].unknownTypeReported THEN sess
                 ELSE [sess EXCEPT ![c] = SendError(marked)]
  /\ UNCHANGED <<rooms, nextSessionId, ws, hdlBySessionId>>

\* "error" is not for clients to send.
OnClientError(c) == Receive(c, "error") /\ ReplyError(c)

\* The pong of a valid ping goes out directly and changes nothing here.
HandlePing(c) ==
  \/ Receive(c, "invalid") /\ ReplyError(c)
  \/ Receive(c, "ping") /\ UNCHANGED <<rooms, nextSessionId, ws, sess, hdlBySessionId>>

Occupants(room) ==
  [x \in {m.sessionId : m \in room.members} |->
     (CHOOSE m \in room.members : m.sessionId = x).lastState]

Greeted(s, n, r, p, x) ==
  [s EXCEPT !.helloUsed = TRUE, !.helloDone = TRUE, !.playerName = n,
            !.roomId = r, !.projectId = p, !.sessionId = x]

\* Mutant of Greet: the welcome goes out like a state.
GreetAsState(c, n, r, p) ==
  /\ Admit(r, n, p)
  /\ IF nextSessionId' = nextSessionId
     THEN /\ CloseConnection(c)
          /\ sess' = [sess EXCEPT ![c].helloUsed = TRUE]
          /\ UNCHANGED hdlBySessionId
     ELSE /\ hdlBySessionId' = [hdlBySessionId EXCEPT ![nextSessionId] = c]
          /\ sess' = [sess EXCEPT ![c] =
               EnqueueTo(Greeted(sess[c], n, r, p, nextSessionId),
                         WelcomeMsg(nextSessionId, Occupants(rooms'[r])), TRUE)]
          /\ UNCHANGED ws

\* The first valid hello: join, remember the session under its new id, and
\* queue the welcome with everyone the room holds now.
Greet(c, n, r, p) ==
  /\ Admit(r, n, p)
  /\ IF nextSessionId' = nextSessionId
     THEN /\ CloseConnection(c)
          /\ sess' = [sess EXCEPT ![c].helloUsed = TRUE]
          /\ UNCHANGED hdlBySessionId
     ELSE /\ hdlBySessionId' = [hdlBySessionId EXCEPT ![nextSessionId] = c]
          /\ sess' = [sess EXCEPT ![c] =
               EnqueueTo(Greeted(sess[c], n, r, p, nextSessionId),
                         WelcomeMsg(nextSessionId, Occupants(rooms'[r])), FALSE)]
          /\ UNCHANGED ws

HandleHello(c, n, r, p) ==
  \/ Receive(c, "invalid") /\ SendErrorAndClose(c)
  \/ /\ Receive(c, "hello")
     /\ IF sess[c].helloDone \/ sess[c].helloUsed
        THEN SendErrorAndClose(c)
        ELSE Greet(c, n, r, p)

\* Over the rate the state is stored but not relayed; every StateDropsPerError
\* such drops cost an error, and MaxStateErrors errors the connection.
LimitState(c) ==
  LET s == sess[c]
      full == s.stateDrops + 1 >= StateDropsPerError
      counted == [s EXCEPT !.version = @ + 1,
                           !.stateDrops = IF full THEN 0 ELSE @ + 1,
                           !.stateErrors = IF full THEN @ + 1 ELSE @]
  IN  /\ sess' = [sess EXCEPT ![c] = IF full THEN SendError(counted) ELSE counted]
      /\ CloseIf(c, full /\ counted.stateErrors >= MaxStateErrors)

\* Mutant of RelayState: what goes out is the state relayed before.
RelayStateLate(c) ==
  LET s == sess[c]
      v == s.version + 1
      S == [sess EXCEPT ![c].version = v, ![c].broadcast = v]
  IN  /\ sess' = BroadcastToRoom(S, s.roomId, s.sessionId,
                                 StateMsg(s.sessionId, s.broadcast), TRUE)
      /\ UNCHANGED ws

RelayState(c) ==
  LET s == sess[c]
      v == s.version + 1
      S == [sess EXCEPT ![c].version = v, ![c].broadcast = v]
  IN  /\ sess' = BroadcastToRoom(S, s.roomId, s.sessionId, StateMsg(s.sessionId, v), TRUE)
      /\ UNCHANGED ws

HandlePlayerState(c) ==
  \/ Receive(c, "invalid") /\ ReplyError(c)
  \/ /\ Receive(c, "player_state")
     /\ IF ~sess[c].helloDone
        THEN ReplyError(c)
        ELSE /\ sess[c].version < MaxVersion
             /\ RecordState(sess[c].roomId, sess[c].sessionId, sess[c].version + 1)
             /\ LimitState(c) \/ RelayState(c)
             /\ UNCHANGED hdlBySessionId

LimitChat(c) ==
  /\ LET counted == [sess[c] EXCEPT !.chatHits = @ + 1]
     IN  /\ sess' = [sess EXCEPT ![c] = SendError(counted)]
         /\ CloseIf(c, counted.chatHits >= MaxChatHits)

RelayChat(c) ==
  /\ sess' = BroadcastToRoom(sess, sess[c].roomId, sess[c].sessionId,
                             ChatMsg(sess[c].sessionId), FALSE)
  /\ UNCHANGED ws

HandleChat(c) ==
  \/ Receive(c, "invalid") /\ ReplyError(c)
  \/ /\ Receive(c, "chat")
     /\ IF ~sess[c].helloDone
        THEN ReplyError(c)
        ELSE /\ LimitChat(c) \/ RelayChat(c)
             /\ UNCHANGED <<rooms, nextSessionId, hdlBySessionId>>

\* The room is told before the close; the member stays in it until OnClose.
HandleLeave(c) ==
  \/ Receive(c, "invalid") /\ SendErrorAndClose(c)
  \/ /\ Receive(c, "leave")
     /\ IF ~sess[c].helloDone
        THEN SendErrorAndClose(c)
        ELSE /\ sess' = BroadcastLeave([sess EXCEPT ![c].left = TRUE], c)
             /\ CloseConnection(c)
             /\ UNCHANGED <<rooms, nextSessionId, hdlBySessionId>>

-----------------------------------------------------------------------------
(* Posted work and timers. *)

\* Mutant of Unsent: one message is sent for each posted drain.
UnsentAfterOne(c) ==
  IF sess[c].outbound.messages = << >> THEN EmptyQueue ELSE PopFront(sess[c].outbound)

\* A drain sends everything; on a connection that is no longer open the first
\* send throws, and the popped message and the rest stay unsent.
Unsent(c) ==
  IF ws[c] = "open" \/ sess[c].outbound.messages = << >>
  THEN EmptyQueue
  ELSE PopFront(sess[c].outbound)

Drain(c) ==
  /\ c \in sessions
  /\ sess[c].drainPending
  /\ view' = IF ws[c] = "open"
             THEN [view EXCEPT ![c] = Delivered(@, sess[c].outbound.messages)]
             ELSE view
  /\ sess' = [sess EXCEPT ![c].drainPending = FALSE,
                          ![c].outbound = Unsent(c),
                          ![c].backpressure =
                             IF Unsent(c).messages = << >> THEN "none" ELSE @]
  /\ UNCHANGED <<rooms, nextSessionId, ws, sessions, hdlBySessionId, received>>

\* The idle timer, or a wait of it that was already queued when traffic
\* re-armed it: any session, at any time.
OnIdleTimeout(c) ==
  /\ c \in sessions
  /\ CloseConnection(c)
  /\ UNCHANGED <<rooms, nextSessionId, sessions, sess, hdlBySessionId, view, received>>

\* Five seconds have passed since backpressureSince.
BackpressureAges(c) ==
  /\ c \in sessions
  /\ sess[c].backpressure = "fresh"
  /\ sess' = [sess EXCEPT ![c].backpressure = "old"]
  /\ UNCHANGED <<rooms, nextSessionId, ws, sessions, hdlBySessionId, view, received>>

\* Once a second, over all sessions.
CheckBackpressure ==
  /\ ws' = [c \in Conn |->
              IF c \in sessions /\ sess[c].backpressure = "old" /\ ws[c] = "open"
              THEN "closing" ELSE ws[c]]
  /\ UNCHANGED <<rooms, nextSessionId, sessions, sess, hdlBySessionId, view, received>>

-----------------------------------------------------------------------------
OnMessage(c) ==
  \/ OnForeignMessage(c)
  \/ OnMalformedMessage(c)
  \/ OnUnknownType(c)
  \/ OnClientError(c)
  \/ \E n \in Names, r \in RoomIds, p \in OptProject : HandleHello(c, n, r, p)
  \/ HandlePlayerState(c)
  \/ HandleChat(c)
  \/ HandleLeave(c)
  \/ HandlePing(c)

Next ==
  \/ CheckBackpressure
  \/ \E c \in Conn :
       \/ OnOpen(c)
       \/ OnMessage(c)
       \/ TransportClosed(c)
       \/ OnClose(c)
       \/ Drain(c)
       \/ OnIdleTimeout(c)
       \/ BackpressureAges(c)

Spec == Init /\ [][Next]_vars

\* The io_context runs whatever is posted or due: drains, close handlers, the
\* monitor.  websocketpp ends a closing connection by its close-handshake
\* timeout, an open one may stay open for ever.
Fairness ==
  /\ WF_vars(CheckBackpressure)
  /\ \A c \in Conn :
       /\ WF_vars(Drain(c))
       /\ WF_vars(OnClose(c))
       /\ WF_vars(ws[c] = "closing" /\ TransportClosed(c))

FairSpec == Spec /\ Fairness

-----------------------------------------------------------------------------
(* Properties. *)
Version == 0..MaxVersion

RelayMessage ==
  {ErrorMsg}
    \union {ChatMsg(x) : x \in SessionId}
    \union {LeaveMsg(x) : x \in SessionId}
    \union {StateMsg(x, v) : x \in SessionId, v \in Version}
    \union {WelcomeMsg(x, f) : x \in SessionId, f \in UNION {[X -> Version] : X \in SUBSET SessionId}}

Queued(c) == sess[c].outbound.messages
Joined(c) == c \in sessions /\ sess[c].sessionId # 0

\* Open sessions that joined and were never refused a control message.
Intact(c) == Joined(c) /\ ws[c] = "open" /\ ~sess[c].lost

RelayTypeOK ==
  /\ RegistryTypeOK
  /\ ws \in [Conn -> {"none", "open", "closing", "closed"}]
  /\ sessions \subseteq Conn
  /\ hdlBySessionId \in [SessionId -> Conn \union {NoHdl}]
  /\ received \in 0..MaxReceived
  /\ \A c \in Conn :
       /\ sess[c].sessionId \in SessionId \union {0}
       /\ sess[c].roomId \in RoomIds \union {NoRoom}
       /\ sess[c].version \in Version
       /\ sess[c].outbound.stateIndex \in 0..Len(Queued(c))
       /\ Range(Queued(c)) \subseteq RelayMessage
       /\ view[c].roster \subseteq SessionId
       /\ view[c].heard \in [SessionId -> Version]

\* sessions_, hdlBySessionId_ and the room registry agree between any two
\* handlers: every joined session is one member of its room under its own
\* name and id, and every member leads back to a live session.
MapsAgree ==
  /\ \A c \in sessions : Joined(c) =>
       /\ hdlBySessionId[sess[c].sessionId] = c
       /\ \E m \in rooms[sess[c].roomId].members :
            m.sessionId = sess[c].sessionId /\ m.playerName = sess[c].playerName
  /\ \A r \in RoomIds : \A m \in rooms[r].members :
       /\ hdlBySessionId[m.sessionId] \in sessions
       /\ sess[hdlBySessionId[m.sessionId]].sessionId = m.sessionId
       /\ sess[hdlBySessionId[m.sessionId]].roomId = r
  /\ \A x \in SessionId : hdlBySessionId[x] # NoHdl => hdlBySessionId[x] \in sessions

\* Players of one room that declared a project declared the same one.
RoomsPlayOneProject ==
  \A c, d \in Conn :
    (/\ Joined(c) /\ Joined(d)
     /\ sess[c].roomId = sess[d].roomId
     /\ sess[c].projectId # NoProject /\ sess[d].projectId # NoProject)
       => sess[c].projectId = sess[d].projectId

\* Nothing waits for a drain that nobody posted: a queued message of an open
\* connection always has one coming.
DrainIsPosted ==
  \A c \in sessions : Queued(c) # << >> /\ ws[c] = "open" => sess[c].drainPending

\* A peer that lost no control message hears of its room only after its
\* welcome, however the state slot is overwritten meanwhile.
WelcomeComesFirst ==
  \A c \in Conn : Intact(c) /\ ~view[c].welcomed =>
    /\ view[c].roster = {}
    /\ \A i \in 1..Len(Queued(c)) :
         Queued(c)[i].type \in {"player_state", "chat", "leave"} =>
           \E j \in 1..(i - 1) : Queued(c)[j].type = "welcome"

\* Once a peer was told that a player left, nothing about that player follows:
\* no late state brings it back and no second leave is sent.
LeaveIsLast ==
  \A c \in Conn : Joined(c) => \A i \in 1..Len(Queued(c)) :
    Queued(c)[i].type \in {"player_state", "chat", "leave"} =>
      /\ Queued(c)[i].from \notin view[c].gone
      /\ \A j \in 1..(i - 1) : Queued(c)[j].type = "leave" =>
           Queued(c)[j].from # Queued(c)[i].from

\* The peer's picture once everything queued for it has arrived.
Foreseen(c) == Delivered(view[c], Queued(c))

MemberIds(r) == {m.sessionId : m \in rooms[r].members}
Leavers == {sess[d].sessionId : d \in {e \in Conn : sess[e].left}}

\* A peer that lost nothing will see no player that is not in its room, except
\* one that sent leave and was still listed in a welcome meanwhile; and it is
\* told of a departure only when the player left or is out of the room.
RosterFollowsRoom ==
  \A c \in Conn : Intact(c) =>
    /\ Foreseen(c).roster \ MemberIds(sess[c].roomId) \subseteq Leavers
    /\ Foreseen(c).gone \intersect MemberIds(sess[c].roomId) \subseteq Leavers

\* What a peer knows of a player's position never goes back to an older state.
StatesNeverRewind ==
  [][\A c \in sessions', x \in SessionId : view[c].heard[x] <= view'[c].heard[x]]_vars

\* A peer with nothing left in its queue, and for which no state was dropped by
\* a queue full of control messages, knows the newest state relayed by every
\* player of its room (ADR-004, rule 1).
SettledPeersAreCurrent ==
  \A c, d \in Conn :
    (/\ Intact(c) /\ Queued(c) = << >> /\ ~sess[c].dropped
     /\ Joined(d) /\ sess[c].roomId = sess[d].roomId /\ d # c)
       => view[c].heard[sess[d].sessionId] >= sess[d].broadcast

\* A session that was refused a control message stays marked for the
\* slow-consumer monitor until it is closed (ADR-004, rule 2).
LossLeadsToClose ==
  \A c \in sessions : sess[c].lost /\ ws[c] = "open" => sess[c].backpressure # "none"

\* A welcome never lists a player that has already left.
WelcomeListsOccupants ==
  [][\A c \in Conn :
       sess[c].sessionId = 0 /\ sess'[c].sessionId # 0 =>
         {m.sessionId : m \in rooms'[sess'[c].roomId].members} \intersect Leavers = {}]_vars

\* The registry sees only its own operations, each whole.
ImplementsRegistry == RegistrySpec

\* A connection on its way down is always cleaned up: its member leaves the
\* room and its name and place are free again.
ClosedIsCleanedUp ==
  \A c \in Conn : (ws[c] \in {"closing", "closed"}) ~> (c \notin sessions)

\* A queued message is sent, or its connection goes down.
QueuedIsSent ==
  \A c \in Conn :
    (c \in sessions /\ Queued(c) # << >>) ~> (ws[c] # "open" \/ Queued(c) = << >>)
=============================================================================
