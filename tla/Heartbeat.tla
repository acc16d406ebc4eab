----------------------------- MODULE Heartbeat -----------------------------
(***************************************************************************)
(* The two timers that watch one established connection: the client pings  *)
(* at an interval and drops a server it has not heard for timeoutMs; the   *)
(* server answers and closes a client it has not heard for its idle        *)
(* timeout.  Time passes in ticks.  The network keeps the order, delays a  *)
(* message by at most MaxDelay, and may go dead without a word.  Whoever   *)
(* passes its options on without setting the two times gets neither the    *)
(* defaults nor an error: pings go out at every turn, and no silence is    *)
(* too long (the spread of options puts undefined over the defaults).  A   *)
(* timer fires in the tick it is due; lateness of the event loops is part  *)
(* of the delay of what they send.                                         *)
(***************************************************************************)
EXTENDS Naturals, Sequences

CONSTANTS HeartbeatTicks,     \* heartbeatMs
          ClientTimeout,      \* timeoutMs of the client's watchdog
          ServerTimeout,      \* idleTimeoutSeconds of the server
          MaxDelay            \* bound: delay of the network, one way

ASSUME HeartbeatAssumption ==
  /\ HeartbeatTicks \in Nat \ {0}
  /\ {ClientTimeout, ServerTimeout, MaxDelay} \subseteq Nat
  \* 15 s, 60 s and 60 s leave 45 s for a ping and its pong.
  /\ HeartbeatTicks + 2 * MaxDelay < ClientTimeout
  /\ HeartbeatTicks + 2 * MaxDelay < ServerTimeout

VARIABLES timed,      \* heartbeatMs and timeoutMs are numbers
          clientUp,   \* the transport is ready
          serverUp,   \* the connection is open at the server
          dead,       \* the network delivers nothing any more
          nextPing,   \* ticks until pingTimer fires
          inbound,    \* ticks since lastInboundMs
          idle,       \* ticks since armIdleTimer
          expired,    \* the idle wait has expired, its handler is queued
          pings,      \* ages of the pings on their way
          pongs       \* ages of the pongs on their way

beatVars == <<timed, clientUp, serverUp, dead, nextPing, inbound, idle, expired, pings, pongs>>

\* One turn of the event loop is far less than a tick, and a ping more in a tick
\* changes nothing.
PingInterval == IF timed THEN HeartbeatTicks ELSE 1

\* The welcome has just arrived.
BeatInit == /\ timed \in BOOLEAN
            /\ clientUp = TRUE /\ serverUp = TRUE
            /\ dead = FALSE /\ expired = FALSE
            /\ nextPing = PingInterval
            /\ inbound = 0
            /\ idle \in 0..MaxDelay  \* the hello was handled when the welcome left
            /\ pings = << >> /\ pongs = << >>

InTime(box) == \A i \in DOMAIN box : box[i] < MaxDelay
Older(box) == [i \in DOMAIN box |-> box[i] + 1]

SendPing ==
  /\ clientUp /\ nextPing = 0
  /\ nextPing' = PingInterval
  /\ pings' = IF dead THEN pings ELSE Append(pings, 0)
  /\ UNCHANGED <<timed, clientUp, serverUp, dead, inbound, idle, expired, pongs>>

\* Mutant: a pong counts as activity of the client, not of the server.
HandlePongUnheard ==
  /\ clientUp /\ ~dead /\ pongs # << >>
  /\ pongs' = Tail(pongs)
  /\ UNCHANGED <<timed, clientUp, serverUp, dead, nextPing, inbound, idle, expired, pings>>

HandlePong ==
  /\ clientUp /\ ~dead /\ pongs # << >>
  /\ pongs' = Tail(pongs)
  /\ inbound' = 0
  /\ UNCHANGED <<timed, clientUp, serverUp, dead, nextPing, idle, expired, pings>>

ClientWatchdog ==
  /\ clientUp /\ timed /\ inbound > ClientTimeout
  /\ clientUp' = FALSE
  /\ UNCHANGED <<timed, serverUp, dead, nextPing, inbound, idle, expired, pings, pongs>>

\* Any message re-arms the idle timer; cancelling does not take back a handler
\* that is already queued.
HandlePing ==
  /\ serverUp /\ ~dead /\ pings # << >>
  /\ pings' = Tail(pings)
  /\ pongs' = Append(pongs, 0)
  /\ idle' = 0
  /\ UNCHANGED <<timed, clientUp, serverUp, dead, nextPing, inbound, expired>>

IdleExpires ==
  /\ serverUp /\ idle = ServerTimeout /\ ~expired
  /\ expired' = TRUE
  /\ UNCHANGED <<timed, clientUp, serverUp, dead, nextPing, inbound, idle, pings, pongs>>

\* Mutant: the handler looks at the wrong end of the timeout.
OnIdleTimeoutNever ==
  /\ serverUp /\ expired /\ idle > ServerTimeout
  /\ serverUp' = FALSE
  /\ UNCHANGED <<timed, clientUp, dead, nextPing, inbound, idle, expired, pings, pongs>>

OnIdleTimeout ==
  /\ serverUp /\ expired
  /\ serverUp' = FALSE
  /\ UNCHANGED <<timed, clientUp, dead, nextPing, inbound, idle, expired, pings, pongs>>

\* The path breaks: neither side is told.
NetworkDies ==
  /\ ~dead
  /\ dead' = TRUE
  /\ pings' = << >> /\ pongs' = << >>
  /\ UNCHANGED <<timed, clientUp, serverUp, nextPing, inbound, idle, expired>>

Tick ==
  /\ clientUp \/ serverUp
  /\ InTime(pings) /\ InTime(pongs)
  /\ clientUp => nextPing > 0 /\ (timed => inbound <= ClientTimeout)
  /\ serverUp => idle < ServerTimeout
  /\ nextPing' = IF clientUp THEN nextPing - 1 ELSE nextPing
  /\ inbound' = IF clientUp /\ inbound <= ClientTimeout THEN inbound + 1 ELSE inbound
  /\ idle' = IF serverUp THEN idle + 1 ELSE idle
  /\ pings' = Older(pings) /\ pongs' = Older(pongs)
  /\ UNCHANGED <<timed, clientUp, serverUp, dead, expired>>

BeatNext == SendPing \/ HandlePong \/ ClientWatchdog \/ HandlePing \/ IdleExpires
          \/ OnIdleTimeout \/ NetworkDies \/ Tick

BeatSpec == BeatInit /\ [][BeatNext]_beatVars

\* Time passes and what is due happens; the network need not die.
BeatFairSpec == /\ BeatSpec /\ WF_beatVars(Tick)
                /\ WF_beatVars(SendPing) /\ WF_beatVars(HandlePong) /\ WF_beatVars(HandlePing)
                /\ WF_beatVars(ClientWatchdog) /\ WF_beatVars(IdleExpires) /\ WF_beatVars(OnIdleTimeout)

-----------------------------------------------------------------------------
BeatTypeOK ==
  /\ {timed, clientUp, serverUp, dead, expired} \subseteq BOOLEAN
  /\ nextPing \in 0..HeartbeatTicks
  /\ inbound \in 0..(ClientTimeout + 1)
  /\ idle \in 0..ServerTimeout
  /\ pings \in Seq(0..MaxDelay) /\ pongs \in Seq(0..MaxDelay)

\* An idle player on a slow network is not taken for dead: pings alone keep
\* the server's idle timer and the client's watchdog from closing a connection
\* whose network still delivers, however the delays fall.
BothStayUp == ~dead => clientUp /\ serverUp /\ ~expired

\* When the network dies both sides find out, each by its own timer, if the client
\* was given one.
BothSidesNotice == dead ~> (~serverUp /\ (timed => ~clientUp))

\* transport.ts:24 "Silence timeout in ms; the client drops a silent server (default
\* 60000)."
SilenceIsNoticed == dead ~> ~clientUp

\* An idle player on a slow network is never taken for dead, by either side.
PingsKeepItUp == BeatTypeOK /\ BothStayUp
=============================================================================
