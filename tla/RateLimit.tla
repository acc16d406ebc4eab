------------------------------- MODULE RateLimit -------------------------------
(* Two token buckets of one size and rate: the client's lets a message out      *)
(* (transport.ts, network-client.ts), the server's lets it in                   *)
(* (rate_limiter.cpp, server.cpp), and a network between them that keeps the    *)
(* order but not the distances.  The tick refills one part of a token.  Both    *)
(* buckets of the code refill lazily, from the time that passed since the last  *)
(* look; what counts is what a look finds, and that is the level kept here.     *)
EXTENDS Integers, Sequences

CONSTANTS Burst,       \* the capacity of both buckets, in tokens
          PerToken,    \* the ticks that refill one token
          MaxHold,     \* bound: the ticks the network may take
          MaxFlight,   \* bound: the messages on their way
          MaxHits      \* the refusals that end a connection

ASSUME RateLimitAssumption == /\ {Burst, PerToken, MaxHits} \subseteq Nat \ {0}
                              /\ {MaxHold, MaxFlight} \subseteq Nat

VARIABLES credit,      \* the client's bucket, in parts
          allowance,   \* the server's
          flight,      \* the ages of the messages on their way, oldest first
          late,        \* history: the longest a message that arrived had been on its way
          hits         \* chatRateLimitHits

limitVars == <<credit, allowance, flight, late, hits>>
FullBucket == Burst * PerToken

LimitInit == /\ credit = FullBucket /\ allowance = FullBucket
             /\ flight = << >> /\ late = 0 /\ hits = 0

\* The level of a bucket one tick later.
Refill(level) == IF level < FullBucket THEN level + 1 ELSE level

TimePasses ==
    /\ \A i \in DOMAIN flight : flight[i] < MaxHold
    /\ credit' = Refill(credit) /\ allowance' = Refill(allowance)
    /\ flight' = [i \in DOMAIN flight |-> flight[i] + 1]
    /\ UNCHANGED <<late, hits>>

\* Mutant: what is left of a token lets a message out.
TryTakeRest ==
    /\ hits < MaxHits /\ Len(flight) < MaxFlight
    /\ credit > 0
    /\ credit' = IF credit >= PerToken THEN credit - PerToken ELSE 0
    /\ flight' = Append(flight, 0)
    /\ UNCHANGED <<allowance, late, hits>>

\* sendChat and flushPendingState: without a whole token nothing is sent.
TryTake ==
    /\ hits < MaxHits /\ Len(flight) < MaxFlight
    /\ credit >= PerToken
    /\ credit' = credit - PerToken
    /\ flight' = Append(flight, 0)
    /\ UNCHANGED <<allowance, late, hits>>

Max2(a, b) == IF a > b THEN a ELSE b
Arrives == /\ hits < MaxHits /\ flight # << >>
           /\ flight' = Tail(flight) /\ late' = Max2(late, Head(flight))
           /\ UNCHANGED credit

\* handleChat: a token pays for the message.
TryConsume == /\ Arrives
              /\ allowance >= PerToken
              /\ allowance' = allowance - PerToken
              /\ UNCHANGED hits

\* handleChat: no token, the message is refused; the last refusal closes.  Nothing
\* resets the count.
ChatIsRefused == /\ Arrives
                 /\ allowance < PerToken
                 /\ hits' = hits + 1
                 /\ UNCHANGED allowance

LimitNext == TimePasses \/ TryTake \/ TryConsume \/ ChatIsRefused
LimitSpec == LimitInit /\ [][LimitNext]_limitVars
-----------------------------------------------------------------------------
LimitTypeOK == /\ credit \in 0..FullBucket /\ allowance \in 0..FullBucket
               /\ flight \in Seq(0..MaxHold) /\ Len(flight) <= MaxFlight
               /\ late \in 0..MaxHold /\ hits \in 0..MaxHits

\* How long the network has held a message, delivered or next to be.
Held == IF flight = << >> THEN late ELSE Max2(late, Head(flight))

\* A client that keeps to its own limit is never far over the server's: what it has
\* under way and may still send at once finds its tokens, but for as many parts as the
\* network held a message back (transport.ts, rate_limiter.cpp: one burst, one rate).
ShortByTheDelay == credit + PerToken * Len(flight) <= allowance + Held

\* So nobody is refused on a network that keeps the distances (server.cpp, handleChat).
HonestIsHeard == LimitTypeOK /\ ShortByTheDelay /\ (hits > 0 => late > 0)
=============================================================================
