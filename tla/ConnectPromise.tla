--------------------------- MODULE ConnectPromise ---------------------------
(***************************************************************************)
(* What connect() promises its caller, with no socket, timer or message in *)
(* it: a connection is used once, it goes forward only, the promise        *)
(* resolves at the moment the connection comes up and at no other, and a   *)
(* connection that goes down before that rejects it.                       *)
(***************************************************************************)
VARIABLES phase,    \* "idle", "opening", "up" or "down"
          outcome   \* of the promise: "none", "pending", "resolved" or "rejected"

promiseVars == <<phase, outcome>>

PromiseInit == phase = "idle" /\ outcome = "none"

Start == /\ phase = "idle"
         /\ \/ phase' = "opening" /\ outcome' = "pending"
            \/ phase' = "down" /\ outcome' = "rejected"

ComeUp == /\ phase = "opening"
          /\ phase' = "up"
          /\ outcome' = "resolved"

\* The caller may hear of the failure only when the socket has closed.
Fail == /\ phase = "opening"
        /\ phase' = "down"
        /\ outcome' \in {"pending", "rejected"}

Report == /\ phase = "down" /\ outcome = "pending"
          /\ outcome' = "rejected"
          /\ UNCHANGED phase

GoDown == /\ phase = "up"
          /\ phase' = "down"
          /\ UNCHANGED outcome

PromiseNext == Start \/ ComeUp \/ Fail \/ Report \/ GoDown

PromiseSpec == PromiseInit /\ [][PromiseNext]_promiseVars
=============================================================================
