------------------------------ MODULE Mailbox ------------------------------
(***************************************************************************)
(* What an outbound queue promises, with no queue in it (ADR-004, rules 1  *)
(* and 2).  Accepted control messages carry the tickets 1, 2, 3, ... and   *)
(* come out in that order with none missing; states are numbered by the    *)
(* broadcasts that produced them, only the newest accepted one is ever     *)
(* handed out, and each at most once.                                      *)
(***************************************************************************)
EXTENDS Naturals

VARIABLES accepted,  \* tickets given to control messages so far
          taken,     \* ticket of the last control message handed out
          newest,    \* number of the last state accepted
          shown      \* number of the last state handed out

mailVars == <<accepted, taken, newest, shown>>

MailInit == /\ accepted = 0
            /\ taken = 0
            /\ newest = 0
            /\ shown = 0

AcceptControl == /\ accepted' = accepted + 1
                 /\ UNCHANGED <<taken, newest, shown>>

AcceptState == /\ newest' \in Nat
               /\ newest' > newest
               /\ UNCHANGED <<accepted, taken, shown>>

TakeControl == /\ taken < accepted
               /\ taken' = taken + 1
               /\ UNCHANGED <<accepted, newest, shown>>

TakeState == /\ shown < newest
             /\ shown' = newest
             /\ UNCHANGED <<accepted, taken, newest>>

MailNext == AcceptControl \/ AcceptState \/ TakeControl \/ TakeState

MailSpec == MailInit /\ [][MailNext]_mailVars
=============================================================================
