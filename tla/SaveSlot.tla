----------------------------- MODULE SaveSlot -----------------------------
(***************************************************************************)
(* One IndexedDB save slot: the cached open, the transactions of save,     *)
(* load and clear, and what survives a crash.  The database is external:   *)
(* it opens, fails to open or is blocked; transactions on the one store    *)
(* run one after the other in the order they were created; a request       *)
(* succeeds or fails; a transaction whose request succeeded commits later, *)
(* or is aborted (quota).                                                  *)
(***************************************************************************)
EXTENDS Naturals, Sequences, FiniteSetsExt

CONSTANT MaxSlotCalls   \* bound: calls of save, load and clear

ASSUME SlotAssumption == MaxSlotCalls \in Nat

VARIABLES db,         \* dbPromise: "none", "opening", "open" or "rejected"
          made,       \* the calls: a sequence of "save", "load" and "clear"
          waiting,    \* calls that await the open, in order
          queue,      \* calls whose transaction is not finished, in order
          succeeded,  \* the request of the first transaction succeeded
          slot,       \* the committed document: the call that saved it, or 0
          answers,    \* what the calls resolved to
          committed,  \* history: writes that were committed
          crashed

slotVars == <<db, made, waiting, queue, succeeded, slot, answers, committed, crashed>>

Calls == 1..MaxSlotCalls
Unanswered == <<"none">>
Failed == <<"failed">>
Settled(n, what) == answers' = [answers EXCEPT ![n] = what]

SlotInit == /\ db = "none"
            /\ made = << >> /\ waiting = << >> /\ queue = << >>
            /\ succeeded = FALSE
            /\ slot = 0
            /\ answers = [n \in Calls |-> Unanswered]
            /\ committed = {}
            /\ crashed = FALSE

\* Mutant: the promise is not cached, a call that comes while opening is lost.
RequestWhileOpening(op) ==
  /\ ~crashed /\ Len(made) < MaxSlotCalls
  /\ made' = Append(made, op)
  /\ LET n == Len(made) + 1 IN
     CASE db = "none" -> /\ db' = "opening" /\ waiting' = Append(waiting, n)
                         /\ UNCHANGED <<queue, answers>>
       [] db = "open" -> queue' = Append(queue, n) /\ UNCHANGED <<db, waiting, answers>>
       [] OTHER -> UNCHANGED <<db, waiting, queue, answers>>
  /\ UNCHANGED <<succeeded, slot, committed, crashed>>

\* save, load and clear: open() opens once and caches the promise, a rejected
\* one too; a call that finds it rejected warns and resolves without effect.
Request(op) ==
  /\ ~crashed /\ Len(made) < MaxSlotCalls
  /\ made' = Append(made, op)
  /\ LET n == Len(made) + 1 IN
     CASE db \in {"none", "opening"} -> /\ db' = "opening" /\ waiting' = Append(waiting, n)
                                        /\ UNCHANGED <<queue, answers>>
       [] db = "open" -> queue' = Append(queue, n) /\ UNCHANGED <<db, waiting, answers>>
       [] db = "rejected" -> Settled(n, Failed) /\ UNCHANGED <<db, waiting, queue>>
  /\ UNCHANGED <<succeeded, slot, committed, crashed>>

\* Mutant: the calls that waited run in the opposite order.
OpenSucceedsReversed ==
  /\ ~crashed /\ db = "opening"
  /\ db' = "open"
  /\ waiting' = << >>
  /\ queue' = [i \in DOMAIN waiting |-> waiting[Len(waiting) + 1 - i]]
  /\ UNCHANGED <<made, succeeded, slot, answers, committed, crashed>>

OpenSucceeds ==
  /\ ~crashed /\ db = "opening"
  /\ db' = "open"
  /\ waiting' = << >>
  /\ queue' = waiting
  /\ UNCHANGED <<made, succeeded, slot, answers, committed, crashed>>

\* onerror or onblocked.
OpenFails ==
  /\ ~crashed /\ db = "opening"
  /\ db' = "rejected"
  /\ waiting' = << >>
  /\ answers' = [n \in Calls |-> IF \E i \in DOMAIN waiting : waiting[i] = n
                                   THEN Failed ELSE answers[n]]
  /\ UNCHANGED <<made, queue, succeeded, slot, committed, crashed>>

Running == ~crashed /\ queue # << >>
Op == made[Head(queue)]

\* request() resolves at the success of the request.
RequestSucceeds ==
  /\ Running /\ ~succeeded
  /\ succeeded' = TRUE
  /\ Settled(Head(queue), IF Op = "load" THEN <<"read", slot>> ELSE <<"done">>)
  /\ UNCHANGED <<db, made, waiting, queue, slot, committed, crashed>>

RequestFails ==
  /\ Running /\ ~succeeded
  /\ Settled(Head(queue), Failed)
  /\ queue' = Tail(queue)
  /\ UNCHANGED <<db, made, waiting, succeeded, slot, committed, crashed>>

Commits ==
  /\ Running /\ succeeded
  /\ queue' = Tail(queue) /\ succeeded' = FALSE
  /\ slot' = CASE Op = "save" -> Head(queue) [] Op = "clear" -> 0 [] OTHER -> slot
  /\ committed' = IF Op = "load" THEN committed ELSE committed \union {Head(queue)}
  /\ UNCHANGED <<db, made, waiting, answers, crashed>>

Aborts ==
  /\ Running /\ succeeded
  /\ queue' = Tail(queue) /\ succeeded' = FALSE
  /\ UNCHANGED <<db, made, waiting, slot, answers, committed, crashed>>

\* The tab goes away: what has not been committed is gone.
Crash == /\ ~crashed
         /\ crashed' = TRUE
         /\ queue' = << >> /\ waiting' = << >> /\ succeeded' = FALSE
         /\ UNCHANGED <<db, made, slot, answers, committed>>

SlotNext == \/ \E op \in {"save", "load", "clear"} : Request(op)
            \/ OpenSucceeds \/ OpenFails
            \/ RequestSucceeds \/ RequestFails \/ Commits \/ Aborts \/ Crash

SlotSpec == SlotInit /\ [][SlotNext]_slotVars

\* The database answers every request it was given and ends every transaction.
SlotFairSpec == /\ SlotSpec
                /\ WF_slotVars(OpenSucceeds \/ OpenFails)
                /\ WF_slotVars(RequestSucceeds \/ RequestFails)
                /\ WF_slotVars(Commits \/ Aborts)

-----------------------------------------------------------------------------
SlotTypeOK ==
  /\ db \in {"none", "opening", "open", "rejected"}
  /\ made \in Seq({"save", "load", "clear"})
  /\ waiting \in Seq(Calls) /\ queue \in Seq(Calls)
  /\ slot \in 0..MaxSlotCalls
  /\ committed \subseteq Calls
  /\ {succeeded, crashed} \subseteq BOOLEAN
  /\ \A n \in Calls : \/ answers[n] \in {Unanswered, Failed, <<"done">>}
                      \/ \E v \in 0..MaxSlotCalls : answers[n] = <<"read", v>>

\* The last write before call m that reached the database, 0 when none did.
LastWrite(m) ==
  LET writes == {n \in committed : n < m}
  IN IF writes = {} \/ made[Max(writes)] = "clear" THEN 0 ELSE Max(writes)

\* A load returns what the calls before it left, never a document saved or
\* cleared by a later call, however they pile up behind the open.
AnswersFollowWrites ==
  \A m \in Calls, v \in 0..MaxSlotCalls : answers[m] = <<"read", v>> => v = LastWrite(m)

\* Degraded or not, a call is always answered (indexeddb-storage.ts:9): the
\* title screen and continue, which await it, never hang on a blocked open.
EveryCallIsAnswered ==
  \A n \in Calls : Len(made) >= n ~> (answers[n] # Unanswered \/ crashed)

\* storage.ts:19 "Persist `data`. Resolves when durable": what was acknowledged
\* before the crash is in the database after it.
AckedIsDurable == crashed => \A n \in DOMAIN made :
                    made[n] = "save" /\ answers[n] = <<"done">> => n \in committed

\* A load returns what the calls before it left, however they pile up.
LoadsFollowWrites == SlotTypeOK /\ AnswersFollowWrites
=============================================================================
