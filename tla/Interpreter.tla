----------------------------- MODULE Interpreter -----------------------------
(* The event interpreter (core/src/interpreter/interpreter.ts), its commands and *)
(* registry (commands.ts) and the variables and switches they change             *)
(* (game-state.ts). A run is split at its commands: each of them publishes on    *)
(* the bus, and a listener may change the state before the next one. Positions   *)
(* are one coordinate; texts, sounds, options and targets are one payload.       *)
EXTENDS Integers, Sequences, SequencesExt

CONSTANTS
    Pages,        \* the event's pages in order, records [condition, commands]
    Variables, Switches, Entities, Player,
    Commands,     \* command names a registry may know
    Names0,       \* the names registered at the start
    Values,       \* values a listener may write
    MaxRuns,      \* bound: runs of the event
    MaxEdits,     \* bound: registrations, cache clears and listener writes
    MaxValue      \* bound: size of a variable or coordinate

ASSUME InterpreterAssumption ==
    /\ Names0 \subseteq Commands /\ Player \in Entities
    /\ {MaxRuns, MaxEdits, MaxValue} \subseteq Nat /\ Values \subseteq -MaxValue..MaxValue
    /\ Pages \in Seq(ToSet(Pages))
    /\ \A page \in ToSet(Pages) :
         /\ page.commands \in Seq(ToSet(page.commands))
         /\ \A line \in ToSet(page.commands) :
              /\ line.cmd \in Commands
              /\ line.valid /\ line.cmd = "setSwitch" => line.value \in BOOLEAN

VARIABLES
    variables, switches,   \* GameState
    position,              \* the transforms of the scene's entities
    registry,              \* CommandRegistry: a name to its factory's version, 0 when unknown
    commandCache,                 \* commandCache: a page to its commands as built, << >> when not built
    run,                   \* the run of runEvent: page, commands left and effect log
    bus,                   \* ghost: what this run has published
    base,                  \* ghost: variables, switches and position when the run began
    touched,               \* ghost: variables a listener has written since
    edits, runs,           \* bounds
    fresh                  \* ghost: the registry when the cache was last cleared

interpreterVars == <<variables, switches, position, registry, commandCache, run, bus, base, touched, edits, runs, fresh>>

IdleRun == [page |-> 0, rest |-> << >>, log |-> << >>, ended |-> "none"]
Snapshot == [variables |-> variables, switches |-> switches, position |-> position]

InterpreterInit ==
    /\ variables = [v \in Variables |-> 0] /\ switches = [w \in Switches |-> FALSE]
    /\ position = [e \in Entities |-> 0]
    /\ registry = [c \in Commands |-> IF c \in Names0 THEN 1 ELSE 0]
    /\ commandCache = [p \in DOMAIN Pages |-> << >>]
    /\ run = IdleRun /\ bus = << >> /\ base = Snapshot /\ touched = {} /\ edits = 0 /\ runs = 0 /\ fresh = registry

Running == run.rest # << >>

-----------------------------------------------------------------------------
Compare(op, a, b) ==
    CASE op = "eq" -> a = b [] op = "ne" -> a # b
      [] op = "gt" -> a > b [] op = "gte" -> a >= b
      [] op = "lt" -> a < b [] OTHER -> a <= b

\* evaluateCondition: null, a switch, or a variable comparison.
Holds(c) ==
    CASE c.kind = "null" -> TRUE
      [] c.kind = "switch" -> switches[c.switch] = c.value
      [] OTHER -> Compare(c.op, variables[c.variable], c.value)

ActivePages == {p \in DOMAIN Pages : Holds(Pages[p].condition)}

\* selectPage: the first active page.
SelectPage == CHOOSE p \in ActivePages : \A q \in ActivePages : p <= q

\* CommandRegistry.build: an unknown name and an argument of the wrong kind throw.
Buildable(line) == registry[line.cmd] # 0 /\ line.valid
Build(line) == [line |-> line, version |-> registry[line.cmd]]

\* Nothing matches: no page runs.
RunNothing ==
    /\ ~Running /\ runs < MaxRuns /\ ActivePages = {}
    /\ runs' = runs + 1 /\ run' = [IdleRun EXCEPT !.ended = "no page"] /\ bus' = << >> /\ base' = Snapshot /\ touched' = {}
    /\ UNCHANGED <<variables, switches, position, registry, commandCache, edits, fresh>>

\* A mutant: lines are built up to the one that throws, and those run.
RunEventPrefix ==
    /\ ~Running /\ runs < MaxRuns /\ ActivePages # {}
    /\ LET p == SelectPage
           known == SelectSeq(Pages[p].commands, Buildable)
           built == [i \in DOMAIN known |-> Build(known[i])]
       IN  run' = [IdleRun EXCEPT !.page = p, !.rest = built,
                               !.ended = IF built = << >> THEN "threw" ELSE "none"]
    /\ runs' = runs + 1 /\ bus' = << >> /\ base' = Snapshot /\ touched' = {}
    /\ UNCHANGED <<variables, switches, position, registry, commandCache, edits, fresh>>

\* runEvent up to the first command: the page is selected and all its commands
\* are built, from the cache or now; a line that cannot be built throws.
RunEvent ==
    /\ ~Running /\ runs < MaxRuns /\ ActivePages # {}
    /\ LET p == SelectPage
           lines == Pages[p].commands
           ok == commandCache[p] # << >> \/ \A i \in DOMAIN lines : Buildable(lines[i])
           built == IF commandCache[p] # << >> THEN commandCache[p] ELSE [i \in DOMAIN lines |-> Build(lines[i])]
       IN  /\ commandCache' = IF ok THEN [commandCache EXCEPT ![p] = built] ELSE commandCache
           /\ run' = [IdleRun EXCEPT !.page = p, !.rest = IF ok THEN built ELSE << >>,
                                  !.ended = IF ~ok THEN "threw"
                                            ELSE IF lines = << >> THEN "done" ELSE "none"]
    /\ runs' = runs + 1 /\ bus' = << >> /\ base' = Snapshot /\ touched' = {}
    /\ UNCHANGED <<variables, switches, position, registry, edits, fresh>>

Log(effect) ==
    LET rest == Tail(run.rest)
    IN  run' = [run EXCEPT !.rest = rest, !.log = Append(@, effect),
                           !.ended = IF rest = << >> THEN "done" ELSE "none"]
Publish(event) == bus' = Append(bus, event)

Line == run.rest[1].line
Reached(c) == Running /\ Line.cmd = c

\* showText, playSound, transfer, showChoices and custom commands only publish.
ExecutePublishing ==
    /\ Running /\ Line.cmd \notin {"setVariable", "setSwitch", "walk", "move"}
    /\ Log([kind |-> "event", cmd |-> Line.cmd, version |-> run.rest[1].version])
    /\ Publish(Line.cmd)
    /\ UNCHANGED <<base, touched, variables, switches, position, registry, commandCache, edits, runs, fresh>>

ExecuteSetVariable ==
    /\ Reached("setVariable")
    /\ LET v == Line.name
           value == IF Line.op = "set" THEN Line.value ELSE variables[v] + Line.value
       IN  /\ value \in -MaxValue..MaxValue
           /\ variables' = [variables EXCEPT ![v] = value]
           /\ Log([kind |-> "variable", name |-> v, result |-> value])
    /\ Publish("variable_changed")
    /\ UNCHANGED <<base, touched, switches, position, registry, commandCache, edits, runs, fresh>>

ExecuteSetSwitch ==
    /\ Reached("setSwitch")
    /\ switches' = [switches EXCEPT ![Line.name] = Line.value]
    /\ Log([kind |-> "switch", name |-> Line.name, value |-> Line.value])
    /\ Publish("switch_changed")
    /\ UNCHANGED <<base, touched, variables, position, registry, commandCache, edits, runs, fresh>>

Mover == IF Line.cmd = "walk" THEN Player ELSE Line.target

\* walk and move translate an entity; walk, the player's, is published.
ExecuteMove ==
    /\ Running /\ Line.cmd \in {"walk", "move"} /\ Mover \in Entities
    /\ LET to == position[Mover] + Line.delta
       IN  /\ to \in -MaxValue..MaxValue
           /\ position' = [position EXCEPT ![Mover] = to]
           /\ Log([kind |-> "move", entity |-> Mover, from |-> position[Mover], to |-> to])
    /\ bus' = IF Line.cmd = "walk" THEN Append(bus, "walk") ELSE bus
    /\ UNCHANGED <<base, touched, variables, switches, registry, commandCache, edits, runs, fresh>>

\* A mutant: a target that is not in the scene is passed over.
ExecuteMoveSkips ==
    /\ Running /\ Line.cmd = "move" /\ Mover \notin Entities
    /\ run' = [run EXCEPT !.rest = Tail(@), !.ended = IF Tail(run.rest) = << >> THEN "done" ELSE "none"]
    /\ UNCHANGED <<base, touched, variables, switches, position, registry, commandCache, bus, edits, runs, fresh>>

\* The target is not in the scene: the command throws and the page stops there.
ExecuteMoveThrows ==
    /\ Running /\ Line.cmd = "move" /\ Mover \notin Entities
    /\ run' = [run EXCEPT !.rest = << >>, !.ended = "threw"]
    /\ UNCHANGED <<base, touched, variables, switches, position, registry, commandCache, bus, edits, runs, fresh>>

-----------------------------------------------------------------------------
Edit == edits < MaxEdits /\ edits' = edits + 1

\* CommandRegistry.register adds or replaces a factory.
Register(c) ==
    /\ ~Running /\ Edit
    /\ registry' = [registry EXCEPT ![c] = @ + 1]
    /\ UNCHANGED <<base, touched, variables, switches, position, commandCache, run, bus, runs, fresh>>

ClearCommandCache ==
    /\ ~Running /\ Edit
    /\ commandCache' = [p \in DOMAIN Pages |-> << >>] /\ fresh' = registry
    /\ UNCHANGED <<base, touched, variables, switches, position, registry, run, bus, runs>>

\* A listener of the bus, or the game between two runs, writes a variable
\* (answerChoice does).
SetVariable(v, value) ==
    /\ Edit
    /\ variables' = [variables EXCEPT ![v] = value] /\ touched' = touched \union {v}
    /\ UNCHANGED <<switches, position, registry, commandCache, run, bus, base, runs, fresh>>

InterpreterNext ==
    \/ RunNothing \/ RunEvent \/ ClearCommandCache
    \/ ExecutePublishing \/ ExecuteSetVariable \/ ExecuteSetSwitch
    \/ ExecuteMove \/ ExecuteMoveThrows
    \/ \E c \in Commands : Register(c)
    \/ \E v \in Variables, value \in Values : SetVariable(v, value)

InterpreterSpec == InterpreterInit /\ [][InterpreterNext]_interpreterVars

-----------------------------------------------------------------------------
\* The effects on a variable, a switch and an entity; the last of them counts.
LastEffect(those, i) == i \in those /\ \A j \in those : j <= i
Sets(v) == {i \in DOMAIN run.log : run.log[i].kind = "variable" /\ run.log[i].name = v}
Flips(w) == {i \in DOMAIN run.log : run.log[i].kind = "switch" /\ run.log[i].name = w}
Moves(e) == {i \in DOMAIN run.log : run.log[i].kind = "move" /\ run.log[i].entity = e}

\* The state keeps its types (game-state.ts, commands.ts).
InterpreterTypeOK ==
    /\ variables \in [Variables -> -MaxValue..MaxValue] /\ switches \in [Switches -> BOOLEAN]
    /\ position \in [Entities -> -MaxValue..MaxValue] /\ registry \in [Commands -> Nat]
    /\ run.page \in 0..Len(Pages) /\ run.ended \in {"none", "no page", "threw", "done"}
    /\ Running => run.ended = "none"

\* The effect log tells the whole story, of a page that threw in its middle too:
\* the state is the one at the start of the run with the logged effects applied
\* (execute of every command, GameEffect).
StateFollowsLog ==
    /\ \A v \in Variables \ touched :
         \/ Sets(v) = {} /\ variables[v] = base.variables[v]
         \/ \E i \in Sets(v) : LastEffect(Sets(v), i) /\ variables[v] = run.log[i].result
    /\ \A w \in Switches :
         \/ Flips(w) = {} /\ switches[w] = base.switches[w]
         \/ \E i \in Flips(w) : LastEffect(Flips(w), i) /\ switches[w] = run.log[i].value
    /\ \A e \in Entities :
         \/ Moves(e) = {} /\ position[e] = base.position[e]
         \/ \E i \in Moves(e) : LastEffect(Moves(e), i) /\ position[e] = run.log[i].to

\* A page that cannot be built does nothing: an unknown command at its end stops
\* the first one too ("unknown names fail fast", commands.ts:276, runEvent).
UnknownRunsNothing ==
    run.page # 0 /\ (\E i \in DOMAIN Pages[run.page].commands :
                        LET line == Pages[run.page].commands[i]
                        IN  ~line.valid \/ registry[line.cmd] = 0)
        => run.log = << >> /\ bus = << >>

\* interpreter.ts:115 "call this to pick up late registrations": a run uses no
\* factory older than the ones there were when the cache was last cleared.
ClearedCacheIsFresh ==
    \A i \in DOMAIN run.rest : run.rest[i].version >= fresh[run.rest[i].line.cmd]

\* A run uses no factory older than the last clearing of the cache, a page with an
\* unknown command does nothing, and the effect log accounts for the state, also of a
\* page that threw in its middle.
RunIsAccounted == /\ InterpreterTypeOK
                  /\ ClearedCacheIsFresh /\ UnknownRunsNothing /\ StateFollowsLog

\* A page ends as done only after every one of its commands was executed: an
\* entity that is missing is never passed over in silence (translateEntity).
DoneMeansAll ==
    [][run'.ended = "done" /\ run.ended = "none" /\ Running
         => Len(run.rest) = 1 /\ Len(run'.log) = Len(run.log) + 1]_interpreterVars
=============================================================================
