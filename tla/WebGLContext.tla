---------------------------- MODULE WebGLContext ----------------------------
(* How a renderer comes to be and what the loss of its WebGL context does to it *)
(* (renderer/src/factory.ts, capability.ts, webgl/webgl-renderer.ts): the browser*)
(* may take the context away and give it back, setting up the restored context   *)
(* may fail, and a watchdog armed at construction looks once whether it is gone. *)
EXTENDS Naturals, Sequences, SequencesExt

CONSTANTS
    MaxLosses          \* bound: contexts the browser takes away

ASSUME ContextAssumption == MaxLosses \in Nat

VARIABLES
    held,       \* the renderer the game was given, and draws with to the end
    current,    \* DefaultRendererFactory.currentValue
    lost, disposed, watchdog,
    generation, \* the context's GPU resources: those of an earlier one are void
    swaps       \* ghost: how often a hot swap was asked for

contextVars == <<held, current, lost, disposed, watchdog, generation, swaps>>

Backend == {"webgl2", "webgl1", "canvas2d"}
Unmade == "unmade"
OnWebGL == held \in {"webgl2", "webgl1"}
Listening == OnWebGL /\ ~disposed     \* the context event listeners are in place

ContextInit ==
    /\ held = Unmade /\ current = Unmade
    /\ lost = FALSE /\ disposed = FALSE /\ watchdog = FALSE
    /\ generation = 0 /\ swaps = 0

-----------------------------------------------------------------------------
\* detectCapability: the first kind, in this order, of which the canvas has a
\* context.
ProbeOrder == <<"webgl2", "webgl1", "canvas2d">>
Detected(k, available) ==
    \E i \in DOMAIN ProbeOrder : /\ k = ProbeOrder[i] /\ k \in available
                                 /\ \A j \in 1..(i - 1) : ProbeOrder[j] \notin available

\* create: with no context at all it throws.
Create(available) ==
    /\ held = Unmade
    /\ \E k \in Backend : Detected(k, available) /\ held' = k /\ current' = k
    /\ watchdog' = (held' \in {"webgl2", "webgl1"})
    /\ UNCHANGED <<lost, disposed, generation, swaps>>

\* createRendererFromContext: no watchdog, and the factory knows no renderer yet.
CreateFromContext(kind) ==
    /\ held = Unmade /\ held' = kind
    /\ UNCHANGED <<current, watchdog, lost, disposed, generation, swaps>>

\* onContextLost.
ContextLost ==
    /\ Listening /\ ~lost /\ lost' = TRUE
    /\ generation < MaxLosses /\ generation' = generation + 1
    /\ UNCHANGED <<held, current, disposed, watchdog, swaps>>

\* handleUnrecoverableLoss: dispose, then the factory swaps to Canvas2D, which
\* fails (and is logged) when the replacement canvas has no 2D context.
Unrecoverable(swapped) ==
    /\ ~disposed
    /\ lost' = TRUE /\ disposed' = TRUE /\ watchdog' = FALSE
    /\ swaps' = swaps + 1
    /\ current' = IF swapped THEN "canvas2d" ELSE current
    /\ UNCHANGED <<held, generation>>

\* onContextRestored, when initGL works.
ContextRestored ==
    /\ Listening /\ lost /\ lost' = FALSE
    /\ UNCHANGED <<held, current, disposed, watchdog, generation, swaps>>

\* onContextRestored, when initGL throws.
RestoreFails(swapped) == Listening /\ lost /\ Unrecoverable(swapped)

\* The watchdog's one shot.
WatchdogFires(swapped) ==
    /\ watchdog
    /\ \/ lost /\ Unrecoverable(swapped)
       \/ ~lost /\ watchdog' = FALSE
          /\ UNCHANGED <<held, current, lost, disposed, generation, swaps>>

\* dispose, called from outside.
Dispose ==
    /\ Listening /\ disposed' = TRUE /\ watchdog' = FALSE
    /\ UNCHANGED <<held, current, lost, generation, swaps>>

ContextNext ==
    \/ \E a \in SUBSET Backend : Create(a)
    \/ \E k \in Backend : CreateFromContext(k)
    \/ ContextLost \/ ContextRestored \/ Dispose
    \/ \E ok \in BOOLEAN : RestoreFails(ok) \/ WatchdogFires(ok)

ContextSpec ==
    ContextInit /\ [][ContextNext]_contextVars
    /\ WF_contextVars(\E ok \in BOOLEAN : WatchdogFires(ok))

-----------------------------------------------------------------------------
\* A failed restore and the watchdog may both find the context gone: the swap is
\* asked for once, and the renderer that gave up stays dark even when the browser
\* brings its context back (handleUnrecoverableLoss, dispose).
SwapsOnce == swaps <= 1 /\ (swaps = 1 => lost /\ disposed /\ ~watchdog)

\* webgl-renderer.ts:69 "fire hot-swap if the context is still lost after N ms": no
\* loss goes unanswered in a renderer with a watchdog.
LossIsWatched == (lost /\ current = held) ~> (~lost \/ disposed)

\* ADR-002.md:94-95 "on unrecoverable loss it re-runs capability detection and can
\* hot-swap": after the swap the game draws with the renderer that can draw.
SwapReachesTheGame == current = "canvas2d" => held = "canvas2d"
=============================================================================
