--------------------------------- MODULE MCPlay ---------------------------------
(* What the player touches, for TLC: devices, map scene and game loop.  As in   *)
(* MCSession a behaviour plays one part and the others wait.                    *)
EXTENDS InputDevices, MapScene, GameLoop

VARIABLES part, walk, walkSaved, walkLoading, walkInputs, walkHeldFor

\* Two keys for one direction, and a pad for it as well.
Keys == [ArrowLeft |-> "left", KeyA |-> "left", ArrowDown |-> "down"]
KeyNames == DOMAIN Keys
Ways == {"right", "left", "down"}
PadWays == {"left"}

\* A corridor with a bay at each end: a solid NPC walks along it, and a trigger
\* without a body lies in the left bay.
Corridor == {<<0, 0>>, <<1, 0>>, <<2, 0>>, <<0, 1>>, <<2, 1>>}
WestEnd == <<0, 0>>
Guard == [at |-> <<2, 0>>, solid |-> TRUE, route |-> <<<<2, 0>>, <<1, 0>>>>,
          idle |-> 2, trigger |-> TRUE]
Plate == [at |-> <<0, 1>>, solid |-> FALSE, route |-> << >>, idle |-> 0, trigger |-> FALSE]
GuardAndPlate == <<Guard, Plate>>
Pages == {<<"say", "ask">>, <<"flip">>, <<"say">>}

\* The same map under the fairness of the frames, with both devices and one press.
Rounds == INSTANCE MapScene WITH
            Dir <- {"right"}, Devices <- 2, MaxInputs <- 1,
            s <- walk, saved <- walkSaved, loading <- walkLoading, inputsMade <- walkInputs,
            heldFor <- walkHeldFor

\* What a page emits is what its commands do one after the other.
Emit(x, command) == CASE command = "say" -> [x EXCEPT !.dialogue = @ + 1]
                      [] command = "ask" -> [x EXCEPT !.choice = <<0>>]
                      [] OTHER -> [x EXCEPT !.switch = ~@]
Talks == [dialogue : 0..1, choice : {<< >>, <<0>>}, switch : BOOLEAN]
ASSUME EmittedIsFold == \A x \in Talks, n \in 0..3 :
                          \A script \in [1..n -> {"say", "ask", "flip"}] :
                            Emitted(x, script) = FoldLeft(Emit, x, script)

roundVars == <<walk, walkSaved, walkLoading, walkInputs, walkHeldFor>>
vars == <<part, deviceVars, sceneVars, roundVars, loopVars>>

Init == /\ part \in {"devices", "scene", "rounds", "loop"}
        /\ DeviceInit /\ SceneInit /\ Rounds!SceneInit /\ LoopInit

\* A step of one part.
DevicesMove == /\ part = "devices" /\ DeviceNext
               /\ UNCHANGED <<part, sceneVars, roundVars, loopVars>>
ScenePlays == /\ part = "scene" /\ SceneNext
              /\ UNCHANGED <<part, deviceVars, roundVars, loopVars>>
RoundsGo(A) == part = "rounds" /\ A /\ UNCHANGED <<part, deviceVars, sceneVars, loopVars>>
LoopRuns == /\ part = "loop" /\ LoopNext
            /\ UNCHANGED <<part, deviceVars, sceneVars, roundVars>>

Next == DevicesMove \/ ScenePlays \/ RoundsGo(Rounds!SceneNext) \/ LoopRuns

\* The browser goes on asking for frames, and each makes an update.
Spec == Init /\ [][Next]_vars /\ WF_vars(RoundsGo(Rounds!Update))

-----------------------------------------------------------------------------
\* A patrol visits every waypoint again and again, wherever the player stands.
PatrolGoesRound == part = "rounds" => Rounds!PatrolVisitsAll
=============================================================================
