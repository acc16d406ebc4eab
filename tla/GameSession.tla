---------------------------- MODULE GameSession ----------------------------
(***************************************************************************)
(* A game session: the title screen, the game handle with its transfers,   *)
(* saves, loads and continue, and the scene manager.  Storage and the map  *)
(* loader are asynchronous: a call joins their queue, and everything after *)
(* the await is the answer's action.  Storage answers in the order of the  *)
(* calls (one object store, overlapping transactions); loaders answer in   *)
(* any order or fail.                                                      *)
(***************************************************************************)
EXTENDS Naturals, Sequences, FiniteSets

CONSTANTS Maps, FirstMap,
          NoSave,
          MaxGameCalls   \* bound: calls by the player or the owner of the game

ASSUME SessionAssumption == /\ FirstMap \in Maps /\ MaxGameCalls \in Nat
                            /\ NoSave \notin [map : Maps, n : Nat]

VARIABLES title,      \* the title screen is up: "off", "visible" or "hidden"
          scenes,     \* every MapScene built, in order
          current,    \* currentScene of the game, an index of scenes
          mapId,      \* currentMapId of the game
          managed,    \* the scene manager's current, 0 for null
          running, disposed,
          inFlight,   \* transferInFlight
          world,      \* the save the shared GameState was loaded from, 0 for none
          saved,      \* the stored document
          storage,    \* calls waiting for storage, with what follows the await
          loaders,    \* calls waiting for the map loader
          calls,      \* calls made so far; also numbers the saves
          begun,      \* history: sessions begun from the title screen
          changedBy   \* history: what changed the scene last

gameVars == <<title, scenes, current, mapId, managed, running, disposed, inFlight,
          world, saved, storage, loaders, calls, begun, changedBy>>
stage == <<scenes, current, mapId, managed, changedBy>>

SaveDoc(map, n) == [map |-> map, n |-> n]
NewScene(map) == [map |-> map, entered |-> FALSE, from |-> 0]
Read(next, by, scene, n) == [op |-> "read", next |-> next, by |-> by, scene |-> scene, n |-> n]
Write(map, n) == [op |-> "write", doc |-> SaveDoc(map, n)]

\* boot without a title screen starts the game, whose first scene loads the
\* latest save by itself; with one the game waits for the player.
GameInit == /\ title \in {"off", "visible"}
            /\ scenes = << [NewScene(FirstMap) EXCEPT !.entered = (title = "off")] >>
            /\ current = 1 /\ mapId = FirstMap
            /\ managed = (IF title = "off" THEN 1 ELSE 0)
            /\ running = (title = "off")
            /\ disposed = FALSE /\ inFlight = FALSE
            /\ world = 0
            /\ saved \in {NoSave} \union {SaveDoc(m, 1) : m \in Maps}
            /\ storage = (IF title = "off" THEN << Read("load", "scene", 1, 0) >> ELSE << >>)
            /\ loaders = {}
            /\ calls = 1 /\ begun = 0 /\ changedBy = "none"

Call == calls < MaxGameCalls /\ calls' = calls + 1
Ask(request) == storage' = Append(storage, request)

-----------------------------------------------------------------------------
(* SceneManager                                                             *)

\* Mutant: enters the next scene without leaving the last.
ChangeWithoutExit(all, next) ==
  /\ scenes' = [all EXCEPT ![next].entered = TRUE]
  /\ managed' = next

\* change(next): the scenes `all` with the current one exited and next entered.
Change(all, next) ==
  /\ scenes' = [s \in DOMAIN all |-> [all[s] EXCEPT !.entered =
                  IF s = next THEN TRUE ELSE IF s = managed THEN FALSE ELSE @]]
  /\ managed' = next

\* game.start
Start == IF running THEN UNCHANGED <<running, stage>>
         ELSE /\ running' = TRUE
              /\ IF managed = 0 THEN Change(scenes, 1) ELSE UNCHANGED <<scenes, managed>>
              /\ UNCHANGED <<current, mapId, changedBy>>

\* buildNextScene and the swap that follows it.
SwitchTo(map, why) ==
  /\ Change(Append(scenes, NewScene(map)), Len(scenes) + 1)
  /\ current' = Len(scenes) + 1
  /\ mapId' = map
  /\ changedBy' = why

-----------------------------------------------------------------------------
(* Calls                                                                    *)

\* game.save, or the S key of the current scene.
Save == /\ ~disposed /\ Call
        /\ Ask(Write(scenes[current].map, calls + 1))
        /\ UNCHANGED <<title, stage, running, disposed, inFlight, world, saved, loaders, begun>>

\* game.load, or the L key of the current scene.
Load == /\ ~disposed /\ Call
        /\ Ask(Read("load", "scene", current, calls))
        /\ UNCHANGED <<title, stage, running, disposed, inFlight, world, saved, loaders, begun>>

Continue == /\ ~disposed /\ Call
            /\ Ask(Read("continue", "api", current, calls))
            /\ UNCHANGED <<title, stage, running, disposed, inFlight, world, saved, loaders, begun>>

\* A transfer command runs in the scene's update: one that comes while another
\* is loading is dropped.
HandleTransfer(map) ==
  /\ running /\ managed # 0 /\ Call
  /\ inFlight' = TRUE
  /\ loaders' = IF inFlight THEN loaders ELSE loaders \union {[by |-> "transfer", map |-> map, n |-> calls]}
  /\ UNCHANGED <<title, stage, running, disposed, world, saved, storage, begun>>

Dispose == /\ ~disposed /\ Call
           /\ disposed' = TRUE
           /\ running' = FALSE
           /\ managed' = 0
           /\ scenes' = [s \in DOMAIN scenes |-> [scenes[s] EXCEPT !.entered = @ /\ s # managed]]
           /\ UNCHANGED <<title, current, mapId, changedBy, inFlight, world, saved, storage, loaders, begun>>

-----------------------------------------------------------------------------
(* Title screen                                                             *)

ChooseNew == /\ title = "visible" /\ Call
             /\ title' = "hidden"
             /\ begun' = begun + 1
             /\ Start
             /\ UNCHANGED <<disposed, inFlight, world, saved, storage, loaders>>

\* choose("continue") looks at storage first; the menu stays up meanwhile.
ChooseContinue ==
  /\ title = "visible" /\ Call
  /\ Ask(Read("choose", "title", current, calls))
  /\ UNCHANGED <<title, stage, running, disposed, inFlight, world, saved, loaders, begun>>

-----------------------------------------------------------------------------
(* Answers                                                                  *)

Rest == Tail(storage)
Asked == Head(storage)

\* What continue() returns goes to its caller: the title screen falls back to a
\* new game, which starts the game if it is not running.
Returns(by, resumed) ==
  IF by = "title" /\ ~resumed THEN Start ELSE UNCHANGED <<running, stage>>

\* MapScene.load after its await: the position of that scene, and the state
\* every scene shares.
Applies(scene) == saved # NoSave /\ saved.map = scenes[scene].map

SaveAnswers ==
  /\ storage # << >> /\ Asked.op = "write"
  /\ saved' = Asked.doc
  /\ storage' = Rest
  /\ UNCHANGED <<title, stage, running, disposed, inFlight, world, loaders, calls, begun>>

LoadAnswers ==
  /\ storage # << >> /\ Asked.op = "read" /\ Asked.next \in {"load", "reload"}
  /\ storage' = Rest
  /\ IF Applies(Asked.scene)
       THEN /\ scenes' = [scenes EXCEPT ![Asked.scene].from = saved.n]
            /\ world' = saved.n
            /\ UNCHANGED <<running, current, mapId, managed, changedBy>>
       ELSE /\ Returns(Asked.by, FALSE)
            /\ UNCHANGED world
  /\ UNCHANGED <<title, disposed, inFlight, saved, loaders, calls, begun>>

ContinueAnswers ==
  /\ storage # << >> /\ Asked.op = "read" /\ Asked.next = "continue"
  /\ IF saved = NoSave
       THEN Returns(Asked.by, FALSE) /\ storage' = Rest /\ UNCHANGED loaders
       ELSE /\ IF saved.map = mapId
                 THEN storage' = Append(Rest, Read("load", Asked.by, current, Asked.n)) /\ UNCHANGED loaders
                 ELSE /\ loaders' = loaders \union {[by |-> Asked.by, map |-> saved.map, n |-> Asked.n]}
                      /\ storage' = Rest
            /\ UNCHANGED <<running, stage>>
  /\ UNCHANGED <<title, disposed, inFlight, world, saved, calls, begun>>

\* The rest of choose("continue"): neither visible nor disposed is looked at again.
ChooseAnswers ==
  /\ storage # << >> /\ Asked.op = "read" /\ Asked.next = "choose"
  /\ IF saved = NoSave
       THEN storage' = Rest /\ UNCHANGED <<title, begun, running, stage>>
       ELSE /\ title' = "hidden"
            /\ begun' = begun + 1
            /\ Start
            /\ storage' = Append(Rest, Read("continue", "title", current, Asked.n))
  /\ UNCHANGED <<disposed, inFlight, world, saved, loaders, calls>>

\* Mutant: the autosave is taken before the swap.
TransferSavesOldMap(l) ==
  /\ SwitchTo(l.map, "transfer")
  /\ Ask(Write(scenes[current].map, calls))
  /\ inFlight' = FALSE
  /\ UNCHANGED running

\* The swap of a transfer, with its autosave of the new scene.
TransferArrives(l) ==
  /\ SwitchTo(l.map, "transfer")
  /\ Ask(Write(l.map, calls))
  /\ inFlight' = FALSE
  /\ UNCHANGED running

ContinueArrives(l) ==
  /\ SwitchTo(l.map, "continue")
  /\ Ask(Read("reload", l.by, Len(scenes) + 1, l.n))
  /\ UNCHANGED <<running, inFlight>>

LoaderAnswers ==
  \E l \in loaders :
    /\ loaders' = loaders \ {l}
    /\ IF l.by = "transfer" THEN TransferArrives(l) ELSE ContinueArrives(l)
    /\ UNCHANGED <<title, disposed, world, saved, calls, begun>>

\* Mutant: the lock is released on success only.
LoaderFailsLocked ==
  \E l \in loaders :
    /\ loaders' = loaders \ {l}
    /\ Returns(l.by, FALSE)
    /\ UNCHANGED <<title, disposed, inFlight, world, saved, storage, calls, begun>>

LoaderFails ==
  \E l \in loaders :
    /\ loaders' = loaders \ {l}
    /\ IF l.by = "transfer" THEN inFlight' = FALSE /\ UNCHANGED <<running, stage>>
                            ELSE Returns(l.by, FALSE) /\ UNCHANGED inFlight
    /\ UNCHANGED <<title, disposed, world, saved, storage, calls, begun>>

GameNext == \/ Save \/ Load \/ Continue \/ (\E m \in Maps : HandleTransfer(m)) \/ Dispose
            \/ ChooseNew \/ ChooseContinue
            \/ SaveAnswers \/ LoadAnswers \/ ContinueAnswers \/ ChooseAnswers
            \/ LoaderAnswers \/ LoaderFails

GameSpec == GameInit /\ [][GameNext]_gameVars

\* Storage answers every call; the loader settles every call.
GameFairSpec == /\ GameSpec
                /\ WF_gameVars(SaveAnswers \/ LoadAnswers \/ ContinueAnswers \/ ChooseAnswers)
                /\ WF_gameVars(LoaderAnswers \/ LoaderFails)

-----------------------------------------------------------------------------
StorageCall == [op : {"write"}, doc : [map : Maps, n : Nat]]
             \union [op : {"read"}, next : {"load", "reload", "continue", "choose"},
                     by : {"scene", "api", "title"}, scene : DOMAIN scenes, n : Nat]

GameTypeOK ==
  /\ title \in {"off", "visible", "hidden"}
  /\ scenes \in Seq([map : Maps, entered : BOOLEAN, from : Nat])
  /\ current \in DOMAIN scenes /\ managed \in {0} \union DOMAIN scenes
  /\ mapId \in Maps
  /\ {running, disposed, inFlight} \subseteq BOOLEAN
  /\ {world, calls, begun} \subseteq Nat
  /\ saved \in {NoSave} \union [map : Maps, n : Nat]
  /\ storage \in Seq(StorageCall)
  /\ loaders \subseteq [by : {"transfer", "api", "title"}, map : Maps, n : Nat]

\* However transfers, continues and the title screen interleave, one scene at
\* most has its listeners and subscriptions, and it is the manager's.
OneSceneListens == \A s \in DOMAIN scenes : scenes[s].entered <=> s = managed

\* What save and load work on is what the player sees, until dispose.
HandleFollowsScene ==
  /\ scenes[current].map = mapId
  /\ ~disposed /\ managed # 0 => managed = current

\* The lock that drops concurrent transfers is held exactly while one loads: a
\* failed load does not end all travel.
TransferLock == inFlight <=> \E l \in loaders : l.by = "transfer"

\* game.ts:242, the autosave: when the calls have been answered the save is on
\* the map the last transfer led to, whatever was being saved meanwhile.
SaveFollowsTransfer ==
  changedBy = "transfer" /\ storage = << >> => saved # NoSave /\ saved.map = mapId

\* Once the menu is gone there is a game to play, also when the save vanished
\* or its map could not be loaded.
NoDeadScreen == title = "hidden" /\ ~disposed => running /\ managed # 0

\* Nothing stays in flight, and travel is possible again.
TransfersEnd == inFlight ~> ~inFlight

\* game.ts:112 "Stop the loop, exit the scene, and release resources."
DisposeIsFinal == disposed => managed = 0 /\ ~running

\* title-screen.ts:42 "Resolves false after dispose (double-invoke guard)."
OneSessionBegins == begun <= 1

\* game.ts:121 "Resolves false when there is no save or it cannot be applied":
\* a continue that has entered the saved map finds its save there.
ContinueKeepsItsWord ==
  [][storage # << >> /\ Asked.op = "read" /\ Asked.next = "reload" /\ storage' = Rest
     => Applies(Asked.scene)]_gameVars

\* map-scene.ts:632 "restore player + variables/switches": both or neither, of
\* the session that is being played.
LoadAppliesWhole == [][world' # world => scenes'[current].from = world']_gameVars

\* Transfers, continues and the title screen interleave: one scene at most has
\* its listeners, it is the manager's and the one save and load work on, the lock of
\* transfers is held while one loads, and a menu that is gone has left a game to play.
OneSceneEntered ==
  /\ GameTypeOK
  /\ OneSceneListens /\ HandleFollowsScene
  /\ TransferLock /\ NoDeadScreen
=============================================================================
