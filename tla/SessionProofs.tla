--------------------------- MODULE SessionProofs ---------------------------
(***************************************************************************)
(* The game session for any set of maps and any number of calls: one scene *)
(* is entered at most and it is the manager's, the game handle names the   *)
(* scene that is played, the transfer lock is held exactly while a         *)
(* transfer loads, and a menu that is gone has left a game behind.  And    *)
(* the save slot: however the open and the transactions end, a load        *)
(* returns what the calls before it left.  And the scripts: however they   *)
(* are cut short, what is deployed is one build that passed its checks.    *)
(***************************************************************************)
EXTENDS GameSession, SaveSlot, Packaging, ListLemmas, FiniteSetTheorems

Scene == [map : Maps, entered : BOOLEAN, from : Nat]
Doc == [map : Maps, n : Nat]
Asking == [op : {"write"}, doc : Doc]
            \union [op : {"read"}, next : {"load", "reload", "continue", "choose"},
                    by : {"scene", "api", "title"}, scene : Nat, n : Nat]
Loading == [by : {"transfer", "scene", "api", "title"}, map : Maps, n : Nat]

\* What the proofs need of the types: a pending read may name any scene.
Typed == /\ title \in {"off", "visible", "hidden"}
         /\ scenes \in Seq(Scene)
         /\ current \in DOMAIN scenes /\ managed \in {0} \union DOMAIN scenes
         /\ mapId \in Maps
         /\ running \in BOOLEAN /\ disposed \in BOOLEAN /\ inFlight \in BOOLEAN
         /\ world \in Nat /\ calls \in Nat
         /\ saved = NoSave \/ saved \in Doc
         /\ storage \in Seq(Asking)
         /\ loaders \subseteq Loading

\* The handle and the manager: before the first scene is entered the handle names it,
\* and a running game has a scene.
StageOK == /\ OneSceneListens
           /\ HandleFollowsScene
           /\ ~disposed /\ managed = 0 => current = 1
           /\ ~disposed /\ running => managed # 0

\* At most one transfer loads, since the lock drops every other.
OneTransfer == \A k, l \in loaders : k.by = "transfer" /\ l.by = "transfer" => k = l

\* The inductive invariant.
GInv == /\ Typed /\ StageOK
        /\ TransferLock /\ OneTransfer
        /\ title = "hidden" /\ ~disposed => running

-----------------------------------------------------------------------------
(* The stage: scenes, handle and manager                                    *)

\* Scenes that are changed one by one stay a sequence of scenes.
LEMMA ScenesStay ==
  ASSUME NEW all \in Seq(Scene), NEW f, f = [s \in DOMAIN all |-> f[s]],
         \A s \in DOMAIN all : f[s] \in Scene
  PROVE  f \in Seq(Scene) /\ DOMAIN f = DOMAIN all
<1>1. DOMAIN all = 1..Len(all) /\ Len(all) \in Nat
  OBVIOUS
<1> QED BY <1>1

\* change enters the next scene and leaves the current one.
LEMMA ChangeEnters ==
  ASSUME NEW all \in Seq(Scene), NEW next \in DOMAIN all,
         managed \in {0} \union DOMAIN all,
         \A s \in DOMAIN all : all[s].entered <=> s = managed,
         Change(all, next)
  PROVE  /\ scenes' \in Seq(Scene) /\ DOMAIN scenes' = DOMAIN all
         /\ \A s \in DOMAIN all : scenes'[s].map = all[s].map
         /\ OneSceneListens'
         /\ managed' = next
<1>1. DOMAIN all = 1..Len(all) /\ Len(all) \in Nat
  OBVIOUS
<1> DEFINE F(s) == [all[s] EXCEPT !.entered =
                      IF s = next THEN TRUE ELSE IF s = managed THEN FALSE ELSE @]
<1>2. scenes' = [s \in DOMAIN all |-> F(s)] /\ managed' = next
  BY DEF Change
<1>3. ASSUME NEW s \in DOMAIN all
      PROVE  F(s) \in Scene /\ F(s).map = all[s].map /\ (F(s).entered <=> s = next)
  <2>1. all[s] \in Scene
    OBVIOUS
  <2>2. CASE s = next BY <2>1, <2>2 DEF Scene
  <2>3. CASE s # next /\ s = managed BY <2>1, <2>3 DEF Scene
  <2>4. CASE s # next /\ s # managed
    <3>1. ~all[s].entered BY <2>4
    <3> QED BY <2>1, <2>4, <3>1 DEF Scene
  <2> QED BY <2>2, <2>3, <2>4
<1> HIDE DEF F
<1>4. scenes' \in Seq(Scene) /\ DOMAIN scenes' = DOMAIN all
  BY <1>1, <1>2, <1>3
<1>5. \A s \in DOMAIN all : scenes'[s] = F(s)
  BY <1>2
<1> QED BY <1>2, <1>3, <1>4, <1>5 DEF OneSceneListens

\* game.start: a game that is not over gets its first scene, if it has none.
LEMMA StartKeepsStage ==
  ASSUME Typed, StageOK, UNCHANGED disposed, Start
  PROVE  /\ StageOK' /\ running' = TRUE
         /\ scenes' \in Seq(Scene) /\ DOMAIN scenes' = DOMAIN scenes
         /\ current' = current /\ mapId' = mapId
         /\ managed' \in {0} \union DOMAIN scenes
<1>0. 1 \in DOMAIN scenes
  BY DEF Typed
<1>1. CASE running \/ managed # 0
  BY <1>1 DEF Start, stage, Typed, StageOK, OneSceneListens, HandleFollowsScene
<1>2. CASE ~running /\ managed = 0
  <2>1. Change(scenes, 1) /\ running' = TRUE /\ UNCHANGED <<current, mapId>>
    BY <1>2 DEF Start
  <2>2. /\ scenes' \in Seq(Scene) /\ DOMAIN scenes' = DOMAIN scenes
        /\ \A s \in DOMAIN scenes : scenes'[s].map = scenes[s].map
        /\ OneSceneListens' /\ managed' = 1
    BY <1>0, <2>1, ChangeEnters DEF Typed, StageOK, OneSceneListens
  <2> QED BY <1>0, <1>2, <2>1, <2>2 DEF Typed, StageOK, HandleFollowsScene
<1> QED BY <1>1, <1>2 DEF Typed

\* The swap: a new scene is entered, and the handle follows it.
LEMMA SwitchKeepsStage ==
  ASSUME Typed, StageOK, UNCHANGED <<disposed, running>>, NEW map \in Maps, NEW why,
         SwitchTo(map, why)
  PROVE  /\ StageOK' /\ scenes' \in Seq(Scene) /\ Len(scenes') = Len(scenes) + 1
         /\ current' \in DOMAIN scenes' /\ mapId' = map
         /\ managed' \in {0} \union DOMAIN scenes'
<1> DEFINE all == Append(scenes, NewScene(map))
           k == Len(scenes) + 1
<1>1. NewScene(map) \in Scene /\ NewScene(map).map = map /\ NewScene(map).entered = FALSE
  BY DEF NewScene, Scene
<1>2. /\ all \in Seq(Scene) /\ Len(all) = k /\ k \in DOMAIN all /\ k \in Nat
      /\ DOMAIN all = DOMAIN scenes \union {k} /\ k \notin DOMAIN scenes /\ k # 0
      /\ all[k] = NewScene(map)
      /\ \A s \in DOMAIN scenes : all[s] = scenes[s]
  BY <1>1 DEF Typed
<1>3. Change(all, k) /\ current' = k /\ mapId' = map
  BY DEF SwitchTo
<1> HIDE DEF all, k
<1>4. managed \in {0} \union DOMAIN all /\ k # managed
  BY <1>2 DEF Typed
<1>5. \A s \in DOMAIN all : all[s].entered <=> s = managed
  BY <1>1, <1>2, <1>4 DEF StageOK, OneSceneListens
<1>6. /\ scenes' \in Seq(Scene) /\ DOMAIN scenes' = DOMAIN all
      /\ \A s \in DOMAIN all : scenes'[s].map = all[s].map
      /\ OneSceneListens' /\ managed' = k
  BY <1>2, <1>3, <1>4, <1>5, ChangeEnters
<1>7. StageOK'
  BY <1>1, <1>2, <1>3, <1>6 DEF StageOK, HandleFollowsScene
<1>8. Len(scenes') = Len(scenes) + 1
  BY <1>2, <1>6 DEF k, Typed
<1> QED BY <1>2, <1>3, <1>6, <1>7, <1>8

\* continue returns: its caller may start the game.
LEMMA ReturnsKeepStage ==
  ASSUME Typed, StageOK, UNCHANGED disposed, NEW by, NEW resumed \in BOOLEAN,
         Returns(by, resumed)
  PROVE  /\ StageOK' /\ (running => running') /\ running' \in BOOLEAN
         /\ scenes' \in Seq(Scene) /\ DOMAIN scenes' = DOMAIN scenes
         /\ current' = current /\ mapId' = mapId
         /\ managed' \in {0} \union DOMAIN scenes
<1>1. CASE Start
  BY <1>1, StartKeepsStage
<1>2. CASE UNCHANGED <<running, stage>>
  BY <1>2 DEF stage, Typed, StageOK, OneSceneListens, HandleFollowsScene
<1> QED BY <1>1, <1>2 DEF Returns

\* A step that leaves the stage alone leaves what is said of it alone.
LEMMA StageStays ==
  ASSUME StageOK, UNCHANGED <<running, disposed, stage>> PROVE StageOK'
BY DEF StageOK, OneSceneListens, HandleFollowsScene, stage

-----------------------------------------------------------------------------
(* Calls                                                                    *)

\* A call that only asks storage.
LEMMA AskKeeps ==
  ASSUME GInv, Call, NEW request \in Asking, Ask(request),
         UNCHANGED <<title, stage, running, disposed, inFlight, world, saved, loaders>>
  PROVE  GInv'
<1>1. StageOK' BY StageStays DEF GInv
<1>2. Typed' BY DEF GInv, Typed, Call, Ask, stage
<1> QED BY <1>1, <1>2 DEF GInv, TransferLock, OneTransfer

\* The requests that calls make are well formed.
LEMMA RequestsAreTyped ==
  ASSUME Typed
  PROVE  /\ \A map \in Maps : \A n \in Nat : Write(map, n) \in Asking
         /\ \A next \in {"load", "reload", "continue", "choose"} :
              \A by \in {"scene", "api", "title"} : \A s, n \in Nat :
                Read(next, by, s, n) \in Asking
         /\ current \in Nat /\ calls \in Nat /\ scenes[current].map \in Maps
         /\ Len(scenes) \in Nat
<1>1. ASSUME NEW map \in Maps, NEW n \in Nat PROVE Write(map, n) \in Asking
  <2>1. SaveDoc(map, n) \in Doc BY DEF SaveDoc, Doc
  <2> QED BY <2>1 DEF Write, Asking
<1>2. ASSUME NEW next \in {"load", "reload", "continue", "choose"},
             NEW by \in {"scene", "api", "title"}, NEW s \in Nat, NEW n \in Nat
      PROVE  Read(next, by, s, n) \in Asking
  BY DEF Read, Asking
<1>3. /\ current \in Nat /\ calls \in Nat /\ Len(scenes) \in Nat
      /\ scenes[current] \in Scene
  BY DEF Typed
<1>4. scenes[current].map \in Maps
  BY <1>3 DEF Scene
<1> QED BY <1>1, <1>2, <1>3, <1>4

\* handleTransfer: the lock is taken, or the transfer is dropped.
LEMMA TransferKeeps ==
  ASSUME GInv, NEW map \in Maps, HandleTransfer(map) PROVE GInv'
<1> DEFINE k == [by |-> "transfer", map |-> map, n |-> calls]
<1>1. k \in Loading /\ k.by = "transfer"
  BY DEF GInv, Typed, Loading
<1> HIDE DEF k
<1>2. loaders' = IF inFlight THEN loaders ELSE loaders \union {k}
  BY DEF HandleTransfer, k
<1>3. StageOK' BY StageStays DEF GInv, HandleTransfer
<1>4. Typed' BY <1>1, <1>2 DEF GInv, Typed, HandleTransfer, Call, stage
<1>5. TransferLock' /\ OneTransfer'
  BY <1>1, <1>2 DEF GInv, TransferLock, OneTransfer, HandleTransfer
<1> QED BY <1>3, <1>4, <1>5 DEF GInv, HandleTransfer

\* dispose: the scene is left, whatever is pending.
LEMMA DisposeKeeps ==
  ASSUME GInv, Dispose PROVE GInv'
<1> DEFINE F(s) == [scenes[s] EXCEPT !.entered = @ /\ s # managed]
<1>1. /\ scenes' = [s \in DOMAIN scenes |-> F(s)]
      /\ managed' = 0 /\ disposed' = TRUE /\ running' = FALSE
      /\ UNCHANGED <<title, current, mapId, inFlight, world, saved, storage, loaders>>
  BY DEF Dispose
<1>2. ASSUME NEW s \in DOMAIN scenes
      PROVE  F(s) \in Scene /\ F(s).map = scenes[s].map /\ F(s).entered = FALSE
  <2>1. scenes[s] \in Scene BY DEF GInv, Typed
  <2>2. scenes[s].entered <=> s = managed BY DEF GInv, StageOK, OneSceneListens
  <2>3. (scenes[s].entered /\ s # managed) = FALSE BY <2>2
  <2> QED BY <2>1, <2>3 DEF Scene
<1> HIDE DEF F
<1>3. \A s \in DOMAIN scenes : scenes'[s] = F(s)
  BY <1>1
<1>4. scenes' \in Seq(Scene) /\ DOMAIN scenes' = DOMAIN scenes
  <2>1. scenes \in Seq(Scene) BY DEF GInv, Typed
  <2>2. scenes' = [s \in DOMAIN scenes |-> scenes'[s]] BY <1>1
  <2>3. \A s \in DOMAIN scenes : scenes'[s] \in Scene BY <1>2, <1>3
  <2> QED BY <2>1, <2>2, <2>3, ScenesStay
<1>5. Typed'
  <2>1. calls' \in Nat BY DEF GInv, Typed, Dispose, Call
  <2> QED BY <1>1, <1>4, <2>1 DEF GInv, Typed
<1>6. StageOK'
  <2>1. \A s \in DOMAIN scenes : scenes'[s].map = scenes[s].map /\ scenes'[s].entered = FALSE
    BY <1>2, <1>3
  <2>2. \A s \in DOMAIN scenes : s # 0
    BY DEF GInv, Typed
  <2>3. OneSceneListens'
    BY <1>1, <1>4, <2>1, <2>2 DEF OneSceneListens
  <2>4. current \in DOMAIN scenes /\ scenes[current].map = mapId
    BY DEF GInv, Typed, StageOK, HandleFollowsScene
  <2> QED BY <1>1, <2>1, <2>3, <2>4 DEF StageOK, HandleFollowsScene
<1> QED BY <1>1, <1>5, <1>6 DEF GInv, TransferLock, OneTransfer

\* choose("new").
LEMMA NewKeeps ==
  ASSUME GInv, ChooseNew PROVE GInv'
<1>1. /\ Start /\ title' = "hidden" /\ Call
      /\ UNCHANGED <<disposed, inFlight, world, saved, storage, loaders>>
  BY DEF ChooseNew
<1>2. /\ StageOK' /\ running' = TRUE
      /\ scenes' \in Seq(Scene) /\ DOMAIN scenes' = DOMAIN scenes
      /\ current' = current /\ mapId' = mapId
      /\ managed' \in {0} \union DOMAIN scenes
  BY <1>1, StartKeepsStage DEF GInv
<1>3. Typed' BY <1>1, <1>2 DEF GInv, Typed, Call
<1> QED BY <1>1, <1>2, <1>3 DEF GInv, TransferLock, OneTransfer

-----------------------------------------------------------------------------
(* Answers                                                                  *)

\* What storage has left after an answer, and the answered call itself.
LEMMA AskedIsTyped ==
  ASSUME Typed, storage # << >>
  PROVE  /\ Asked \in Asking /\ Rest \in Seq(Asking)
         /\ Asked.op = "write" => Asked.doc \in Doc
         /\ Asked.op = "read" => /\ Asked.by \in {"scene", "api", "title"}
                                 /\ Asked.scene \in Nat /\ Asked.n \in Nat
<1>1. Asked \in Asking /\ Rest \in Seq(Asking)
  BY DEF Typed, Asked, Rest
<1> QED BY <1>1 DEF Asking

\* save resolves.
LEMMA SaveAnswerKeeps ==
  ASSUME GInv, SaveAnswers PROVE GInv'
<1>1. Asked.doc \in Doc /\ Rest \in Seq(Asking)
  BY AskedIsTyped DEF GInv, SaveAnswers
<1>2. StageOK' BY StageStays DEF GInv, SaveAnswers
<1>3. Typed' BY <1>1 DEF GInv, Typed, SaveAnswers, stage
<1> QED BY <1>2, <1>3 DEF GInv, SaveAnswers, TransferLock, OneTransfer

\* load resolves: the saved position is the scene's, or continue returns false.
LEMMA LoadAnswerKeeps ==
  ASSUME GInv, LoadAnswers PROVE GInv'
<1>1. /\ Rest \in Seq(Asking) /\ Asked.scene \in Nat
      /\ storage' = Rest
      /\ UNCHANGED <<title, disposed, inFlight, saved, loaders, calls>>
  BY AskedIsTyped DEF GInv, LoadAnswers
<1>2. CASE Applies(Asked.scene)
  <2> DEFINE s == Asked.scene
             n == saved.n
  <2>1. /\ scenes' = [scenes EXCEPT ![s].from = n] /\ world' = n
        /\ UNCHANGED <<running, current, mapId, managed>>
    BY <1>2 DEF LoadAnswers
  <2>2. n \in Nat
    BY <1>2 DEF GInv, Typed, Applies, Doc
  <2> HIDE DEF s, n
  <2>3. scenes \in Seq(Scene) BY DEF GInv, Typed
  <2>4. /\ scenes' \in Seq(Scene) /\ DOMAIN scenes' = DOMAIN scenes
        /\ \A q \in DOMAIN scenes : /\ scenes'[q].map = scenes[q].map
                                    /\ scenes'[q].entered = scenes[q].entered
    <3>1. \A q \in DOMAIN scenes :
            /\ scenes'[q].map = scenes[q].map
            /\ scenes'[q].entered = scenes[q].entered
            /\ scenes'[q] \in Scene
      <4> SUFFICES ASSUME NEW q \in DOMAIN scenes
                   PROVE  /\ scenes'[q].map = scenes[q].map
                          /\ scenes'[q].entered = scenes[q].entered
                          /\ scenes'[q] \in Scene
        OBVIOUS
      <4>1. scenes[q] \in Scene BY <2>3
      <4>2. scenes'[q] = IF q = s THEN [scenes[q] EXCEPT !.from = n] ELSE scenes[q]
        BY <2>1
      <4> QED BY <2>2, <4>1, <4>2 DEF Scene
    <3>2. scenes' = [q \in DOMAIN scenes |-> scenes'[q]]
      BY <2>1
    <3> QED BY <2>3, <3>1, <3>2, ScenesStay
  <2>5. Typed' BY <1>1, <2>1, <2>2, <2>4 DEF GInv, Typed
  <2>6. StageOK'
    BY <1>1, <2>1, <2>4 DEF GInv, Typed, StageOK, OneSceneListens, HandleFollowsScene
  <2> QED BY <1>1, <2>1, <2>5, <2>6 DEF GInv, TransferLock, OneTransfer
<1>3. CASE ~Applies(Asked.scene)
  <2>1. Returns(Asked.by, FALSE) /\ UNCHANGED world
    BY <1>3 DEF LoadAnswers
  <2>2. /\ StageOK' /\ (running => running') /\ running' \in BOOLEAN
        /\ scenes' \in Seq(Scene) /\ DOMAIN scenes' = DOMAIN scenes
        /\ current' = current /\ mapId' = mapId
        /\ managed' \in {0} \union DOMAIN scenes
    BY <1>1, <2>1, ReturnsKeepStage DEF GInv
  <2>3. Typed' BY <1>1, <2>1, <2>2 DEF GInv, Typed
  <2> QED BY <1>1, <2>2, <2>3 DEF GInv, TransferLock, OneTransfer
<1> QED BY <1>2, <1>3

\* An answer that leaves the stage, the lock and the loaders alone may ask again.
LEMMA AskedAgain ==
  ASSUME GInv, storage' \in Seq(Asking),
         UNCHANGED <<title, running, stage, disposed, inFlight, world, saved, loaders, calls>>
  PROVE  GInv'
<1>1. StageOK' BY StageStays DEF GInv
<1>2. Typed' BY DEF GInv, Typed, stage
<1> QED BY <1>1, <1>2 DEF GInv, TransferLock, OneTransfer

\* continue after its look at storage: false, a load, or the saved map.
LEMMA ContinueAnswerKeeps ==
  ASSUME GInv, ContinueAnswers PROVE GInv'
<1>1. /\ Rest \in Seq(Asking) /\ Asked.n \in Nat
      /\ UNCHANGED <<title, disposed, inFlight, world, saved, calls>>
  BY AskedIsTyped DEF GInv, ContinueAnswers
<1>2. CASE saved = NoSave
  <2>1. Returns(Asked.by, FALSE) /\ storage' = Rest /\ UNCHANGED loaders
    BY <1>2 DEF ContinueAnswers
  <2>2. /\ StageOK' /\ (running => running') /\ running' \in BOOLEAN
        /\ scenes' \in Seq(Scene) /\ DOMAIN scenes' = DOMAIN scenes
        /\ current' = current /\ mapId' = mapId
        /\ managed' \in {0} \union DOMAIN scenes
    BY <1>1, <2>1, ReturnsKeepStage DEF GInv
  <2>3. Typed' BY <1>1, <2>1, <2>2 DEF GInv, Typed
  <2> QED BY <1>1, <2>1, <2>2, <2>3 DEF GInv, TransferLock, OneTransfer
<1>3. CASE saved # NoSave /\ saved.map = mapId
  <2>1. /\ storage' = Append(Rest, Read("load", Asked.by, current, Asked.n))
        /\ UNCHANGED <<running, stage, loaders>>
    BY <1>3 DEF ContinueAnswers
  <2>2. Read("load", Asked.by, current, Asked.n) \in Asking
    BY AskedIsTyped, RequestsAreTyped DEF GInv, ContinueAnswers
  <2>3. storage' \in Seq(Asking) BY <1>1, <2>1, <2>2
  <2> QED BY <1>1, <2>1, <2>3, AskedAgain
<1>4. CASE saved # NoSave /\ saved.map # mapId
  <2> DEFINE k == [by |-> Asked.by, map |-> saved.map, n |-> Asked.n]
  <2>1. loaders' = loaders \union {k} /\ storage' = Rest /\ UNCHANGED <<running, stage>>
    BY <1>4 DEF ContinueAnswers
  <2>2. Asked.by \in {"scene", "api", "title"} /\ saved.map \in Maps
    BY <1>4, AskedIsTyped DEF GInv, Typed, Doc, ContinueAnswers
  <2>3. k \in Loading /\ k.by # "transfer"
    BY <1>1, <2>2 DEF Loading
  <2> HIDE DEF k
  <2>4. StageOK' BY <1>1, <2>1, StageStays DEF GInv
  <2>5. Typed' BY <1>1, <2>1, <2>3 DEF GInv, Typed, stage
  <2> QED BY <1>1, <2>1, <2>3, <2>4, <2>5 DEF GInv, TransferLock, OneTransfer
<1> QED BY <1>2, <1>3, <1>4

\* choose("continue") after its look at storage: the menu goes, the game starts.
LEMMA ChooseAnswerKeeps ==
  ASSUME GInv, ChooseAnswers PROVE GInv'
<1>1. /\ Rest \in Seq(Asking) /\ Asked.n \in Nat
      /\ UNCHANGED <<disposed, inFlight, world, saved, loaders, calls>>
  BY AskedIsTyped DEF GInv, ChooseAnswers
<1>2. CASE saved = NoSave
  <2>1. storage' = Rest /\ UNCHANGED <<title, running, stage>>
    BY <1>2 DEF ChooseAnswers
  <2> QED BY <1>1, <2>1, AskedAgain
<1>3. CASE saved # NoSave
  <2>1. /\ title' = "hidden" /\ Start
        /\ storage' = Append(Rest, Read("continue", "title", current, Asked.n))
    BY <1>3 DEF ChooseAnswers
  <2>2. Read("continue", "title", current, Asked.n) \in Asking
    BY <1>1, RequestsAreTyped DEF GInv
  <2>3. storage' \in Seq(Asking) BY <1>1, <2>1, <2>2
  <2>4. /\ StageOK' /\ running' = TRUE
        /\ scenes' \in Seq(Scene) /\ DOMAIN scenes' = DOMAIN scenes
        /\ current' = current /\ mapId' = mapId
        /\ managed' \in {0} \union DOMAIN scenes
    BY <1>1, <2>1, StartKeepsStage DEF GInv
  <2>5. Typed' BY <1>1, <2>1, <2>3, <2>4 DEF GInv, Typed
  <2> QED BY <1>1, <2>4, <2>5 DEF GInv, TransferLock, OneTransfer
<1> QED BY <1>2, <1>3

\* A loader that has answered is gone; the lock goes with the transfer.
LEMMA LoaderGone ==
  ASSUME TransferLock, OneTransfer, NEW k \in loaders, loaders' = loaders \ {k},
         inFlight' = IF k.by = "transfer" THEN FALSE ELSE inFlight
  PROVE  TransferLock' /\ OneTransfer'
BY DEF TransferLock, OneTransfer

\* The map arrived: the swap, with the autosave or the reload after it.
LEMMA ArrivalKeeps ==
  ASSUME GInv, LoaderAnswers PROVE GInv'
<1>1. PICK k \in loaders :
        /\ loaders' = loaders \ {k}
        /\ IF k.by = "transfer" THEN TransferArrives(k) ELSE ContinueArrives(k)
        /\ UNCHANGED <<title, disposed, world, saved, calls, begun>>
  BY DEF LoaderAnswers
<1>2. k.map \in Maps /\ k.n \in Nat /\ k.by \in {"transfer", "scene", "api", "title"}
  BY DEF GInv, Typed, Loading
<1> DEFINE why == IF k.by = "transfer" THEN "transfer" ELSE "continue"
<1>3. /\ SwitchTo(k.map, why) /\ UNCHANGED running
      /\ inFlight' = IF k.by = "transfer" THEN FALSE ELSE inFlight
  BY <1>1 DEF TransferArrives, ContinueArrives
<1>4. storage' \in Seq(Asking)
  <2>1. storage \in Seq(Asking) /\ calls \in Nat /\ Len(scenes) + 1 \in Nat
    BY DEF GInv, Typed
  <2>2. CASE k.by = "transfer"
    <3>1. storage' = Append(storage, Write(k.map, calls))
      BY <1>1, <2>2 DEF TransferArrives, Ask
    <3>2. Write(k.map, calls) \in Asking
      BY <1>2, <2>1, RequestsAreTyped DEF GInv
    <3> QED BY <2>1, <3>1, <3>2
  <2>3. CASE k.by # "transfer"
    <3>1. storage' = Append(storage, Read("reload", k.by, Len(scenes) + 1, k.n))
      BY <1>1, <2>3 DEF ContinueArrives, Ask
    <3>2. Read("reload", k.by, Len(scenes) + 1, k.n) \in Asking
      BY <1>2, <2>1, <2>3, RequestsAreTyped DEF GInv
    <3> QED BY <2>1, <3>1, <3>2
  <2> QED BY <2>2, <2>3
<1> HIDE DEF why
<1>5. /\ StageOK' /\ scenes' \in Seq(Scene) /\ mapId' = k.map
      /\ current' \in DOMAIN scenes' /\ managed' \in {0} \union DOMAIN scenes'
  BY <1>1, <1>2, <1>3, SwitchKeepsStage DEF GInv
<1>6. TransferLock' /\ OneTransfer'
  BY <1>1, <1>3, LoaderGone DEF GInv
<1>7. Typed'
  BY <1>1, <1>2, <1>3, <1>4, <1>5 DEF GInv, Typed
<1> QED BY <1>1, <1>3, <1>5, <1>6, <1>7 DEF GInv

\* The map did not arrive: the lock is released, or continue returns false.
LEMMA FailureKeeps ==
  ASSUME GInv, LoaderFails PROVE GInv'
<1>1. PICK k \in loaders :
        /\ loaders' = loaders \ {k}
        /\ IF k.by = "transfer" THEN inFlight' = FALSE /\ UNCHANGED <<running, stage>>
                                ELSE Returns(k.by, FALSE) /\ UNCHANGED inFlight
        /\ UNCHANGED <<title, disposed, world, saved, storage, calls, begun>>
  BY DEF LoaderFails
<1>2. inFlight' = IF k.by = "transfer" THEN FALSE ELSE inFlight
  BY <1>1
<1>3. TransferLock' /\ OneTransfer'
  BY <1>1, <1>2, LoaderGone DEF GInv
<1>4. /\ StageOK' /\ (running => running') /\ running' \in BOOLEAN
      /\ scenes' \in Seq(Scene) /\ DOMAIN scenes' = DOMAIN scenes
      /\ current' = current /\ mapId' = mapId
      /\ managed' \in {0} \union DOMAIN scenes
  <2>1. CASE k.by = "transfer"
    <3>1. UNCHANGED <<running, disposed, stage>> BY <1>1, <2>1
    <3>2. StageOK' BY <3>1, StageStays DEF GInv
    <3> QED BY <3>1, <3>2 DEF GInv, Typed, stage
  <2>2. CASE k.by # "transfer"
    <3>1. Returns(k.by, FALSE) /\ UNCHANGED disposed BY <1>1, <2>2
    <3> QED BY <3>1, ReturnsKeepStage DEF GInv
  <2> QED BY <2>1, <2>2
<1>5. Typed'
  BY <1>1, <1>2, <1>4 DEF GInv, Typed
<1> QED BY <1>1, <1>3, <1>4, <1>5 DEF GInv

-----------------------------------------------------------------------------
(* The theorems                                                             *)

\* boot leaves the first scene entered, or the menu up before it.
LEMMA InitSession ==
  ASSUME GameInit PROVE GInv
<1> DEFINE b == title = "off"
           s == [NewScene(FirstMap) EXCEPT !.entered = b]
<1>1. FirstMap \in Maps /\ b \in BOOLEAN
  BY SessionAssumption
<1>2. scenes = << s >> /\ managed = (IF b THEN 1 ELSE 0)
  BY DEF GameInit
<1> HIDE DEF b
<1>3. s \in Scene /\ s.entered = b /\ s.map = FirstMap
  BY <1>1 DEF NewScene, Scene
<1> HIDE DEF s
<1>4. /\ scenes \in Seq(Scene) /\ DOMAIN scenes = {1}
      /\ scenes[1] = s
  BY <1>2, <1>3
<1>5. saved = NoSave \/ saved \in Doc
  BY DEF GameInit, SaveDoc, Doc
<1>6. storage \in Seq(Asking)
  <2>1. Read("load", "scene", 1, 0) \in Asking
    BY DEF Read, Asking
  <2> QED BY <2>1 DEF GameInit
<1>7. Typed
  <2>1. running \in BOOLEAN BY DEF GameInit
  <2>2. current = 1 /\ managed \in {0, 1} BY <1>2 DEF GameInit
  <2> QED BY <1>1, <1>4, <1>5, <1>6, <2>1, <2>2 DEF GameInit, Typed
<1>8. StageOK
  <2>1. scenes[1].entered <=> managed = 1
    BY <1>1, <1>2, <1>3, <1>4
  <2>2. OneSceneListens
    BY <1>4, <2>1 DEF OneSceneListens
  <2>3. HandleFollowsScene
    BY <1>2, <1>3, <1>4 DEF GameInit, HandleFollowsScene
  <2>4. running <=> b
    BY DEF GameInit, b
  <2> QED BY <1>2, <2>2, <2>3, <2>4 DEF GameInit, StageOK
<1> QED BY <1>7, <1>8 DEF GameInit, GInv, TransferLock, OneTransfer

\* Every call and every answer keeps the invariant.
LEMMA StepKeepsSession == GInv /\ [GameNext]_gameVars => GInv'
<1> SUFFICES ASSUME GInv, [GameNext]_gameVars PROVE GInv'
  OBVIOUS
<1>1. CASE UNCHANGED gameVars
  BY <1>1 DEF gameVars, GInv, Typed, StageOK, OneSceneListens, HandleFollowsScene,
              TransferLock, OneTransfer
<1>2. CASE Save
  <2>1. Write(scenes[current].map, calls + 1) \in Asking
    BY RequestsAreTyped DEF GInv
  <2> QED BY <1>2, <2>1, AskKeeps DEF Save
<1>3. CASE Load
  <2>1. Read("load", "scene", current, calls) \in Asking
    BY RequestsAreTyped DEF GInv
  <2> QED BY <1>3, <2>1, AskKeeps DEF Load
<1>4. CASE Continue
  <2>1. Read("continue", "api", current, calls) \in Asking
    BY RequestsAreTyped DEF GInv
  <2> QED BY <1>4, <2>1, AskKeeps DEF Continue
<1>5. CASE ChooseContinue
  <2>1. Read("choose", "title", current, calls) \in Asking
    BY RequestsAreTyped DEF GInv
  <2> QED BY <1>5, <2>1, AskKeeps DEF ChooseContinue
<1>6. CASE \E m \in Maps : HandleTransfer(m) BY <1>6, TransferKeeps
<1>7. CASE Dispose BY <1>7, DisposeKeeps
<1>8. CASE ChooseNew BY <1>8, NewKeeps
<1>9. CASE SaveAnswers BY <1>9, SaveAnswerKeeps
<1>10. CASE LoadAnswers BY <1>10, LoadAnswerKeeps
<1>11. CASE ContinueAnswers BY <1>11, ContinueAnswerKeeps
<1>12. CASE ChooseAnswers BY <1>12, ChooseAnswerKeeps
<1>13. CASE LoaderAnswers BY <1>13, ArrivalKeeps
<1>14. CASE LoaderFails BY <1>14, FailureKeeps
<1> QED BY <1>1, <1>2, <1>3, <1>4, <1>5, <1>6, <1>7, <1>8, <1>9, <1>10, <1>11, <1>12,
           <1>13, <1>14 DEF GameNext

-----------------------------------------------------------------------------
(* The calls under way, and what they will leave behind                     *)

\* A read names a scene that was built; only the game's owner and the title screen
\* continue.
Known(q, n) == \A i \in DOMAIN q : q[i].op = "read" =>
                 q[i].scene \in 1..n /\ (q[i].next = "continue" => q[i].by # "scene")

\* When the writes of q have been made, after doc, the save is on the map.
Leads(q, doc, map) ==
  /\ (\A i \in DOMAIN q : q[i].op # "write") => doc # NoSave /\ doc.map = map
  /\ \A i \in DOMAIN q :
       q[i].op = "write" /\ (\A j \in DOMAIN q : j > i => q[j].op # "write")
         => q[i].doc.map = map

\* SaveFollowsTransfer speaks of the moment storage is idle; until then it is the last
\* write under way that counts.
Pending == /\ begun \in Nat
           /\ \A l \in loaders : l.by # "scene"
           /\ Known(storage, Len(scenes))
           /\ changedBy = "transfer" => Leads(storage, saved, mapId)

\* A call joins the queue.
LEMMA CallJoins ==
  ASSUME NEW q \in Seq(Asking), NEW x \in Asking, NEW n \in Nat, NEW k \in Nat, n <= k,
         Known(q, n),
         x.op = "read" => x.scene \in 1..k /\ (x.next = "continue" => x.by # "scene")
  PROVE  Known(Append(q, x), k)
<1>1. /\ Len(q) \in Nat /\ DOMAIN q = 1..Len(q) /\ DOMAIN Append(q, x) = 1..(Len(q) + 1)
      /\ Append(q, x)[Len(q) + 1] = x
      /\ \A i \in 1..Len(q) : Append(q, x)[i] = q[i]
  OBVIOUS
<1> DEFINE a == Append(q, x)
<1> HIDE DEF a
<1>2. ASSUME NEW i \in DOMAIN a, a[i].op = "read"
      PROVE  a[i].scene \in 1..k /\ (a[i].next = "continue" => a[i].by # "scene")
  <2>1. CASE i = Len(q) + 1 BY <1>1, <1>2, <2>1 DEF a
  <2>2. CASE i # Len(q) + 1
    <3>1. i \in DOMAIN q /\ a[i] = q[i] BY <1>1, <2>2 DEF a
    <3>2. q[i].scene \in 1..n /\ (q[i].next = "continue" => q[i].by # "scene")
      BY <1>2, <3>1 DEF Known
    <3> QED BY <3>1, <3>2
  <2> QED BY <2>1, <2>2
<1> QED BY <1>2 DEF Known, a

\* The first call is answered.
LEMMA CallLeaves ==
  ASSUME NEW q \in Seq(Asking), q # << >>, NEW n \in Nat, Known(q, n)
  PROVE  /\ Known(Tail(q), n)
         /\ Head(q).op = "read" => /\ Head(q).scene \in 1..n
                                   /\ Head(q).next = "continue" => Head(q).by # "scene"
<1>1. /\ Len(q) \in Nat /\ Len(q) > 0 /\ DOMAIN q = 1..Len(q) /\ Head(q) = q[1]
      /\ DOMAIN Tail(q) = 1..(Len(q) - 1)
      /\ \A i \in 1..(Len(q) - 1) : Tail(q)[i] = q[i + 1]
  OBVIOUS
<1>2. 1 \in DOMAIN q BY <1>1
<1>3. \A i \in DOMAIN Tail(q) : i + 1 \in DOMAIN q /\ Tail(q)[i] = q[i + 1]
  BY <1>1
<1>4. Known(Tail(q), n) BY <1>3 DEF Known
<1>5. Head(q).op = "read" => /\ Head(q).scene \in 1..n
                             /\ Head(q).next = "continue" => Head(q).by # "scene"
  BY <1>1, <1>2 DEF Known
<1> QED BY <1>4, <1>5

\* A read that joins changes nothing of what the writes lead to; a write of the map does
\* all by itself.
LEMMA JoinedLeads ==
  ASSUME NEW q \in Seq(Asking), NEW x \in Asking, NEW doc, NEW map,
         \/ x.op = "read" /\ Leads(q, doc, map)
         \/ x.op = "write" /\ x.doc.map = map
  PROVE  Leads(Append(q, x), doc, map)
<1>1. /\ Len(q) \in Nat /\ DOMAIN q = 1..Len(q) /\ DOMAIN Append(q, x) = 1..(Len(q) + 1)
      /\ Append(q, x)[Len(q) + 1] = x
      /\ \A i \in 1..Len(q) : Append(q, x)[i] = q[i]
  OBVIOUS
<1> DEFINE a == Append(q, x)
<1> HIDE DEF a
<1>2. /\ Len(q) + 1 \in DOMAIN a /\ a[Len(q) + 1] = x
      /\ \A i \in DOMAIN q : i \in DOMAIN a /\ a[i] = q[i]
      /\ \A i \in DOMAIN a : i # Len(q) + 1 => i \in DOMAIN q
      /\ \A i \in DOMAIN q : Len(q) + 1 > i
  BY <1>1 DEF a
<1>3. CASE x.op = "read" /\ Leads(q, doc, map)
  <2>1. ASSUME \A i \in DOMAIN a : a[i].op # "write" PROVE doc # NoSave /\ doc.map = map
    <3>1. \A i \in DOMAIN q : q[i].op # "write" BY <1>2, <2>1
    <3> QED BY <1>3, <3>1 DEF Leads
  <2>2. ASSUME NEW i \in DOMAIN a, a[i].op = "write",
               \A j \in DOMAIN a : j > i => a[j].op # "write"
        PROVE  a[i].doc.map = map
    <3>1. i \in DOMAIN q /\ q[i] = a[i] BY <1>2, <1>3, <2>2
    <3>2. \A j \in DOMAIN q : j > i => q[j].op # "write" BY <1>2, <2>2
    <3> QED BY <1>3, <2>2, <3>1, <3>2 DEF Leads
  <2> QED BY <2>1, <2>2 DEF Leads, a
<1>4. CASE x.op = "write" /\ x.doc.map = map
  <2>1. ~(\A i \in DOMAIN a : a[i].op # "write") BY <1>2, <1>4
  <2>2. ASSUME NEW i \in DOMAIN a, a[i].op = "write",
               \A j \in DOMAIN a : j > i => a[j].op # "write"
        PROVE  a[i].doc.map = map
    <3>1. i = Len(q) + 1 BY <1>2, <1>4, <2>2
    <3> QED BY <1>2, <1>4, <3>1
  <2> QED BY <2>1, <2>2 DEF Leads, a
<1> QED BY <1>3, <1>4

\* So does a read that is answered; a write that is answered is the document now.
LEMMA AnsweredLeads ==
  ASSUME NEW q \in Seq(Asking), q # << >>, NEW doc, NEW map, Leads(q, doc, map)
  PROVE  /\ Head(q).op = "read" => Leads(Tail(q), doc, map)
         /\ Head(q).op = "write" /\ Head(q).doc # NoSave => Leads(Tail(q), Head(q).doc, map)
<1>1. /\ Len(q) \in Nat /\ Len(q) > 0 /\ DOMAIN q = 1..Len(q) /\ Head(q) = q[1]
      /\ DOMAIN Tail(q) = 1..(Len(q) - 1)
      /\ \A i \in 1..(Len(q) - 1) : Tail(q)[i] = q[i + 1]
  OBVIOUS
<1> DEFINE t == Tail(q)
<1> HIDE DEF t
<1>2. /\ 1 \in DOMAIN q
      /\ \A i \in DOMAIN t : i + 1 \in DOMAIN q /\ t[i] = q[i + 1] /\ i + 1 > 1 /\ i \in Nat
      /\ \A i \in DOMAIN q : i \in Nat /\ (i # 1 => i - 1 \in DOMAIN t /\ t[i - 1] = q[i])
  BY <1>1 DEF t
<1>3. ASSUME NEW i \in DOMAIN t, t[i].op = "write",
             \A j \in DOMAIN t : j > i => t[j].op # "write"
      PROVE  t[i].doc.map = map
  <2>1. i + 1 \in DOMAIN q /\ q[i + 1] = t[i] BY <1>2
  <2>2. ASSUME NEW j \in DOMAIN q, j > i + 1 PROVE q[j].op # "write"
    <3>1. j # 1 /\ j - 1 > i BY <1>2, <2>2
    <3> QED BY <1>2, <1>3, <3>1
  <2> QED BY <1>3, <2>1, <2>2 DEF Leads
<1>4. ASSUME Head(q).op = "read", \A i \in DOMAIN t : t[i].op # "write"
      PROVE  doc # NoSave /\ doc.map = map
  <2>1. ASSUME NEW i \in DOMAIN q PROVE q[i].op # "write"
    <3>1. CASE i = 1 BY <1>1, <1>4, <3>1
    <3>2. CASE i # 1 BY <1>2, <1>4, <3>2
    <3> QED BY <3>1, <3>2
  <2> QED BY <2>1 DEF Leads
<1>5. ASSUME Head(q).op = "write", \A i \in DOMAIN t : t[i].op # "write"
      PROVE  Head(q).doc.map = map
  <2>1. ASSUME NEW j \in DOMAIN q, j > 1 PROVE q[j].op # "write"
    <3>1. j # 1 BY <2>1
    <3> QED BY <1>2, <1>5, <3>1
  <2> QED BY <1>1, <1>2, <1>5, <2>1 DEF Leads
<1>6. Head(q).op = "read" => Leads(t, doc, map) BY <1>3, <1>4 DEF Leads
<1>7. Head(q).op = "write" /\ Head(q).doc # NoSave => Leads(t, Head(q).doc, map)
  BY <1>3, <1>5 DEF Leads
<1> QED BY <1>6, <1>7 DEF t

\* A call that joins, in the words of the invariant.
LEMMA JoinKeepsPending ==
  ASSUME GInv, Pending, NEW x \in Asking, storage' = Append(storage, x),
         \/ x.op = "read" /\ x.scene \in 1..Len(scenes) /\ (x.next = "continue" => x.by # "scene")
         \/ x.op = "write" /\ x.doc.map = mapId,
         Len(scenes') = Len(scenes), UNCHANGED <<mapId, changedBy, saved, loaders>>,
         begun' \in Nat
  PROVE  Pending'
<1>1. storage \in Seq(Asking) /\ Len(scenes) \in Nat BY DEF GInv, Typed
<1>2. Known(storage', Len(scenes')) BY <1>1, CallJoins DEF Pending
<1>3. changedBy' = "transfer" => Leads(storage', saved', mapId')
  BY <1>1, JoinedLeads DEF Pending
<1> QED BY <1>2, <1>3 DEF Pending

\* A read that is answered, with another that follows its await or without.
LEMMA AnswerKeepsPending ==
  ASSUME GInv, Pending, storage # << >>, Asked.op = "read",
         \/ storage' = Rest
         \/ \E x \in Asking : /\ storage' = Append(Rest, x)
                              /\ x.op = "read" /\ x.scene \in 1..Len(scenes)
                              /\ x.next = "continue" => x.by # "scene",
         Len(scenes') = Len(scenes), UNCHANGED <<mapId, changedBy, saved>>,
         \A l \in loaders' : l.by # "scene", begun' \in Nat
  PROVE  Pending'
<1>1. storage \in Seq(Asking) /\ Len(scenes) \in Nat /\ Rest \in Seq(Asking)
  BY AskedIsTyped DEF GInv, Typed
<1>2. Known(Rest, Len(scenes)) BY <1>1, CallLeaves DEF Pending, Rest
<1>3. changedBy = "transfer" => Leads(Rest, saved, mapId)
  BY <1>1, AnsweredLeads DEF Pending, Rest, Asked
<1>4. CASE storage' = Rest BY <1>2, <1>3, <1>4 DEF Pending
<1>5. CASE storage' # Rest
  <2>1. PICK x \in Asking : /\ storage' = Append(Rest, x)
                            /\ x.op = "read" /\ x.scene \in 1..Len(scenes)
                            /\ x.next = "continue" => x.by # "scene"
    BY <1>5
  <2>2. Known(storage', Len(scenes')) BY <1>1, <1>2, <2>1, CallJoins
  <2>3. changedBy' = "transfer" => Leads(storage', saved', mapId')
    BY <1>1, <1>3, <2>1, JoinedLeads
  <2> QED BY <2>2, <2>3 DEF Pending
<1> QED BY <1>4, <1>5

\* The scenes are as many as before where none is built.
LEMMA AsMany ==
  ASSUME GInv, scenes' \in Seq(Scene), DOMAIN scenes' = DOMAIN scenes
  PROVE  Len(scenes') = Len(scenes)
<1>1. /\ DOMAIN scenes = 1..Len(scenes) /\ DOMAIN scenes' = 1..Len(scenes')
      /\ Len(scenes) \in Nat /\ Len(scenes') \in Nat
  BY DEF GInv, Typed
<1> QED BY <1>1

\* game.start builds no scene and goes nowhere.
LEMMA StartGoesNowhere ==
  ASSUME GInv, UNCHANGED disposed, Start
  PROVE  Len(scenes') = Len(scenes) /\ UNCHANGED <<mapId, changedBy>>
<1>1. scenes' \in Seq(Scene) /\ DOMAIN scenes' = DOMAIN scenes
  BY StartKeepsStage DEF GInv
<1> QED BY <1>1, AsMany DEF Start, stage

\* Neither does the return of continue.
LEMMA ReturnGoesNowhere ==
  ASSUME GInv, UNCHANGED disposed, NEW by, NEW resumed \in BOOLEAN, Returns(by, resumed)
  PROVE  Len(scenes') = Len(scenes) /\ UNCHANGED <<mapId, changedBy>>
  BY StartGoesNowhere DEF Returns, stage

\* A step that leaves all that is pending alone.
LEMMA PendingStays ==
  ASSUME Pending, UNCHANGED <<storage, saved, mapId, changedBy>>,
         Len(scenes') = Len(scenes), \A l \in loaders' : l.by # "scene", begun' \in Nat
  PROVE  Pending'
  BY DEF Pending

\* The calls of the player.
LEMMA CallsKeepPending ==
  ASSUME GInv, Pending,
         Save \/ Load \/ Continue \/ ChooseContinue \/ ChooseNew \/ Dispose
           \/ (\E m \in Maps : HandleTransfer(m))
  PROVE  Pending'
<1>0. /\ current \in 1..Len(scenes) /\ Len(scenes) \in Nat /\ calls \in Nat /\ current \in Nat
      /\ begun \in Nat
  BY DEF GInv, Typed, Pending
<1>1. CASE Save
  <2>1. Write(scenes[current].map, calls + 1) \in Asking
    BY RequestsAreTyped DEF GInv
  <2>2. /\ Write(scenes[current].map, calls + 1).op = "write"
        /\ Write(scenes[current].map, calls + 1).doc.map = mapId
    BY DEF Write, SaveDoc, GInv, StageOK, HandleFollowsScene
  <2> QED BY <1>0, <1>1, <2>1, <2>2, JoinKeepsPending DEF Save, Ask, stage
<1>2. CASE Load
  <2> DEFINE x == Read("load", "scene", current, calls)
  <2>1. x \in Asking /\ x.op = "read" /\ x.scene = current /\ x.by = "scene" /\ x.next = "load"
    BY <1>0 DEF Read, Asking
  <2>2. /\ storage' = Append(storage, x) /\ begun' \in Nat /\ Len(scenes') = Len(scenes)
        /\ UNCHANGED <<mapId, changedBy, saved, loaders>>
    BY <1>0, <1>2 DEF Load, Ask, stage
  <2> HIDE DEF x
  <2> QED BY <1>0, <2>1, <2>2, JoinKeepsPending
<1>3. CASE Continue
  <2> DEFINE x == Read("continue", "api", current, calls)
  <2>1. x \in Asking /\ x.op = "read" /\ x.scene = current /\ x.by = "api" /\ x.next = "continue"
    BY <1>0 DEF Read, Asking
  <2>2. /\ storage' = Append(storage, x) /\ begun' \in Nat /\ Len(scenes') = Len(scenes)
        /\ UNCHANGED <<mapId, changedBy, saved, loaders>>
    BY <1>0, <1>3 DEF Continue, Ask, stage
  <2> HIDE DEF x
  <2> QED BY <1>0, <2>1, <2>2, JoinKeepsPending
<1>4. CASE ChooseContinue
  <2> DEFINE x == Read("choose", "title", current, calls)
  <2>1. x \in Asking /\ x.op = "read" /\ x.scene = current /\ x.by = "title" /\ x.next = "choose"
    BY <1>0 DEF Read, Asking
  <2>2. /\ storage' = Append(storage, x) /\ begun' \in Nat /\ Len(scenes') = Len(scenes)
        /\ UNCHANGED <<mapId, changedBy, saved, loaders>>
    BY <1>0, <1>4 DEF ChooseContinue, Ask, stage
  <2> HIDE DEF x
  <2> QED BY <1>0, <2>1, <2>2, JoinKeepsPending
<1>5. CASE ChooseNew
  <2>1. Len(scenes') = Len(scenes) /\ UNCHANGED <<mapId, changedBy>>
    BY <1>5, StartGoesNowhere DEF ChooseNew
  <2> QED BY <1>0, <1>5, <2>1, PendingStays DEF ChooseNew, Pending
<1>6. CASE Dispose
  <2>1. Len(scenes') = Len(scenes)
    <3>1. scenes' \in Seq(Scene) BY <1>6, DisposeKeeps DEF GInv, Typed
    <3>2. DOMAIN scenes' = DOMAIN scenes BY <1>6 DEF Dispose
    <3> QED BY <3>1, <3>2, AsMany
  <2> QED BY <1>0, <1>6, <2>1, PendingStays DEF Dispose, Pending
<1>7. CASE \E m \in Maps : HandleTransfer(m)
  <2>1. PICK m \in Maps : HandleTransfer(m) BY <1>7
  <2>2. \A l \in loaders' : l \in loaders \/ l = [by |-> "transfer", map |-> m, n |-> calls]
    BY <2>1 DEF HandleTransfer
  <2>3. \A l \in loaders' : l.by # "scene" BY <2>2 DEF Pending
  <2> QED BY <1>0, <2>1, <2>3, PendingStays DEF HandleTransfer, stage
<1> QED BY <1>1, <1>2, <1>3, <1>4, <1>5, <1>6, <1>7

\* The answers of storage.
LEMMA AnswersKeepPending ==
  ASSUME GInv, Pending, SaveAnswers \/ LoadAnswers \/ ContinueAnswers \/ ChooseAnswers
  PROVE  Pending'
<1>0. /\ current \in 1..Len(scenes) /\ Len(scenes) \in Nat /\ current \in Nat
      /\ begun \in Nat /\ storage # << >> /\ storage \in Seq(Asking) /\ Asked \in Asking
      /\ Rest \in Seq(Asking) /\ (Asked.op = "write" => Asked.doc \in Doc)
      /\ (Asked.op = "read" => Asked.by \in {"scene", "api", "title"} /\ Asked.n \in Nat)
  <2>1. storage # << >>
    BY DEF SaveAnswers, LoadAnswers, ContinueAnswers, ChooseAnswers
  <2>2. Typed /\ begun \in Nat BY DEF GInv, Pending
  <2>3. current \in 1..Len(scenes) /\ Len(scenes) \in Nat /\ storage \in Seq(Asking)
    BY <2>2 DEF Typed
  <2> QED BY <2>1, <2>2, <2>3, AskedIsTyped
<1>1. CASE SaveAnswers
  <2>1. Asked.doc # NoSave
    BY <1>0, <1>1, SessionAssumption DEF SaveAnswers, Doc
  <2>2. Known(Rest, Len(scenes)) BY <1>0, CallLeaves DEF Pending, Rest
  <2>3. changedBy = "transfer" => Leads(Rest, Asked.doc, mapId)
    BY <1>0, <1>1, <2>1, AnsweredLeads DEF Pending, Rest, Asked, SaveAnswers
  <2> QED BY <1>0, <1>1, <2>2, <2>3 DEF SaveAnswers, Pending, stage
<1>2. CASE LoadAnswers
  <2>1. Len(scenes') = Len(scenes) /\ UNCHANGED <<mapId, changedBy>>
    <3>1. CASE Applies(Asked.scene)
      <4>1. scenes' = [scenes EXCEPT ![Asked.scene].from = saved.n]
        BY <1>2, <3>1 DEF LoadAnswers
      <4>2. DOMAIN scenes' = DOMAIN scenes BY <4>1
      <4>3. scenes' \in Seq(Scene) BY <1>2, LoadAnswerKeeps DEF GInv, Typed
      <4> QED BY <1>2, <3>1, <4>2, <4>3, AsMany DEF LoadAnswers
    <3>2. CASE ~Applies(Asked.scene)
      BY <1>2, <3>2, ReturnGoesNowhere DEF LoadAnswers
    <3> QED BY <3>1, <3>2
  <2>2. \A l \in loaders' : l.by # "scene" BY <1>2 DEF LoadAnswers, Pending
  <2> QED BY <1>0, <1>2, <2>1, <2>2, AnswerKeepsPending DEF LoadAnswers
<1>3. CASE ContinueAnswers
  <2>0. Asked.by # "scene" /\ Asked.op = "read"
    BY <1>0, <1>3, CallLeaves DEF ContinueAnswers, Pending, Asked
  <2>1. CASE saved = NoSave
    <3>1. Len(scenes') = Len(scenes) /\ UNCHANGED <<mapId, changedBy>>
      BY <1>3, <2>1, ReturnGoesNowhere DEF ContinueAnswers
    <3>2. \A l \in loaders' : l.by # "scene" BY <1>3, <2>1 DEF ContinueAnswers, Pending
    <3> QED BY <1>0, <1>3, <2>0, <2>1, <3>1, <3>2, AnswerKeepsPending DEF ContinueAnswers
  <2>2. CASE saved # NoSave /\ saved.map = mapId
    <3> DEFINE x == Read("load", Asked.by, current, Asked.n)
    <3>1. x \in Asking /\ x.op = "read" /\ x.scene = current /\ x.next = "load"
      BY <1>0, <2>0 DEF Read, Asking
    <3>2. storage' = Append(Rest, x) /\ loaders' = loaders
      BY <1>3, <2>2 DEF ContinueAnswers
    <3>3. \A l \in loaders' : l.by # "scene" BY <3>2 DEF Pending
    <3>4. Len(scenes') = Len(scenes) /\ UNCHANGED <<mapId, changedBy, saved>> /\ begun' \in Nat
      BY <1>0, <1>3, <2>2 DEF ContinueAnswers, stage
    <3> HIDE DEF x
    <3> QED BY <1>0, <2>0, <3>1, <3>2, <3>3, <3>4, AnswerKeepsPending
  <2>3. CASE saved # NoSave /\ saved.map # mapId
    <3>1. /\ loaders' = loaders \union {[by |-> Asked.by, map |-> saved.map, n |-> Asked.n]}
          /\ storage' = Rest
          /\ Len(scenes') = Len(scenes) /\ UNCHANGED <<mapId, changedBy, saved>> /\ begun' \in Nat
      BY <1>0, <1>3, <2>3 DEF ContinueAnswers, stage
    <3>2. \A l \in loaders' : l.by # "scene" BY <2>0, <3>1 DEF Pending
    <3> QED BY <1>0, <2>0, <3>1, <3>2, AnswerKeepsPending
  <2> QED BY <2>1, <2>2, <2>3
<1>4. CASE ChooseAnswers
  <2>0. /\ Asked.op = "read" /\ UNCHANGED <<disposed, saved, loaders>>
        /\ \A l \in loaders' : l.by # "scene"
    BY <1>4 DEF ChooseAnswers, Pending
  <2>1. CASE saved = NoSave
    BY <1>0, <1>4, <2>0, <2>1, AnswerKeepsPending DEF ChooseAnswers, stage
  <2>2. CASE saved # NoSave
    <3> DEFINE x == Read("continue", "title", current, Asked.n)
    <3>1. x \in Asking /\ x.op = "read" /\ x.scene = current /\ x.by = "title"
      BY <1>0, <2>0 DEF Read, Asking
    <3>2. storage' = Append(Rest, x) /\ Start /\ begun' = begun + 1
      BY <1>4, <2>2 DEF ChooseAnswers
    <3>3. Len(scenes') = Len(scenes) /\ UNCHANGED <<mapId, changedBy>>
      BY <2>0, <3>2, StartGoesNowhere
    <3> HIDE DEF x
    <3> QED BY <1>0, <2>0, <3>1, <3>2, <3>3, AnswerKeepsPending
  <2> QED BY <2>1, <2>2
<1> QED BY <1>1, <1>2, <1>3, <1>4

\* The answers of the loader: a transfer that arrives saves on the map it led to.
LEMMA LoadersKeepPending ==
  ASSUME GInv, Pending, LoaderAnswers \/ LoaderFails
  PROVE  Pending'
<1>0. /\ Len(scenes) \in Nat /\ Len(scenes) + 1 \in Nat /\ storage \in Seq(Asking)
      /\ begun \in Nat /\ calls \in Nat
  BY DEF GInv, Typed, Pending
<1>1. ASSUME LoaderAnswers PROVE Pending'
  <2>1. PICK k \in loaders :
          /\ loaders' = loaders \ {k}
          /\ IF k.by = "transfer" THEN TransferArrives(k) ELSE ContinueArrives(k)
          /\ UNCHANGED <<title, disposed, world, saved, calls, begun>>
    BY <1>1 DEF LoaderAnswers
  <2>2. /\ k.map \in Maps /\ k.n \in Nat /\ k.by \in {"transfer", "api", "title"}
        /\ \A l \in loaders' : l.by # "scene"
    BY <2>1 DEF GInv, Typed, Loading, Pending
  <2>3. Len(scenes') = Len(scenes) + 1 /\ mapId' = k.map
    <3>1. PICK why : SwitchTo(k.map, why) /\ UNCHANGED <<disposed, running>>
      BY <2>1 DEF TransferArrives, ContinueArrives
    <3> QED BY <2>2, <3>1, SwitchKeepsStage DEF GInv
  <2>4. CASE k.by = "transfer"
    <3> DEFINE x == Write(k.map, calls)
    <3>1. storage' = Append(storage, x) BY <2>1, <2>4 DEF TransferArrives, Ask
    <3>2. x \in Asking /\ x.op = "write" /\ x.doc.map = k.map
      <4>1. x \in Asking BY <1>0, <2>2, RequestsAreTyped DEF GInv
      <4> QED BY <4>1 DEF Write, SaveDoc
    <3> HIDE DEF x
    <3>3. Known(storage', Len(scenes'))
      BY <1>0, <2>3, <3>1, <3>2, CallJoins DEF Pending
    <3>4. Leads(storage', saved', mapId')
      BY <1>0, <2>3, <3>1, <3>2, JoinedLeads
    <3> QED BY <1>0, <2>1, <2>2, <3>3, <3>4 DEF Pending
  <2>5. CASE k.by # "transfer"
    <3> DEFINE x == Read("reload", k.by, Len(scenes) + 1, k.n)
    <3>1. storage' = Append(storage, x) /\ changedBy' = "continue"
      BY <2>1, <2>5 DEF ContinueArrives, SwitchTo, Ask
    <3>2. x \in Asking /\ x.op = "read" /\ x.scene = Len(scenes) + 1 /\ x.next = "reload"
      BY <1>0, <2>2, <2>5 DEF Read, Asking
    <3> HIDE DEF x
    <3>3. Known(storage', Len(scenes'))
      BY <1>0, <2>3, <3>1, <3>2, CallJoins DEF Pending
    <3> QED BY <1>0, <2>1, <2>2, <3>1, <3>3 DEF Pending
  <2> QED BY <2>4, <2>5
<1>2. ASSUME LoaderFails PROVE Pending'
  <2>1. PICK k \in loaders :
          /\ loaders' = loaders \ {k}
          /\ IF k.by = "transfer" THEN inFlight' = FALSE /\ UNCHANGED <<running, stage>>
                                  ELSE Returns(k.by, FALSE) /\ UNCHANGED inFlight
          /\ UNCHANGED <<title, disposed, world, saved, storage, calls, begun>>
    BY <1>2 DEF LoaderFails
  <2>2. Len(scenes') = Len(scenes) /\ UNCHANGED <<mapId, changedBy>>
    BY <2>1, ReturnGoesNowhere DEF stage
  <2>3. \A l \in loaders' : l.by # "scene" BY <2>1 DEF Pending
  <2> QED BY <1>0, <2>1, <2>2, <2>3, PendingStays
<1> QED BY <1>1, <1>2

\* Both parts of the invariant hold of every session.
THEOREM SessionInvariant == GameSpec => [](GInv /\ Pending)
<1>1. GameInit => GInv BY InitSession
<1>2. GameInit => Pending
  <2> SUFFICES ASSUME GameInit PROVE Pending OBVIOUS
  <2>1. loaders = {} /\ begun = 0 /\ changedBy = "none" /\ Len(scenes) = 1
    BY DEF GameInit
  <2>2. Known(storage, 1)
    <3>1. CASE storage = << >> BY <3>1 DEF Known
    <3>2. CASE storage = << Read("load", "scene", 1, 0) >>
      <4>1. \A i \in DOMAIN storage : storage[i].scene = 1 /\ storage[i].next = "load"
        BY <3>2 DEF Read
      <4> QED BY <4>1 DEF Known
    <3> QED BY <3>1, <3>2 DEF GameInit
  <2> QED BY <2>1, <2>2 DEF Pending
<1>3. GInv /\ Pending /\ [GameNext]_gameVars => Pending'
  <2> SUFFICES ASSUME GInv, Pending, [GameNext]_gameVars PROVE Pending' OBVIOUS
  <2>1. CASE UNCHANGED gameVars
    BY <2>1 DEF gameVars, Pending
  <2> QED BY <2>1, CallsKeepPending, AnswersKeepPending, LoadersKeepPending DEF GameNext
<1> QED BY <1>1, <1>2, <1>3, StepKeepsSession, PTL DEF GameSpec

\* Whatever transfers, continues and the menu's choices do to each other between their
\* awaits: one scene at most has its listeners and it is the manager's, the handle names
\* the scene that is played, the lock of transfers is held exactly while one loads, and a
\* menu that is gone has left a running game (game.ts, SceneManager.change,
\* buildNextScene, handleTransfer; title-screen.ts, choose).
THEOREM OneSceneIsEntered == GameSpec => []OneSceneEntered
<1>1. ASSUME GInv, Pending PROVE GameTypeOK
  <2>1. ASSUME NEW i \in DOMAIN storage PROVE storage[i] \in StorageCall
    <3>1. storage[i] \in Asking BY <1>1 DEF GInv, Typed
    <3>2. storage[i].op = "read" => storage[i].scene \in DOMAIN scenes
      BY <1>1 DEF GInv, Typed, Pending, Known
    <3> QED BY <3>1, <3>2 DEF Asking, StorageCall, Doc
  <2>2. storage \in Seq(StorageCall)
    <3>1. storage \in Seq(Asking) BY <1>1 DEF GInv, Typed
    <3> QED BY <2>1, <3>1
  <2>3. loaders \subseteq [by : {"transfer", "api", "title"}, map : Maps, n : Nat]
    BY <1>1 DEF GInv, Typed, Pending, Loading
  <2>4. /\ running \in BOOLEAN /\ disposed \in BOOLEAN /\ inFlight \in BOOLEAN
        /\ world \in Nat /\ calls \in Nat /\ begun \in Nat
        /\ title \in {"off", "visible", "hidden"}
        /\ scenes \in Seq([map : Maps, entered : BOOLEAN, from : Nat])
        /\ current \in DOMAIN scenes /\ managed \in {0} \union DOMAIN scenes
        /\ mapId \in Maps
        /\ saved \in {NoSave} \union [map : Maps, n : Nat]
    BY <1>1 DEF GInv, Typed, Pending, Scene, Doc
  <2>5. {running, disposed, inFlight} \subseteq BOOLEAN /\ {world, calls, begun} \subseteq Nat
    BY <2>4
  <2> QED BY <2>2, <2>3, <2>4, <2>5 DEF GameTypeOK
<1>2. GInv => OneSceneListens /\ HandleFollowsScene /\ TransferLock
  BY DEF GInv, StageOK
<1>3. GInv => NoDeadScreen BY DEF GInv, StageOK, NoDeadScreen
<1>4. GInv /\ Pending => OneSceneEntered BY <1>1, <1>2, <1>3 DEF OneSceneEntered
<1> QED BY <1>4, SessionInvariant, PTL

\* When the calls have been answered the save is on the map the last transfer led to,
\* whatever was being saved, loaded or continued meanwhile (game.ts:242, the autosave).
THEOREM SaveAlwaysFollows == GameSpec => []SaveFollowsTransfer
<1>1. Pending => SaveFollowsTransfer
  <2> SUFFICES ASSUME Pending, changedBy = "transfer", storage = << >>
               PROVE  saved # NoSave /\ saved.map = mapId
    BY DEF SaveFollowsTransfer
  <2>1. Leads(<< >>, saved, mapId) BY DEF Pending
  <2>2. \A i \in DOMAIN << >> : FALSE OBVIOUS
  <2> QED BY <2>1, <2>2 DEF Leads
<1> QED BY <1>1, SessionInvariant, PTL

-----------------------------------------------------------------------------
(* The save slot                                                            *)

\* The transactions run in the order of the calls, of which k were made.
InOrder(q, k) == /\ \A i \in DOMAIN q : q[i] \in 1..k
                 /\ \A i, j \in DOMAIN q : i < j => q[i] < q[j]
Before(n, q) == \A i \in DOMAIN q : n < q[i]
NotAfter(n, q) == \A i \in DOMAIN q : n <= q[i]

\* What the database holds is what the last call that wrote has left.
Newest == \/ committed = {} /\ slot = 0
          \/ \E n \in committed : /\ \A k \in committed : k <= n
                                  /\ slot = IF made[n] = "clear" THEN 0 ELSE n

\* A load that was answered was answered with that; calls under way come later.
ReadRight(n) == \A v \in 0..MaxSlotCalls : answers[n] = <<"read", v>> =>
                  /\ n \in DOMAIN made /\ made[n] = "load" /\ v = LastWrite(n)
                  /\ NotAfter(n, queue) /\ Before(n, waiting)

\* AnswersFollowWrites needs to know that the calls before a load have been settled when
\* it is answered, and that those after it write later.
SlotInv == /\ SlotTypeOK /\ answers = [n \in Calls |-> answers[n]]
           /\ Len(made) <= MaxSlotCalls
           /\ db # "open" => queue = << >>
           /\ db # "opening" => waiting = << >>
           /\ InOrder(queue, Len(made)) /\ InOrder(waiting, Len(made))
           /\ \A n \in committed : /\ n \in DOMAIN made /\ made[n] # "load"
                                   /\ Before(n, queue) /\ Before(n, waiting)
           /\ Newest
           /\ \A n \in Calls : ReadRight(n)

\* The answers are told apart.
LEMMA AnswersDiffer ==
  \A v : /\ Unanswered # <<"read", v>> /\ Failed # <<"read", v>> /\ <<"done">> # <<"read", v>>
         /\ \A w : <<"read", w>> = <<"read", v>> => w = v
<1>1. \A v : Unanswered # <<"read", v>>
  <2>1. \A v : Unanswered[1] = "none" /\ <<"read", v>>[1] = "read" BY DEF Unanswered
  <2> QED BY <2>1
<1>2. \A v : Failed # <<"read", v>>
  <2>1. \A v : Failed[1] = "failed" /\ <<"read", v>>[1] = "read" BY DEF Failed
  <2> QED BY <2>1
<1>3. \A v : <<"done">> # <<"read", v>>
  <2>1. \A v : <<"done">>[1] = "done" /\ <<"read", v>>[1] = "read" OBVIOUS
  <2> QED BY <2>1
<1>4. \A v, w : <<"read", w>> = <<"read", v>> => w = v OBVIOUS
<1> QED BY <1>1, <1>2, <1>3, <1>4

\* The greatest of a set of naturals that a bound limits is in it.
LEMMA MaxIsGreatest ==
  ASSUME NEW N \in Nat, NEW S, S \subseteq 0..N, S # {}
  PROVE  Max(S) \in S /\ \A k \in S : k <= Max(S)
<1>1. \E n \in S : \A k \in S : k <= n BY Greatest
<1>2. \A n \in S : n \in Nat OBVIOUS
<1>3. \E n \in S : \A k \in S : n >= k BY <1>1, <1>2
<1>4. Max(S) \in S /\ \A k \in S : Max(S) >= k BY <1>3 DEF Max
<1> QED BY <1>2, <1>4

\* The last write before a call that comes after all of them is what the slot holds.
LEMMA SlotIsLastWrite ==
  ASSUME SlotInv, NEW m \in Calls, \A k \in committed : k < m
  PROVE  slot = LastWrite(m)
<1>1. {n \in committed : n < m} = committed OBVIOUS
<1>2. LastWrite(m) = IF committed = {} \/ made[Max(committed)] = "clear"
                       THEN 0 ELSE Max(committed)
  BY <1>1 DEF LastWrite
<1>3. CASE committed = {} /\ slot = 0 BY <1>2, <1>3
<1>4. CASE ~(committed = {} /\ slot = 0)
  <2>1. PICK n \in committed : /\ \A k \in committed : k <= n
                               /\ slot = IF made[n] = "clear" THEN 0 ELSE n
    BY <1>4 DEF SlotInv, Newest
  <2>2. MaxSlotCalls \in Nat /\ committed \subseteq 0..MaxSlotCalls
    BY SlotAssumption DEF SlotInv, SlotTypeOK, Calls
  <2>3. Max(committed) \in committed /\ \A k \in committed : k <= Max(committed)
    BY <2>1, <2>2, MaxIsGreatest
  <2>4. Max(committed) = n
    <3>1. \A k \in committed : k \in Nat BY <2>2
    <3>2. Max(committed) <= n /\ n <= Max(committed) BY <2>1, <2>3
    <3>3. Max(committed) \in Nat /\ n \in Nat BY <2>3, <3>1
    <3> QED BY <3>2, <3>3
  <2> QED BY <1>2, <2>1, <2>4
<1> QED BY <1>3, <1>4

\* What was last written before a call does not change by what is written after it.
LEMMA LastWriteStays ==
  ASSUME NEW m, committed \subseteq Calls,
         {n \in committed' : n < m} = {n \in committed : n < m},
         \A n \in committed : made'[n] = made[n]
  PROVE  LastWrite(m)' = LastWrite(m)
<1> DEFINE before == {n \in committed : n < m}
<1>1. LastWrite(m)' = IF before = {} \/ made'[Max(before)] = "clear" THEN 0 ELSE Max(before)
  BY DEF LastWrite
<1>2. LastWrite(m) = IF before = {} \/ made[Max(before)] = "clear" THEN 0 ELSE Max(before)
  BY DEF LastWrite
<1>3. CASE before = {}
  <2> HIDE DEF before
  <2> QED BY <1>1, <1>2, <1>3
<1>4. CASE before # {}
  <2>1. MaxSlotCalls \in Nat /\ before \subseteq 0..MaxSlotCalls
    <3>1. \A n \in before : n \in 1..MaxSlotCalls BY DEF Calls
    <3> QED BY <3>1, SlotAssumption
  <2>2. Max(before) \in before
    <3> HIDE DEF before
    <3> QED BY <1>4, <2>1, MaxIsGreatest
  <2>3. made'[Max(before)] = made[Max(before)] BY <2>2
  <2> HIDE DEF before
  <2> QED BY <1>1, <1>2, <2>3
<1> QED BY <1>3, <1>4

\* A call that is made joins a queue in order, and what came before all of it still does.
LEMMA OrderGrows ==
  ASSUME NEW q \in Seq(Nat), NEW k \in Nat, InOrder(q, k)
  PROVE  /\ InOrder(q, k + 1) /\ InOrder(Append(q, k + 1), k + 1)
         /\ \A m \in 1..k : /\ Before(m, q) => Before(m, Append(q, k + 1))
                            /\ NotAfter(m, q) => NotAfter(m, Append(q, k + 1))
<1> DEFINE p == Append(q, k + 1)
<1>1. /\ DOMAIN q = 1..Len(q) /\ DOMAIN p = 1..(Len(q) + 1) /\ Len(q) \in Nat
      /\ \A i \in 1..Len(q) : p[i] = q[i] /\ q[i] \in Nat
      /\ p[Len(q) + 1] = k + 1
  OBVIOUS
<1>2. \A i \in 1..Len(q) : q[i] \in 1..k BY <1>1 DEF InOrder
<1>3. \A i, j \in 1..Len(q) : i < j => q[i] < q[j] BY <1>1 DEF InOrder
<1> HIDE DEF p
<1>4. InOrder(q, k + 1) BY <1>1, <1>2, <1>3 DEF InOrder
<1>5. InOrder(p, k + 1)
  <2>1. \A i \in 1..(Len(q) + 1) : i \in 1..Len(q) \/ i = Len(q) + 1 BY <1>1
  <2>2. \A i \in DOMAIN p : p[i] \in 1..(k + 1) BY <1>1, <1>2, <2>1
  <2>3. ASSUME NEW i \in DOMAIN p, NEW j \in DOMAIN p, i < j PROVE p[i] < p[j]
    <3>1. i \in 1..Len(q) BY <1>1, <2>3
    <3>2. CASE j \in 1..Len(q) BY <1>1, <1>3, <2>3, <3>1, <3>2
    <3>3. CASE j = Len(q) + 1 BY <1>1, <1>2, <3>1, <3>3
    <3> QED BY <1>1, <2>1, <3>2, <3>3
  <2> QED BY <2>2, <2>3 DEF InOrder
<1>6. ASSUME NEW m \in 1..k
      PROVE  /\ Before(m, q) => Before(m, p)
             /\ NotAfter(m, q) => NotAfter(m, p)
  <2>1. \A i \in DOMAIN p : p[i] = k + 1 \/ (i \in DOMAIN q /\ p[i] = q[i]) BY <1>1
  <2> QED BY <2>1 DEF Before, NotAfter
<1> QED BY <1>4, <1>5, <1>6 DEF p

\* The first call of a queue comes before the rest of it.
LEMMA OrderTail ==
  ASSUME NEW q \in Seq(Nat), NEW k \in Nat, InOrder(q, k), q # << >>
  PROVE  /\ Head(q) \in 1..k /\ NotAfter(Head(q), q) /\ Before(Head(q), Tail(q))
         /\ InOrder(Tail(q), k)
         /\ \A m : Before(m, q) => m < Head(q) /\ Before(m, Tail(q))
         /\ \A m : NotAfter(m, q) => m <= Head(q) /\ NotAfter(m, Tail(q))
<1> DEFINE p == Tail(q)
<1>1. /\ Len(q) \in Nat /\ Len(q) >= 1 /\ DOMAIN q = 1..Len(q) /\ DOMAIN p = 1..(Len(q) - 1)
      /\ \A i \in 1..(Len(q) - 1) : p[i] = q[i + 1]
      /\ Head(q) = q[1] /\ \A i \in DOMAIN q : q[i] \in Nat
  OBVIOUS
<1>2. \A i \in DOMAIN q : q[i] \in 1..k BY DEF InOrder
<1>3. \A i, j \in DOMAIN q : i < j => q[i] < q[j] BY DEF InOrder
<1> HIDE DEF p
<1>4. 1 \in DOMAIN q /\ \A i \in DOMAIN p : i + 1 \in DOMAIN q /\ p[i] = q[i + 1] BY <1>1
<1>5. Head(q) \in 1..k BY <1>1, <1>2, <1>4
<1>6. NotAfter(Head(q), q)
  <2>1. \A i \in DOMAIN q : i = 1 \/ 1 < i BY <1>1
  <2>2. \A i \in DOMAIN q : q[1] = q[i] \/ q[1] < q[i] BY <1>3, <1>4, <2>1
  <2> QED BY <1>1, <1>2, <1>4, <2>2 DEF NotAfter
<1>7. Before(Head(q), p)
  <2>1. \A i \in DOMAIN p : 1 < i + 1 BY <1>1
  <2> QED BY <1>1, <1>3, <1>4, <2>1 DEF Before
<1>8. InOrder(p, k)
  <2>1. \A i, j \in DOMAIN p : i < j => i + 1 < j + 1 BY <1>1
  <2> QED BY <1>2, <1>3, <1>4, <2>1 DEF InOrder
<1>9. \A m : Before(m, q) => m < Head(q) /\ Before(m, p) BY <1>1, <1>4 DEF Before
<1>10. \A m : NotAfter(m, q) => m <= Head(q) /\ NotAfter(m, p) BY <1>1, <1>4 DEF NotAfter
<1> QED BY <1>5, <1>6, <1>7, <1>8, <1>9, <1>10 DEF p

\* An answered load keeps its answer while no call before it is under way.
LEMMA ReadStays ==
  ASSUME NEW m \in Calls, ReadRight(m), committed \subseteq Calls,
         answers'[m] = answers[m],
         m \in DOMAIN made => m \in DOMAIN made' /\ made'[m] = made[m],
         \A n \in committed : made'[n] = made[n],
         m \in DOMAIN made /\ made[m] = "load" /\ NotAfter(m, queue) =>
           {n \in committed' : n < m} = {n \in committed : n < m},
         m \in DOMAIN made /\ NotAfter(m, queue) /\ Before(m, waiting) =>
           NotAfter(m, queue') /\ Before(m, waiting')
  PROVE  ReadRight(m)'
<1> SUFFICES ASSUME NEW v \in 0..MaxSlotCalls, answers'[m] = <<"read", v>>
             PROVE  /\ m \in DOMAIN made' /\ made'[m] = "load" /\ v = LastWrite(m)'
                    /\ NotAfter(m, queue') /\ Before(m, waiting')
  BY DEF ReadRight, NotAfter, Before
<1>1. /\ m \in DOMAIN made /\ made[m] = "load" /\ v = LastWrite(m)
      /\ NotAfter(m, queue) /\ Before(m, waiting)
  BY DEF ReadRight
<1>2. LastWrite(m)' = LastWrite(m) BY <1>1, LastWriteStays
<1> QED BY <1>1, <1>2

\* The parts of the invariant, for a step that makes no call and commits nothing: what
\* is left is in order, comes after the writes, and no answer is changed to a read.
LEMMA QuietStep ==
  ASSUME SlotInv, SlotTypeOK', answers' = [n \in Calls |-> answers'[n]],
         UNCHANGED <<made, slot, committed>>,
         db' # "open" => queue' = << >>,
         db' # "opening" => waiting' = << >>,
         InOrder(queue', Len(made)), InOrder(waiting', Len(made)),
         \A n \in Calls : Before(n, queue) /\ Before(n, waiting) =>
                            Before(n, queue') /\ Before(n, waiting'),
         \A n \in Calls : NotAfter(n, queue) /\ Before(n, waiting) =>
                            NotAfter(n, queue') /\ Before(n, waiting'),
         \A n \in Calls : \/ answers'[n] = answers[n]
                          \/ \A v : answers'[n] # <<"read", v>>
  PROVE  SlotInv'
<1> USE DEF SlotInv
<1>1. committed \subseteq Calls BY DEF SlotTypeOK
<1>2. Newest' BY DEF Newest
<1>3. \A n \in committed' : /\ n \in DOMAIN made' /\ made'[n] # "load"
                            /\ Before(n, queue)' /\ Before(n, waiting)'
  BY <1>1 DEF Before
<1>4. InOrder(queue, Len(made))' /\ InOrder(waiting, Len(made))' BY DEF InOrder
<1>5. ASSUME NEW n \in Calls PROVE ReadRight(n)'
  <2>1. ReadRight(n) OBVIOUS
  <2>2. CASE answers'[n] = answers[n]
    <3>1. NotAfter(n, queue) /\ Before(n, waiting) =>
            NotAfter(n, queue') /\ Before(n, waiting')
      OBVIOUS
    <3> HIDE DEF SlotInv
    <3> QED BY <1>1, <2>1, <2>2, <3>1, ReadStays
  <2>3. CASE \A v : answers'[n] # <<"read", v>> BY <2>3 DEF ReadRight
  <2> QED BY <2>2, <2>3
<1> QED BY <1>2, <1>3, <1>4, <1>5

\* Initially nothing was called.
LEMMA SlotInitially == SlotInit => SlotInv
<1> SUFFICES ASSUME SlotInit PROVE SlotInv OBVIOUS
<1> USE DEF SlotInit
<1>1. SlotTypeOK
  <2>1. 0 \in 0..MaxSlotCalls BY SlotAssumption
  <2>2. \A n \in Calls : answers[n] = Unanswered OBVIOUS
  <2>3. /\ << >> \in Seq({"save", "load", "clear"}) /\ << >> \in Seq(Calls)
        /\ {FALSE} \subseteq BOOLEAN /\ {} \subseteq Calls
    OBVIOUS
  <2>4. {succeeded, crashed} \subseteq BOOLEAN OBVIOUS
  <2> HIDE DEF Calls
  <2> QED BY <2>1, <2>2, <2>3, <2>4 DEF SlotTypeOK
<1>2. InOrder(<< >>, 0) BY DEF InOrder
<1>3. Newest BY DEF Newest
<1>4. \A n \in Calls : ReadRight(n) BY AnswersDiffer DEF ReadRight
<1>5. Len(made) = 0 /\ 0 <= MaxSlotCalls BY SlotAssumption
<1> QED BY <1>1, <1>2, <1>3, <1>4, <1>5 DEF SlotInv

\* The types hold after every step.
LEMMA SlotTypes == ASSUME SlotInv, SlotNext
                   PROVE  SlotTypeOK' /\ answers' = [n \in Calls |-> answers'[n]]
<1> USE SlotAssumption DEF SlotInv, SlotTypeOK
<1> DEFINE Answer(a) == \/ a \in {Unanswered, Failed, <<"done">>}
                          \/ \E v \in 0..MaxSlotCalls : a = <<"read", v>>
<1>1. CASE \E op \in {"save", "load", "clear"} : Request(op)
  <2>1. PICK op \in {"save", "load", "clear"} : Request(op) BY <1>1
  <2> DEFINE n == Len(made) + 1
  <2>2. n \in Calls /\ made' \in Seq({"save", "load", "clear"})
    BY <2>1 DEF Request, Calls
  <2>3. UNCHANGED <<succeeded, slot, committed, crashed>> BY <2>1 DEF Request
  <2>4. Append(waiting, n) \in Seq(Calls) /\ Append(queue, n) \in Seq(Calls) BY <2>2
  <2> HIDE DEF n
  <2>5. CASE db \in {"none", "opening"}
    <3>1. db' = "opening" /\ waiting' = Append(waiting, n) /\ UNCHANGED <<queue, answers>>
      BY <2>1, <2>5 DEF Request, n
    <3> QED BY <2>2, <2>3, <2>4, <3>1
  <2>6. CASE db = "open"
    <3>1. queue' = Append(queue, n) /\ UNCHANGED <<db, waiting, answers>>
      BY <2>1, <2>6 DEF Request, n
    <3> QED BY <2>2, <2>3, <2>4, <3>1
  <2>7. CASE db = "rejected"
    <3>1. /\ answers' = [answers EXCEPT ![n] = Failed] /\ UNCHANGED <<db, waiting, queue>>
      BY <2>1, <2>7 DEF Request, n, Settled
    <3>2. \A k \in Calls : Answer(answers[k])' BY <3>1
    <3> QED BY <2>2, <2>3, <3>1, <3>2
  <2> QED BY <2>5, <2>6, <2>7
<1>2. CASE OpenSucceeds BY <1>2 DEF OpenSucceeds
<1>3. CASE OpenFails BY <1>3 DEF OpenFails
<1>4. ASSUME Running PROVE Head(queue) \in Calls /\ Tail(queue) \in Seq(Calls)
  BY <1>4 DEF Running
<1>5. CASE RequestSucceeds BY <1>4, <1>5 DEF RequestSucceeds, Settled
<1>6. CASE RequestFails BY <1>4, <1>6 DEF RequestFails, Settled
<1>7. CASE Commits
  <2>1. Head(queue) \in Calls /\ Tail(queue) \in Seq(Calls) BY <1>4, <1>7 DEF Commits
  <2>2. slot' \in {Head(queue), 0, slot} /\ committed' \subseteq committed \union {Head(queue)}
    BY <1>7 DEF Commits
  <2>3. Head(queue) \in 0..MaxSlotCalls /\ 0 \in 0..MaxSlotCalls BY <2>1 DEF Calls
  <2>4. /\ queue' = Tail(queue) /\ succeeded' = FALSE
        /\ UNCHANGED <<db, made, waiting, answers, crashed>>
    BY <1>7 DEF Commits
  <2>5. slot' \in 0..MaxSlotCalls /\ committed' \subseteq Calls BY <2>1, <2>2, <2>3
  <2> QED BY <2>1, <2>4, <2>5
<1>8. CASE Aborts BY <1>4, <1>8 DEF Aborts
<1>9. CASE Crash BY <1>9 DEF Crash
<1> QED BY <1>1, <1>2, <1>3, <1>5, <1>6, <1>7, <1>8, <1>9 DEF SlotNext

\* A call: it joins a queue behind every other, or fails at once.
LEMMA SlotRequest == ASSUME SlotInv, NEW op \in {"save", "load", "clear"}, Request(op)
                     PROVE  SlotInv'
<1> DEFINE n == Len(made) + 1
<1>1. SlotTypeOK' /\ answers' = [k \in Calls |-> answers'[k]] BY SlotTypes DEF SlotNext
<1>2. /\ Len(made) \in Nat /\ n \in Calls /\ made' = Append(made, op)
      /\ UNCHANGED <<succeeded, slot, committed, crashed>>
  BY SlotAssumption DEF SlotInv, SlotTypeOK, Request, Calls
<1>3. /\ Len(made') = n /\ Len(made') <= MaxSlotCalls
      /\ DOMAIN made = 1..Len(made)
      /\ \A k \in DOMAIN made : k \in DOMAIN made' /\ made'[k] = made[k]
  BY SlotAssumption DEF SlotInv, SlotTypeOK, Request
<1>4. committed \subseteq Calls /\ \A k \in committed : k \in 1..Len(made) /\ made'[k] = made[k]
  BY <1>3 DEF SlotInv, SlotTypeOK
<1>5. queue \in Seq(Nat) /\ waiting \in Seq(Nat)
  <2>1. Calls \subseteq Nat BY DEF Calls
  <2> QED BY <2>1 DEF SlotInv, SlotTypeOK
<1>6. InOrder(queue, Len(made)) /\ InOrder(waiting, Len(made)) BY DEF SlotInv
<1>7. /\ InOrder(queue, n) /\ InOrder(waiting, n)
      /\ InOrder(Append(queue, n), n) /\ InOrder(Append(waiting, n), n)
      /\ \A k \in 1..Len(made) :
           /\ Before(k, queue) => Before(k, Append(queue, n))
           /\ Before(k, waiting) => Before(k, Append(waiting, n))
           /\ NotAfter(k, queue) => NotAfter(k, Append(queue, n))
  BY <1>2, <1>5, <1>6, OrderGrows
<1> HIDE DEF n
<1>8. /\ queue' \in {queue, Append(queue, n)}
      /\ waiting' \in {waiting, Append(waiting, n)}
      /\ db' # "open" => queue' = << >>
      /\ db' # "opening" => waiting' = << >>
  BY DEF SlotInv, SlotTypeOK, Request, n
<1>9. \A k \in Calls : answers'[k] = answers[k] \/ answers'[k] = Failed
  <2>1. answers = [k \in Calls |-> answers[k]] BY DEF SlotInv
  <2>2. answers' = answers \/ answers' = [answers EXCEPT ![n] = Failed]
    <3>1. db \in {"none", "opening", "open", "rejected"} BY DEF SlotInv, SlotTypeOK
    <3> QED BY <3>1 DEF Request, Settled, n
  <2> QED BY <2>1, <2>2
<1>10. InOrder(queue', n) /\ InOrder(waiting', n) BY <1>7, <1>8
<1>11. \A k \in 1..Len(made) :
         /\ Before(k, queue) => Before(k, queue')
         /\ Before(k, waiting) => Before(k, waiting')
         /\ NotAfter(k, queue) => NotAfter(k, queue')
  BY <1>7, <1>8
<1>12. Newest'
  <2>1. Newest BY DEF SlotInv
  <2> QED BY <1>2, <1>4, <2>1 DEF Newest
<1>13. \A k \in committed' : /\ k \in DOMAIN made' /\ made'[k] # "load"
                             /\ Before(k, queue') /\ Before(k, waiting')
  <2>1. \A k \in committed : /\ k \in DOMAIN made /\ made[k] # "load"
                             /\ Before(k, queue) /\ Before(k, waiting)
    BY DEF SlotInv
  <2> QED BY <1>2, <1>3, <1>4, <1>11, <2>1
<1>14. ASSUME NEW k \in Calls PROVE ReadRight(k)'
  <2>1. ReadRight(k) BY DEF SlotInv
  <2>2. CASE answers'[k] = answers[k]
    <3>1. k \in DOMAIN made /\ NotAfter(k, queue) /\ Before(k, waiting) =>
            NotAfter(k, queue') /\ Before(k, waiting')
      BY <1>3, <1>11
    <3>2. {i \in committed' : i < k} = {i \in committed : i < k} BY <1>2
    <3> QED BY <1>3, <1>4, <2>1, <2>2, <3>1, <3>2, ReadStays
  <2>3. CASE answers'[k] = Failed BY <2>3, AnswersDiffer DEF ReadRight
  <2> QED BY <1>9, <2>2, <2>3
<1>15. \A k \in committed' : Before(k, queue)' /\ Before(k, waiting)'
  BY <1>13 DEF Before
<1>16. InOrder(queue, Len(made))' /\ InOrder(waiting, Len(made))'
  BY <1>3, <1>10 DEF InOrder
<1> QED BY <1>1, <1>3, <1>8, <1>12, <1>13, <1>14, <1>15, <1>16 DEF SlotInv

\* The open succeeds, fails or is blocked.
LEMMA SlotOpens == ASSUME SlotInv, OpenSucceeds \/ OpenFails PROVE SlotInv'
<1>1. SlotTypeOK' /\ answers' = [k \in Calls |-> answers'[k]] BY SlotTypes DEF SlotNext
<1>2. /\ InOrder(queue, Len(made)) /\ InOrder(waiting, Len(made))
      /\ db = "opening" /\ queue = << >> /\ UNCHANGED <<made, slot, committed>>
      /\ waiting' = << >>
      /\ \/ db' = "open" /\ queue' = waiting
         \/ db' = "rejected" /\ queue' = << >>
  BY DEF SlotInv, OpenSucceeds, OpenFails
<1>3. InOrder(<< >>, Len(made)) BY DEF InOrder
<1>4. \A k : Before(k, << >>) /\ NotAfter(k, << >>) BY DEF Before, NotAfter
<1>5. \A k \in Calls : Before(k, waiting) => NotAfter(k, waiting)
  <2>1. waiting \in Seq(Calls) /\ \A i \in Calls : i \in Nat BY DEF SlotInv, SlotTypeOK, Calls
  <2>2. \A i \in DOMAIN waiting : waiting[i] \in Nat BY <2>1
  <2> QED BY <2>1, <2>2 DEF Before, NotAfter
<1>6. \A k \in Calls : answers'[k] = answers[k] \/ answers'[k] = Failed
  BY DEF SlotInv, OpenSucceeds, OpenFails
<1>7. \A k \in Calls : answers'[k] = answers[k] \/ \A v : answers'[k] # <<"read", v>>
  BY <1>6, AnswersDiffer
<1> QED BY <1>1, <1>2, <1>3, <1>4, <1>5, <1>7, QuietStep

\* What the first transaction is, and what is left when it ends.
LEMMA FirstOfQueue ==
  ASSUME SlotInv, Running
  PROVE  /\ Head(queue) \in Calls /\ Head(queue) \in DOMAIN made /\ NotAfter(Head(queue), queue)
         /\ Before(Head(queue), Tail(queue)) /\ InOrder(Tail(queue), Len(made))
         /\ \A k \in Calls : Before(k, queue) => k < Head(queue) /\ Before(k, Tail(queue))
         /\ \A k \in Calls : NotAfter(k, queue) => k <= Head(queue) /\ NotAfter(k, Tail(queue))
         /\ waiting = << >> /\ db = "open"
<1>1. queue \in Seq(Nat) /\ Len(made) \in Nat /\ DOMAIN made = 1..Len(made)
  <2>1. Calls \subseteq Nat BY DEF Calls
  <2> QED BY <2>1 DEF SlotInv, SlotTypeOK
<1>2. queue # << >> /\ InOrder(queue, Len(made)) BY DEF SlotInv, Running
<1>3. Head(queue) \in Calls BY <1>2 DEF SlotInv, SlotTypeOK
<1>4. waiting = << >> /\ db = "open" BY <1>2 DEF SlotInv
<1> QED BY <1>1, <1>2, <1>3, <1>4, OrderTail

\* A request succeeds: a load is answered with what the slot holds.
LEMMA SlotAnswers == ASSUME SlotInv, RequestSucceeds PROVE SlotInv'
<1>0. PICK h : h = Head(queue) OBVIOUS
<1>1. SlotTypeOK' /\ answers' = [k \in Calls |-> answers'[k]] BY SlotTypes DEF SlotNext
<1>2. /\ h \in Calls /\ h \in DOMAIN made /\ NotAfter(h, queue) /\ waiting = << >>
      /\ \A k \in Calls : Before(k, queue) => k < h
  BY <1>0, FirstOfQueue DEF RequestSucceeds
<1>3. /\ answers' = [answers EXCEPT ![h] = IF made[h] = "load" THEN <<"read", slot>>
                                                               ELSE <<"done">>]
      /\ UNCHANGED <<db, made, waiting, queue, slot, committed, crashed>>
  BY <1>0 DEF RequestSucceeds, Settled, Op
<1>4. committed \subseteq Calls BY DEF SlotInv, SlotTypeOK
<1>5. Before(h, waiting) BY <1>2 DEF Before
<1>6. ASSUME NEW k \in Calls PROVE ReadRight(k)'
  <2>1. CASE k = h /\ made[h] = "load"
    <3>1. \A i \in committed : i < h BY <1>2, <1>4 DEF SlotInv
    <3>2. slot = LastWrite(h) BY <1>2, <3>1, SlotIsLastWrite
    <3>3. LastWrite(h)' = LastWrite(h) BY <1>3, <1>4, LastWriteStays
    <3>4. answers'[h] = <<"read", slot>> BY <1>2, <1>3, <2>1 DEF SlotInv
    <3>5. \A v : answers'[h] = <<"read", v>> => v = slot BY <3>4, AnswersDiffer
    <3>6. NotAfter(h, queue)' /\ Before(h, waiting)'
      BY <1>2, <1>3, <1>5 DEF NotAfter, Before
    <3>7. h \in DOMAIN made' /\ made'[h] = "load" BY <1>2, <1>3, <2>1
    <3>8. \A v : answers'[h] = <<"read", v>> => v = LastWrite(h)' BY <3>2, <3>3, <3>5
    <3> QED BY <2>1, <3>6, <3>7, <3>8 DEF ReadRight
  <2>2. CASE k = h /\ made[h] # "load"
    <3>1. answers'[k] = <<"done">> BY <1>2, <1>3, <2>2 DEF SlotInv
    <3> QED BY <3>1, AnswersDiffer DEF ReadRight
  <2>3. CASE k # h
    <3>1. ReadRight(k) BY DEF SlotInv
    <3>2. answers'[k] = answers[k] BY <1>3, <2>3 DEF SlotInv
    <3> QED BY <1>3, <1>4, <3>1, <3>2, ReadStays
  <2> QED BY <2>1, <2>2, <2>3
<1>7. /\ InOrder(queue, Len(made))' /\ InOrder(waiting, Len(made))' /\ Newest'
      /\ \A n \in committed' : /\ n \in DOMAIN made' /\ made'[n] # "load"
                               /\ Before(n, queue)' /\ Before(n, waiting)'
  BY <1>3 DEF SlotInv, InOrder, Before, Newest
<1> QED BY <1>1, <1>3, <1>6, <1>7 DEF SlotInv

\* A transaction ends without a write: its request failed or it was aborted.
LEMMA SlotDrops == ASSUME SlotInv, RequestFails \/ Aborts PROVE SlotInv'
<1> DEFINE h == Head(queue)
<1>1. SlotTypeOK' /\ answers' = [k \in Calls |-> answers'[k]] BY SlotTypes DEF SlotNext
<1>2. /\ h \in Calls /\ InOrder(Tail(queue), Len(made)) /\ waiting = << >> /\ db = "open"
      /\ \A k \in Calls : Before(k, queue) => Before(k, Tail(queue))
      /\ \A k \in Calls : NotAfter(k, queue) => NotAfter(k, Tail(queue))
  BY FirstOfQueue DEF RequestFails, Aborts
<1>3. queue' = Tail(queue) /\ UNCHANGED <<db, made, waiting, slot, committed, crashed>>
  BY DEF RequestFails, Aborts
<1>4. \A k \in Calls : answers'[k] = answers[k] \/ answers'[k] = Failed
  BY DEF SlotInv, RequestFails, Aborts, Settled
<1>5. \A k \in Calls : answers'[k] = answers[k] \/ \A v : answers'[k] # <<"read", v>>
  BY <1>4, AnswersDiffer
<1>6. InOrder(waiting, Len(made)) BY DEF SlotInv
<1> HIDE DEF h
<1> QED BY <1>1, <1>2, <1>3, <1>5, <1>6, QuietStep

\* A transaction commits: it is the last of those that wrote, and no load that was
\* answered came after it.
LEMMA SlotCommits == ASSUME SlotInv, Commits PROVE SlotInv'
<1> DEFINE h == Head(queue)
<1>1. SlotTypeOK' /\ answers' = [k \in Calls |-> answers'[k]] BY SlotTypes DEF SlotNext
<1>2. /\ h \in Calls /\ h \in DOMAIN made /\ waiting = << >> /\ db = "open"
      /\ Before(h, Tail(queue)) /\ InOrder(Tail(queue), Len(made))
      /\ \A k \in Calls : Before(k, queue) => k < h /\ Before(k, Tail(queue))
      /\ \A k \in Calls : NotAfter(k, queue) => k <= h /\ NotAfter(k, Tail(queue))
  BY FirstOfQueue DEF Commits
<1>3. /\ queue' = Tail(queue) /\ UNCHANGED <<db, made, waiting, answers, crashed>>
      /\ slot' = CASE made[h] = "save" -> h [] made[h] = "clear" -> 0 [] OTHER -> slot
      /\ committed' = IF made[h] = "load" THEN committed ELSE committed \union {h}
  BY DEF Commits, Op
<1>4. /\ committed \subseteq Calls /\ made[h] \in {"save", "load", "clear"}
      /\ InOrder(waiting, Len(made)) /\ Newest
      /\ \A k \in Calls : k \in Nat
      /\ \A k \in committed : /\ k \in DOMAIN made /\ made[k] # "load"
                              /\ Before(k, queue) /\ Before(k, waiting)
  BY <1>2 DEF SlotInv, SlotTypeOK, Calls
<1> HIDE DEF h
<1>5. \A k \in committed : k < h BY <1>2, <1>4
<1>6. Newest'
  <2>1. CASE made[h] = "load" BY <1>3, <1>4, <2>1 DEF Newest
  <2>2. CASE made[h] # "load"
    <3>1. h \in committed' /\ \A k \in committed' : k <= h BY <1>2, <1>3, <1>4, <1>5, <2>2
    <3>2. slot' = IF made'[h] = "clear" THEN 0 ELSE h BY <1>3, <1>4, <2>2
    <3> QED BY <3>1, <3>2 DEF Newest
  <2> QED BY <2>1, <2>2
<1>7. \A k \in committed' : /\ k \in DOMAIN made' /\ made'[k] # "load"
                            /\ Before(k, queue') /\ Before(k, waiting')
  <2>1. Before(h, waiting) BY <1>2 DEF Before
  <2> QED BY <1>2, <1>3, <1>4, <2>1
<1>8. ASSUME NEW k \in Calls PROVE ReadRight(k)'
  <2>1. ReadRight(k) BY DEF SlotInv
  <2>2. ASSUME k \in DOMAIN made, made[k] = "load", NotAfter(k, queue)
        PROVE  {i \in committed' : i < k} = {i \in committed : i < k}
    <3>1. k <= h /\ k \in Nat /\ h \in Nat BY <1>2, <1>4, <2>2
    <3>2. ~(h < k) BY <3>1
    <3> QED BY <1>3, <3>2
  <2>3. NotAfter(k, queue) /\ Before(k, waiting) => NotAfter(k, queue') /\ Before(k, waiting')
    BY <1>2, <1>3
  <2> QED BY <1>3, <1>4, <2>1, <2>2, <2>3, ReadStays
<1>9. /\ InOrder(queue, Len(made))' /\ InOrder(waiting, Len(made))'
      /\ \A k \in committed' : Before(k, queue)' /\ Before(k, waiting)'
  BY <1>2, <1>3, <1>4, <1>7 DEF InOrder, Before
<1>10. /\ Len(made') <= MaxSlotCalls
       /\ db' # "open" => queue' = << >>
       /\ db' # "opening" => waiting' = << >>
  BY <1>2, <1>3 DEF SlotInv
<1> QED BY <1>1, <1>6, <1>7, <1>8, <1>9, <1>10 DEF SlotInv

\* The tab goes away with what is under way.
LEMMA SlotCrashes == ASSUME SlotInv, Crash PROVE SlotInv'
<1>1. SlotTypeOK' /\ answers' = [k \in Calls |-> answers'[k]] BY SlotTypes DEF SlotNext
<1>2. queue' = << >> /\ waiting' = << >> /\ UNCHANGED <<db, made, slot, answers, committed>>
  BY DEF Crash
<1>3. InOrder(<< >>, Len(made)) BY DEF InOrder
<1>4. \A k : Before(k, << >>) /\ NotAfter(k, << >>) BY DEF Before, NotAfter
<1> QED BY <1>1, <1>2, <1>3, <1>4, QuietStep

\* The invariant holds of the slot, for any number of calls.
THEOREM SlotInvariant == SlotSpec => []SlotInv
<1>1. ASSUME SlotInv, [SlotNext]_slotVars PROVE SlotInv'
  <2>1. CASE UNCHANGED slotVars
    BY <1>1, <2>1 DEF slotVars, SlotInv, SlotTypeOK, InOrder, Before, NotAfter, Newest,
                      ReadRight, LastWrite
  <2>2. CASE SlotNext
    BY <1>1, <2>2, SlotRequest, SlotOpens, SlotAnswers, SlotDrops, SlotCommits, SlotCrashes
       DEF SlotNext
  <2> QED BY <1>1, <2>1, <2>2
<1> QED BY <1>1, SlotInitially, PTL DEF SlotSpec

\* A load returns what the calls before it left, however many calls pile up behind the
\* open, in whatever way it ends (indexeddb-storage.ts:27, the cached open).
THEOREM LoadsReadInOrder == SlotSpec => []LoadsFollowWrites
<1>1. SlotInv => LoadsFollowWrites
  BY DEF SlotInv, ReadRight, LoadsFollowWrites, AnswersFollowWrites
<1> QED BY <1>1, SlotInvariant, PTL

-----------------------------------------------------------------------------
(* The scripts                                                              *)

\* The revisions that deploy/ has files of.
Made == RevisionsOf(deploy.www) \union ({deploy.readme} \ {0})

\* A revision that build-www lets pass.
Passed(r) == r \in 1..head /\ tree[r].flaw = "none" /\ tree[r].data # {}

\* The names a file may have in www/, and the steps of the two scripts.
Names == (UNION Samples) \union Page \union {"runtime.js"}
Steps == {"none", "build", "clean", "bundle", "copy data", "write page", "check bundle",
          "check data", "server", "remove", "assemble", "write README"}

\* The steps that follow on the emptying of www/: what is there is of the revision that is
\* checked out, and what each check has let pass.
Filling == {"bundle", "copy data", "write page", "check bundle", "check data"}
Deploying == {"server", "remove", "assemble", "write README"}
WwwInv ==
  /\ script.step \in Filling \union Deploying => RevisionsOf(www) \subseteq {head}
  /\ script.step = "bundle" => www = NoFiles
  /\ script.step \in Filling \ {"bundle"} => "runtime.js" \in DOMAIN www
  /\ script.step \in {"write page", "check bundle", "check data"} => tree[head].data # {}
  /\ script.step = "check data" => tree[head].flaw # "banned API"
  /\ script.step \in Deploying => Passed(head)

\* build-deploy compiles the schemas of this revision before it runs build-www.
ScriptInv ==
  /\ script \in [name : {"none", "build-www", "build-deploy"}, step : Steps, skip : BOOLEAN]
  /\ script.step = "none" <=> script.name = "none"
  /\ script.name = "none" => script = Idle
  /\ script.step \in {"build"} \union Deploying => script.name = "build-deploy"
  /\ script.name = "build-deploy" /\ script.step \in Filling \union {"clean"} => dist = head

\* deploy/ has one revision, which passed; while it is filled, it is the one checked out.
DeployInv ==
  /\ \A a, b \in Made : a = b
  /\ \A r \in Made : Passed(r)
  /\ script.step = "assemble" => deploy = NoDeploy
  /\ script.step = "write README" => RevisionsOf(deploy.www) \subseteq {head} /\ deploy.readme = 0

\* A directory: a revision for each of its files.
IsDir(dir) == DOMAIN dir \subseteq Names /\ dir = [f \in DOMAIN dir |-> dir[f]]

\* Types, and each of the three.
BuildInv ==
  /\ tree \in Seq(Revision) /\ head > 0 /\ dist \in 0..head /\ binary \in 0..head
  /\ IsDir(www) /\ IsDir(deploy.www)
  /\ deploy = [server |-> deploy.server, readme |-> deploy.readme, www |-> deploy.www]
  /\ deploy.server \in 0..head /\ deploy.readme \in 0..head /\ verified \in BOOLEAN
  /\ ScriptInv /\ WwwInv /\ DeployInv

\* What a step does to a directory.
LEMMA KeepDir ==
  ASSUME NEW dir, IsDir(dir), NEW names
  PROVE  /\ IsDir(Keep(dir, names)) /\ DOMAIN Keep(dir, names) = DOMAIN dir \cap names
         /\ RevisionsOf(Keep(dir, names)) \subseteq RevisionsOf(dir)
BY DEF IsDir, Keep, RevisionsOf

\* Files are written over those of a directory.
LEMMA PutDir ==
  ASSUME NEW dir, IsDir(dir), NEW names \in SUBSET Names
  PROVE  /\ IsDir(PutFiles(dir, names)) /\ DOMAIN PutFiles(dir, names) = DOMAIN dir \union names
         /\ RevisionsOf(PutFiles(dir, names)) \subseteq RevisionsOf(dir) \union {head}
BY DEF IsDir, PutFiles, RevisionsOf, Over

\* One directory is copied over another.
LEMMA OverDir ==
  ASSUME NEW dir, IsDir(dir), NEW over, IsDir(over)
  PROVE  /\ IsDir(Over(over, dir)) /\ DOMAIN Over(over, dir) = DOMAIN dir \union DOMAIN over
         /\ RevisionsOf(Over(over, dir)) \subseteq RevisionsOf(dir) \union RevisionsOf(over)
BY DEF IsDir, RevisionsOf, Over

\* A script that has ended leaves nothing to say of its steps.
LEMMA IdleIs ==
  ASSUME script = Idle
  PROVE  script.step = "none" /\ script.name = "none" /\ script.skip = FALSE
BY DEF Idle

\* What is so at a step is so of the revision it checks out.
LEMMA BuildInvInit == BuildInit => BuildInv
<1> SUFFICES ASSUME BuildInit PROVE BuildInv OBVIOUS
<1>1. PICK r \in Revision : tree = <<r>> BY DEF BuildInit
<1>2. tree \in Seq(Revision) /\ head = 1 BY <1>1 DEF head
<1>3. IsDir(NoFiles) /\ DOMAIN NoFiles = {} BY DEF IsDir, NoFiles
<1>4. Made = {} BY <1>3 DEF Made, RevisionsOf, BuildInit, NoDeploy
<1>5. ScriptInv BY IdleIs DEF BuildInit, ScriptInv, Idle, Steps, Deploying, Filling
<1>6. WwwInv BY IdleIs DEF BuildInit, WwwInv, Deploying, Filling
<1>7. DeployInv BY <1>4, IdleIs DEF BuildInit, DeployInv
<1>8. /\ IsDir(www) /\ dist = 0 /\ binary = 0 /\ verified \in BOOLEAN
      /\ deploy = [server |-> deploy.server, readme |-> deploy.readme, www |-> deploy.www]
      /\ IsDir(deploy.www) /\ deploy.server = 0 /\ deploy.readme = 0
  BY <1>3 DEF BuildInit, NoDeploy
<1> QED BY <1>2, <1>5, <1>6, <1>7, <1>8 DEF BuildInv

\* A script begins, or somebody commits.
LEMMA EditKeeps == ASSUME BuildInv, Edit PROVE BuildInv'
<1>1. PICK r \in Revision : tree' = Append(tree, r) BY DEF Edit
<1>2. tree' \in Seq(Revision) /\ head' = head + 1 /\ head \in Nat
      /\ \A i \in 1..head : tree'[i] = tree[i]
  BY <1>1 DEF head, BuildInv
<1>3. \A k \in 1..head : Passed(k) => Passed(k)' BY <1>2 DEF Passed
<1>4. Made' = Made /\ \A k \in Made : k \in 1..head
  BY DEF Made, RevisionsOf, Edit, BuildInv, DeployInv, Passed
<1>5. DeployInv' BY <1>3, <1>4, IdleIs DEF DeployInv, BuildInv, Edit, Passed
<1>6. WwwInv' BY IdleIs DEF WwwInv, Edit, Filling, Deploying
<1>7. ScriptInv' BY IdleIs DEF ScriptInv, BuildInv, Edit, Filling
<1> QED BY <1>2, <1>5, <1>6, <1>7 DEF BuildInv, Edit, IsDir

\* A script starts with its first step.
LEMMA StartKeeps ==
  ASSUME BuildInv, NEW name, NEW first, StartScript(name, first),
         \/ name = "build-www" /\ first = "clean"
         \/ name = "build-deploy" /\ first = "build"
  PROVE  BuildInv'
<1>1. PICK skip \in BOOLEAN : script' = [name |-> name, step |-> first, skip |-> skip]
  BY DEF StartScript
<1>2. ScriptInv' BY <1>1 DEF ScriptInv, BuildInv, StartScript, Steps, Filling, Deploying
<1>3. WwwInv' BY <1>1 DEF WwwInv, StartScript, Filling, Deploying
<1>4. head' = head /\ Made' = Made /\ \A r \in Made : Passed(r) => Passed(r)'
  BY DEF StartScript, head, Made, RevisionsOf, Passed
<1>5. DeployInv' BY <1>1, <1>4 DEF DeployInv, BuildInv, StartScript
<1> QED BY <1>2, <1>3, <1>4, <1>5 DEF BuildInv, StartScript, IsDir

\* A step that leaves the source and deploy/ alone and leads to none that fills it.
LEMMA DeployStays ==
  ASSUME BuildInv, tree' = tree, deploy' = deploy, script'.step \notin {"assemble", "write README"}
  PROVE  DeployInv' /\ head' = head
<1>1. head' = head /\ Made' = Made /\ \A k : Passed(k)' <=> Passed(k)
  BY DEF head, Made, RevisionsOf, Passed
<1> QED BY <1>1 DEF BuildInv, DeployInv

\* The script goes on to another step, or ends.
LEMMA GoneTo ==
  ASSUME BuildInv, NEW next \in Steps, GoTo(next)
  PROVE  /\ script' \in [name : {"none", "build-www", "build-deploy"}, step : Steps, skip : BOOLEAN]
         /\ script'.name = script.name /\ script'.step = next /\ script'.skip = script.skip
BY DEF GoTo, BuildInv, ScriptInv

\* A script that stops has no step.
LEMMA ScriptFailed ==
  ASSUME Fail
  PROVE  /\ ScriptInv' /\ script'.step = "none" /\ script'.name = "none"
BY DEF Fail, ScriptInv, Idle, Steps, Filling, Deploying

\* A script that ends leaves what it wrote.
LEMMA EndKeeps ==
  ASSUME BuildInv, Fail, tree' = tree, deploy' = deploy, dist' \in 0..head, binary' \in 0..head,
         IsDir(www'), verified' \in BOOLEAN
  PROVE  BuildInv'
<1>1. DeployInv' /\ head' = head BY ScriptFailed, DeployStays
<1>2. ScriptInv' BY ScriptFailed
<1>3. WwwInv' BY ScriptFailed DEF WwwInv, Filling, Deploying
<1> QED BY <1>1, <1>2, <1>3 DEF BuildInv, IsDir

\* The steps of build-www: the directory is emptied, and filled from this revision.
LEMMA CleanDirKeeps == ASSUME BuildInv, CleanDir PROVE BuildInv'
<1>1. /\ script' \in [name : {"none", "build-www", "build-deploy"}, step : Steps, skip : BOOLEAN]
      /\ script'.name = script.name /\ script'.step = "bundle"
  BY GoneTo DEF CleanDir, Steps
<1>2. DeployInv' /\ head' = head BY <1>1, DeployStays DEF CleanDir
<1>3. ScriptInv' BY <1>1, <1>2 DEF ScriptInv, BuildInv, CleanDir, At, Filling, Deploying
<1>4. WwwInv' BY <1>1 DEF WwwInv, CleanDir, NoFiles, RevisionsOf, Filling, Deploying
<1>5. IsDir(www)' BY DEF CleanDir, IsDir, NoFiles
<1> QED BY <1>2, <1>3, <1>4, <1>5 DEF BuildInv, CleanDir, IsDir

\* The bundle is of this revision, and the directory has it from here on.
LEMMA BundleKeeps == ASSUME BuildInv, Bundle PROVE BuildInv'
<1>1. CASE Fail /\ UNCHANGED www
  BY <1>1, EndKeeps DEF Bundle, BuildInv, IsDir
<1>2. CASE www' = PutFiles(www, Files("bundle")) /\ GoTo("copy data")
  <2>1. /\ script' \in [name : {"none", "build-www", "build-deploy"}, step : Steps, skip : BOOLEAN]
        /\ script'.name = script.name /\ script'.step = "copy data"
    BY <1>2, GoneTo DEF Steps
  <2>2. DeployInv' /\ head' = head BY <2>1, DeployStays DEF Bundle
  <2>3. ScriptInv' BY <2>1, <2>2 DEF ScriptInv, BuildInv, Bundle, At, Filling, Deploying
  <2>4. IsDir(www) /\ {"runtime.js"} \in SUBSET Names /\ www' = PutFiles(www, {"runtime.js"})
    BY <1>2 DEF BuildInv, Files, Names
  <2>5. /\ IsDir(www') /\ "runtime.js" \in DOMAIN www'
        /\ RevisionsOf(www') \subseteq RevisionsOf(www) \union {head}
    BY <2>4, PutDir
  <2>6. WwwInv'
    BY <2>1, <2>2, <2>5 DEF WwwInv, BuildInv, Bundle, At, Filling, Deploying
  <2>7. UNCHANGED <<tree, dist, binary, deploy, verified>> BY DEF Bundle
  <2> QED BY <2>2, <2>3, <2>5, <2>6, <2>7 DEF BuildInv, IsDir
\* --skip-bundle looks for a bundle in the directory that was just emptied.
<1>3. CASE SkipBundle /\ "runtime.js" \in DOMAIN www
  <2>1. www = << >> BY DEF BuildInv, WwwInv, Bundle, At, NoFiles
  <2>2. "runtime.js" \notin DOMAIN << >> OBVIOUS
  <2> QED BY <1>3, <2>1, <2>2
<1> QED BY <1>1, <1>2, <1>3 DEF Bundle

\* The data are of this revision, which has some.
LEMMA CopyDataKeeps == ASSUME BuildInv, CopyData PROVE BuildInv'
<1>1. CASE tree[head].data = {}
  BY <1>1, EndKeeps DEF CopyData, BuildInv, IsDir
<1>2. CASE tree[head].data # {}
  <2>1. /\ script' \in [name : {"none", "build-www", "build-deploy"}, step : Steps, skip : BOOLEAN]
        /\ script'.name = script.name /\ script'.step = "write page"
    BY <1>2, GoneTo DEF CopyData, Steps
  <2>2. DeployInv' /\ head' = head BY <2>1, DeployStays DEF CopyData
  <2>3. ScriptInv' BY <2>1, <2>2 DEF ScriptInv, BuildInv, CopyData, At, Filling, Deploying
  <2>4. Files("copy data") \subseteq Names
    <3>1. tree[head] \in Revision BY DEF BuildInv, head
    <3> QED BY <3>1 DEF Files, Names, Revision
  <2>5. /\ IsDir(www') /\ DOMAIN www \subseteq DOMAIN www'
        /\ RevisionsOf(www') \subseteq RevisionsOf(www) \union {head}
    BY <1>2, <2>4, PutDir DEF BuildInv, CopyData
  <2>6. WwwInv'
    BY <1>2, <2>1, <2>2, <2>5 DEF WwwInv, BuildInv, CopyData, At, Filling, Deploying
  <2> QED BY <2>2, <2>3, <2>5, <2>6 DEF BuildInv, CopyData, IsDir
<1> QED BY <1>1, <1>2

\* So is the page.
LEMMA WritePageKeeps == ASSUME BuildInv, WritePage PROVE BuildInv'
<1>1. /\ script' \in [name : {"none", "build-www", "build-deploy"}, step : Steps, skip : BOOLEAN]
      /\ script'.name = script.name /\ script'.step = "check bundle"
  BY GoneTo DEF WritePage, Steps
<1>2. DeployInv' /\ head' = head BY <1>1, DeployStays DEF WritePage
<1>3. ScriptInv' BY <1>1, <1>2 DEF ScriptInv, BuildInv, WritePage, At, Filling, Deploying
<1>4. Files("write page") = Page /\ Page \subseteq Names BY DEF Files, Names
<1>5. /\ IsDir(www') /\ DOMAIN www \subseteq DOMAIN www'
      /\ RevisionsOf(www') \subseteq RevisionsOf(www) \union {head}
  BY <1>4, PutDir DEF BuildInv, WritePage
<1>6. WwwInv'
  BY <1>1, <1>2, <1>5 DEF WwwInv, BuildInv, WritePage, At, Filling, Deploying
<1> QED BY <1>2, <1>3, <1>5, <1>6 DEF BuildInv, WritePage, IsDir

\* The bundle that is checked is the one of this revision.
LEMMA CheckBannedKeeps == ASSUME BuildInv, CheckBannedApis PROVE BuildInv'
<1>1. CASE Fail
  BY <1>1, EndKeeps DEF CheckBannedApis, BuildInv, IsDir
<1>2. CASE tree[www["runtime.js"]].flaw # "banned API" /\ GoTo("check data")
  <2>1. /\ script' \in [name : {"none", "build-www", "build-deploy"}, step : Steps, skip : BOOLEAN]
        /\ script'.name = script.name /\ script'.step = "check data"
    BY <1>2, GoneTo DEF Steps
  <2>2. DeployInv' /\ head' = head BY <2>1, DeployStays DEF CheckBannedApis
  <2>3. ScriptInv' BY <2>1, <2>2 DEF ScriptInv, BuildInv, CheckBannedApis, At, Filling, Deploying
  <2>4. www["runtime.js"] = head
    BY DEF BuildInv, WwwInv, CheckBannedApis, At, Filling, Deploying, RevisionsOf
  <2>5. WwwInv'
    BY <1>2, <2>1, <2>2, <2>4 DEF WwwInv, BuildInv, CheckBannedApis, At, Filling, Deploying
  <2>6. UNCHANGED <<tree, dist, binary, www, deploy, verified>> BY DEF CheckBannedApis
  <2> QED BY <2>2, <2>3, <2>5, <2>6 DEF BuildInv, IsDir
<1> QED BY <1>1, <1>2 DEF CheckBannedApis

\* Below build-deploy the schemas are of this revision too: what passes has no flaw.
LEMMA ValidateKeeps == ASSUME BuildInv, ValidateDataFiles PROVE BuildInv'
<1>1. PICK ok \in BOOLEAN :
        /\ dist' = head => ok = (tree[head].flaw # "bad data")
        /\ IF ~ok THEN Fail
           ELSE IF script.name = "build-deploy" THEN GoTo("server") ELSE script' = Idle
  BY DEF ValidateDataFiles
<1>2. dist' \in 0..head
  <2>1. dist \in 0..head /\ head \in Nat BY DEF BuildInv, head
  <2>2. dist' = dist \/ dist' = head BY DEF ValidateDataFiles
  <2> QED BY <2>1, <2>2
<1>3. CASE script' = Idle
  BY <1>2, <1>3, EndKeeps DEF ValidateDataFiles, BuildInv, IsDir, Fail
<1>4. CASE ok /\ script.name = "build-deploy" /\ GoTo("server")
  <2>1. /\ script' \in [name : {"none", "build-www", "build-deploy"}, step : Steps, skip : BOOLEAN]
        /\ script'.name = script.name /\ script'.step = "server"
    BY <1>4, GoneTo DEF Steps
  <2>2. DeployInv' /\ head' = head BY <2>1, DeployStays DEF ValidateDataFiles
  <2>3. ScriptInv' BY <1>4, <2>1, <2>2 DEF ScriptInv, BuildInv, ValidateDataFiles, At, Filling, Deploying
  <2>4. dist = head /\ dist' = head
    BY <1>4 DEF BuildInv, ScriptInv, ValidateDataFiles, At, Filling
  <2>5. Passed(head)
    <3>1. Len(tree) \in Nat /\ head \in 1..Len(tree) BY DEF BuildInv, head
    <3>4. head \in 1..head /\ tree[head] \in Revision BY <3>1 DEF BuildInv, head
    <3>2. tree[head].flaw # "bad data" BY <1>1, <1>4, <2>4
    <3>3. tree[head].flaw # "banned API" /\ tree[head].data # {}
      BY DEF BuildInv, WwwInv, ValidateDataFiles, At
    <3> QED BY <3>2, <3>3, <3>4 DEF Passed, Revision
  <2>6. UNCHANGED <<tree, binary, www, deploy, verified>> BY DEF ValidateDataFiles
  <2>7. Passed(head)' BY <2>2, <2>5, <2>6 DEF Passed
  <2>8. WwwInv'
    BY <2>1, <2>2, <2>6, <2>7 DEF WwwInv, BuildInv, ValidateDataFiles, At, Filling, Deploying
  <2> QED BY <1>2, <2>2, <2>3, <2>6, <2>8 DEF BuildInv, IsDir
<1> QED BY <1>1, <1>3, <1>4 DEF Fail

\* The steps of build-deploy before it touches deploy/.
LEMMA PackagesKeeps == ASSUME BuildInv, BuildPackages PROVE BuildInv'
<1>1. /\ script' \in [name : {"none", "build-www", "build-deploy"}, step : Steps, skip : BOOLEAN]
      /\ script'.name = script.name /\ script'.step = "clean"
  BY GoneTo DEF BuildPackages, Steps
<1>2. DeployInv' /\ head' = head BY <1>1, DeployStays DEF BuildPackages
<1>3. ScriptInv' BY <1>1, <1>2 DEF ScriptInv, BuildInv, BuildPackages, At, Filling, Deploying
<1>4. WwwInv' BY <1>1 DEF WwwInv, Filling, Deploying
<1>5. dist' \in 0..head BY DEF BuildPackages, BuildInv, head
<1>6. UNCHANGED <<tree, binary, www, deploy, verified>> BY DEF BuildPackages
<1> QED BY <1>2, <1>3, <1>4, <1>5, <1>6 DEF BuildInv, IsDir

\* Whether the server is built or not, www/ stays as it passed.
LEMMA BuildServerKeeps == ASSUME BuildInv, BuildServer PROVE BuildInv'
<1>1. binary' \in 0..head BY DEF BuildServer, BuildInv, head
<1>2. UNCHANGED <<tree, dist, www, deploy, verified>> BY DEF BuildServer
<1>3. CASE Fail BY <1>1, <1>2, <1>3, EndKeeps DEF BuildInv, IsDir
<1>4. CASE GoTo("remove")
  <2>1. /\ script' \in [name : {"none", "build-www", "build-deploy"}, step : Steps, skip : BOOLEAN]
        /\ script'.name = script.name /\ script'.step = "remove"
    BY <1>4, GoneTo DEF Steps
  <2>2. DeployInv' /\ head' = head BY <1>2, <2>1, DeployStays
  <2>3. ScriptInv' BY <2>1, <2>2 DEF ScriptInv, BuildInv, BuildServer, At, Filling, Deploying
  <2>4. Passed(head)' BY <1>2, <2>2 DEF Passed, BuildInv, WwwInv, BuildServer, At, Deploying
  <2>5. WwwInv'
    BY <1>2, <2>1, <2>2, <2>4 DEF WwwInv, BuildInv, BuildServer, At, Filling, Deploying
  <2> QED BY <1>1, <1>2, <2>2, <2>3, <2>5 DEF BuildInv, IsDir
<1> QED BY <1>3, <1>4 DEF BuildServer

\* Nothing is in deploy/, or nothing but what this revision's build-www let pass.
LEMMA DeployOfHead ==
  ASSUME Passed(head), RevisionsOf(deploy.www) \subseteq {head}, deploy.readme \in {0, head}
  PROVE  (\A a, b \in Made : a = b) /\ (\A r \in Made : Passed(r))
BY DEF Made

\* Nothing is left of the last build.
LEMMA RemoveKeeps == ASSUME BuildInv, Rmrf PROVE BuildInv'
<1>1. /\ script' \in [name : {"none", "build-www", "build-deploy"}, step : Steps, skip : BOOLEAN]
      /\ script'.name = script.name /\ script'.step = "assemble"
  BY GoneTo DEF Rmrf, Steps
<1>2. UNCHANGED <<tree, dist, binary, www>> /\ deploy' = NoDeploy /\ verified' \in BOOLEAN
  BY DEF Rmrf
<1>3. head' = head BY <1>2 DEF head
<1>4. ScriptInv' BY <1>1, <1>2, <1>3 DEF ScriptInv, BuildInv, Rmrf, At, Filling, Deploying
<1>5. Passed(head)' BY <1>2, <1>3 DEF Passed, BuildInv, WwwInv, Rmrf, At, Deploying
<1>6. WwwInv' BY <1>1, <1>2, <1>3, <1>5 DEF WwwInv, BuildInv, Rmrf, At, Filling, Deploying
<1>7. /\ IsDir(deploy'.www) /\ deploy'.server = 0 /\ deploy'.readme = 0
      /\ deploy' = [server |-> deploy'.server, readme |-> deploy'.readme, www |-> deploy'.www]
      /\ RevisionsOf(deploy'.www) = {}
  BY <1>2 DEF NoDeploy, NoFiles, IsDir, RevisionsOf
<1>8. Made' = {} BY <1>7 DEF Made
<1>9. DeployInv' BY <1>1, <1>2, <1>8 DEF DeployInv, NoDeploy
<1>10. IsDir(www)' BY <1>2 DEF BuildInv, IsDir
<1>11. 0 \in 0..head BY DEF BuildInv, head
<1> QED BY <1>2, <1>3, <1>4, <1>6, <1>7, <1>9, <1>10, <1>11 DEF BuildInv

\* The binary and the files of www/ go into the empty directory.
LEMMA AssembledDir ==
  ASSUME BuildInv, At("assemble"), NEW names, deploy' = Assembled(names), UNCHANGED <<tree, binary>>
  PROVE  /\ IsDir(deploy'.www) /\ deploy'.server \in 0..head /\ deploy'.readme = 0
         /\ deploy' = [server |-> deploy'.server, readme |-> deploy'.readme, www |-> deploy'.www]
         /\ RevisionsOf(deploy'.www) \subseteq {head} /\ Passed(head)
         /\ (\A a, b \in Made' : a = b) /\ (\A r \in Made' : Passed(r))
<1>1. deploy = NoDeploy /\ Passed(head) /\ RevisionsOf(www) \subseteq {head}
  BY DEF BuildInv, DeployInv, WwwInv, At, Deploying
<1>2. deploy' = [server |-> binary, readme |-> 0, www |-> Over(Keep(www, names), NoFiles)]
  BY <1>1 DEF Assembled, NoDeploy
<1>3. IsDir(NoFiles) /\ RevisionsOf(NoFiles) = {} BY DEF NoFiles, IsDir, RevisionsOf
<1>4. IsDir(Keep(www, names)) /\ RevisionsOf(Keep(www, names)) \subseteq {head}
  BY <1>1, KeepDir DEF BuildInv
<1>5. IsDir(deploy'.www) /\ RevisionsOf(deploy'.www) \subseteq {head}
  <2> DEFINE kept == Keep(www, names)
  <2>1. IsDir(kept) /\ RevisionsOf(kept) \subseteq {head} BY <1>4
  <2>2. deploy'.www = Over(kept, NoFiles) BY <1>2
  <2> HIDE DEF kept
  <2>3. /\ IsDir(Over(kept, NoFiles))
        /\ RevisionsOf(Over(kept, NoFiles)) \subseteq RevisionsOf(NoFiles) \union RevisionsOf(kept)
    BY <1>3, <2>1, OverDir
  <2> QED BY <1>3, <2>1, <2>2, <2>3
<1>6. Made' = RevisionsOf(deploy'.www) BY <1>2 DEF Made, RevisionsOf
<1> QED BY <1>1, <1>2, <1>5, <1>6 DEF BuildInv

\* What is copied is of this revision.
LEMMA AssembleKeeps == ASSUME BuildInv, Assemble PROVE BuildInv'
<1>1. /\ script' \in [name : {"none", "build-www", "build-deploy"}, step : Steps, skip : BOOLEAN]
      /\ script'.name = script.name /\ script'.step = "write README"
  BY GoneTo DEF Assemble, Steps
<1>2. UNCHANGED <<tree, dist, binary, www, verified>> BY DEF Assemble
<1>3. head' = head /\ \A k : Passed(k)' <=> Passed(k) BY <1>2 DEF head, Passed
<1>4. /\ IsDir(deploy'.www) /\ deploy'.server \in 0..head /\ deploy'.readme = 0
      /\ deploy' = [server |-> deploy'.server, readme |-> deploy'.readme, www |-> deploy'.www]
      /\ RevisionsOf(deploy'.www) \subseteq {head} /\ Passed(head)
      /\ (\A a, b \in Made' : a = b) /\ (\A r \in Made' : Passed(r))
  BY <1>2, AssembledDir DEF Assemble
<1>5. ScriptInv' BY <1>1, <1>2, <1>3 DEF ScriptInv, BuildInv, Assemble, At, Filling, Deploying
<1>6. WwwInv' BY <1>1, <1>2, <1>3, <1>4 DEF WwwInv, BuildInv, Assemble, At, Filling, Deploying
<1>7. DeployInv' BY <1>1, <1>3, <1>4 DEF DeployInv, RevisionsOf
<1>8. IsDir(www)' BY <1>2 DEF BuildInv, IsDir
<1>9. 0 \in 0..head BY DEF BuildInv, head
<1> QED BY <1>2, <1>3, <1>4, <1>5, <1>6, <1>7, <1>8, <1>9 DEF BuildInv

\* The README names this revision.
LEMMA ReadmeKeeps == ASSUME BuildInv, WriteReadme PROVE BuildInv'
<1>1. UNCHANGED <<tree, dist, binary, www, verified>> /\ script' = Idle BY DEF WriteReadme
<1>2. /\ deploy' = [server |-> deploy.server, readme |-> head, www |-> deploy.www]
  BY DEF WriteReadme, BuildInv
<1>3. head' = head /\ \A k : Passed(k)' <=> Passed(k) BY <1>1 DEF head, Passed
<1>4. RevisionsOf(deploy.www) \subseteq {head} /\ Passed(head)
  BY DEF BuildInv, DeployInv, WwwInv, WriteReadme, At, Deploying
<1>5. Made' \subseteq {head} BY <1>2, <1>4 DEF Made, RevisionsOf
<1>6. ScriptInv' /\ script'.step = "none" BY <1>1, ScriptFailed DEF Fail
<1>7. DeployInv' BY <1>3, <1>4, <1>5, <1>6 DEF DeployInv
<1>8. WwwInv' BY <1>6 DEF WwwInv, Filling, Deploying
<1>9. /\ IsDir(www)' /\ IsDir(deploy'.www) /\ deploy'.server \in 0..head /\ deploy'.readme = head
      /\ deploy' = [server |-> deploy'.server, readme |-> deploy'.readme, www |-> deploy'.www]
  BY <1>1, <1>2 DEF BuildInv, IsDir
<1>10. head \in 0..head /\ head > 0 BY DEF BuildInv, head
<1> QED BY <1>1, <1>2, <1>3, <1>6, <1>7, <1>8, <1>9, <1>10 DEF BuildInv

\* Whatever a step that is cut short leaves, it leaves of the same revision.
LEMMA CutShortKeeps == ASSUME BuildInv, CutShort PROVE BuildInv'
<1>1. UNCHANGED <<tree, dist, binary>> /\ Fail BY DEF CutShort
<1>2. head' = head /\ \A k : Passed(k)' <=> Passed(k) BY <1>1 DEF head, Passed
<1>3. dist' \in 0..head /\ binary' \in 0..head /\ verified' \in BOOLEAN BY DEF CutShort, BuildInv
<1>4. ASSUME IsDir(www'), deploy' = deploy PROVE BuildInv' BY <1>1, <1>3, <1>4, EndKeeps
<1>5. CASE /\ At("clean") /\ \E left \in SUBSET DOMAIN www : www' = Keep(www, left)
           /\ UNCHANGED <<deploy, verified>>
  BY <1>4, <1>5, KeepDir DEF BuildInv
<1>6. CASE /\ script.step \in {"bundle", "copy data", "write page"}
           /\ \E written \in SUBSET Files(script.step) : www' = PutFiles(www, written)
           /\ UNCHANGED <<deploy, verified>>
  <2>1. PICK written \in SUBSET Files(script.step) : www' = PutFiles(www, written) BY <1>6
  <2>2. head \in 1..Len(tree) BY <1>1 DEF BuildInv, head
  <2>3. tree[head] \in Revision BY <2>2 DEF BuildInv
  <2>4. Files(script.step) \subseteq Names BY <1>6, <2>3 DEF Files, Names, Revision
  <2>5. IsDir(www') BY <2>1, <2>4, PutDir DEF BuildInv
  <2> QED BY <1>4, <1>6, <2>5
<1>7. CASE UNCHANGED <<www, deploy, verified>>
  BY <1>4, <1>7 DEF BuildInv
<1> DEFINE Whole == /\ IsDir(deploy'.www) /\ deploy'.server \in 0..head /\ deploy'.readme \in 0..head
                    /\ deploy' = [server |-> deploy'.server, readme |-> deploy'.readme,
                                  www |-> deploy'.www]
                    /\ (\A a, b \in Made' : a = b) /\ (\A r \in Made' : Passed(r))
<1>8. ASSUME Whole, www' = www PROVE BuildInv'
  <2>1. ScriptInv' /\ script'.step = "none" BY <1>1, ScriptFailed
  <2>2. DeployInv' BY <1>2, <1>8, <2>1 DEF DeployInv
  <2>3. WwwInv' BY <2>1 DEF WwwInv, Filling, Deploying
  <2>4. IsDir(www)' BY <1>8 DEF BuildInv, IsDir
  <2> QED BY <1>1, <1>2, <1>3, <1>8, <2>1, <2>2, <2>3, <2>4 DEF BuildInv
<1>9. CASE /\ At("remove")
           /\ \E left \in SUBSET DOMAIN deploy.www, s \in {0, deploy.server}, r \in {0, deploy.readme} :
                deploy' = [server |-> s, readme |-> r, www |-> Keep(deploy.www, left)]
           /\ UNCHANGED www
  <2>1. PICK left \in SUBSET DOMAIN deploy.www, s \in {0, deploy.server}, r \in {0, deploy.readme} :
          deploy' = [server |-> s, readme |-> r, www |-> Keep(deploy.www, left)]
    BY <1>9
  <2>2. /\ IsDir(Keep(deploy.www, left))
        /\ RevisionsOf(Keep(deploy.www, left)) \subseteq RevisionsOf(deploy.www)
    BY KeepDir DEF BuildInv
  <2>3. Made' = RevisionsOf(Keep(deploy.www, left)) \union ({r} \ {0})
    BY <2>1 DEF Made, RevisionsOf
  <2>4. Made' \subseteq Made BY <2>2, <2>3 DEF Made
  <2>5. 0 \in 0..head BY DEF BuildInv, head
  <2>6. Whole BY <2>1, <2>2, <2>4, <2>5 DEF BuildInv, DeployInv
  <2> QED BY <1>8, <1>9, <2>6
<1>10. CASE /\ At("assemble") /\ \E copied \in SUBSET DOMAIN www : deploy' = Assembled(copied)
            /\ UNCHANGED <<www, verified>>
  <2>1. 0 \in 0..head BY DEF BuildInv, head
  <2>2. Whole BY <1>1, <1>10, <2>1, AssembledDir
  <2> QED BY <1>8, <1>10, <2>2
<1> QED BY <1>5, <1>6, <1>7, <1>9, <1>10 DEF CutShort

\* verify-deploy only reads.
LEMMA VerifyKeeps == ASSUME BuildInv, Verify PROVE BuildInv'
<1>1. UNCHANGED <<tree, dist, binary, www, deploy, script>> /\ verified' \in BOOLEAN BY DEF Verify
<1>2. head' = head /\ Made' = Made /\ \A k : Passed(k)' <=> Passed(k)
  BY <1>1 DEF head, Passed, Made, RevisionsOf
<1>3. ScriptInv' BY <1>1, <1>2 DEF ScriptInv, BuildInv
<1>4. WwwInv' BY <1>1, <1>2 DEF WwwInv, BuildInv, RevisionsOf
<1>5. DeployInv' BY <1>1, <1>2 DEF DeployInv, BuildInv, RevisionsOf
<1> QED BY <1>1, <1>2, <1>3, <1>4, <1>5 DEF BuildInv, IsDir

\* Every step of the scripts preserves the invariant.
LEMMA BuildInvNext == BuildInv /\ [BuildNext]_buildVars => BuildInv'
<1> SUFFICES ASSUME BuildInv, [BuildNext]_buildVars PROVE BuildInv' OBVIOUS
<1>1. CASE UNCHANGED buildVars
  <2>1. UNCHANGED <<tree, dist, binary, www, deploy, script, verified>> BY <1>1 DEF buildVars
  <2>2. head' = head /\ Made' = Made /\ \A k : Passed(k)' <=> Passed(k)
    BY <2>1 DEF head, Passed, Made, RevisionsOf
  <2>3. ScriptInv' BY <2>1, <2>2 DEF ScriptInv, BuildInv
  <2>4. WwwInv' BY <2>1, <2>2 DEF WwwInv, BuildInv, RevisionsOf
  <2>5. DeployInv' BY <2>1, <2>2 DEF DeployInv, BuildInv, RevisionsOf
  <2> QED BY <2>1, <2>2, <2>3, <2>4, <2>5 DEF BuildInv, IsDir
<1>2. CASE StartBuildWww \/ StartBuildDeploy
  BY <1>2, StartKeeps DEF StartBuildWww, StartBuildDeploy
<1> QED BY <1>1, <1>2, EditKeeps, CleanDirKeeps, BundleKeeps, CopyDataKeeps, WritePageKeeps,
           CheckBannedKeeps, ValidateKeeps, PackagesKeeps, BuildServerKeeps, RemoveKeeps, AssembleKeeps,
           ReadmeKeeps, CutShortKeeps, VerifyKeeps DEF BuildNext

\* For any history of commits, builds, failures and kills: deploy/ never mixes two builds,
\* and what it serves has passed the checks of build-www (build-www, build-deploy,
\* rmrf, checkBannedApis, validateDataFiles).
THEOREM DeployIsAlwaysOneBuild == BuildSpec => []OneCheckedBuild
<1>1. BuildInv => OneCheckedBuild
  <2> SUFFICES ASSUME BuildInv PROVE OneCheckedBuild OBVIOUS
  <2>1. BuildTypeOK BY DEF BuildInv, BuildTypeOK, IsDir, Names
  <2>2. RevisionsOf(deploy.www) \union ({deploy.readme} \ {0}) = Made BY DEF Made
  <2>3. Cardinality(Made) <= 1
    <3>1. CASE Made = {}
      <4>1. Cardinality({}) = 0 BY FS_EmptySet
      <4> QED BY <3>1, <4>1
    <3>2. CASE Made # {}
      <4>1. PICK r \in Made : TRUE BY <3>2
      <4>2. Made = {r} BY <4>1 DEF BuildInv, DeployInv
      <4>3. Cardinality({r}) = 1 BY FS_Singleton
      <4> QED BY <4>2, <4>3
    <3> QED BY <3>1, <3>2
  <2>4. \A r \in Made : tree[r].flaw = "none" /\ tree[r].data # {}
    BY DEF BuildInv, DeployInv, Passed
  <2> QED BY <2>1, <2>2, <2>3, <2>4 DEF OneCheckedBuild, DeployIsOneBuild
<1> QED BY <1>1, BuildInvInit, BuildInvNext, PTL DEF BuildSpec
=============================================================================
