------------------------------- MODULE MCSession -------------------------------
(* The client's half of a session, for TLC: connection, heartbeat, messages,    *)
(* other players, scenes and save slot; the server's outbound queue and limits;  *)
(* and the scripts that package both halves.  They keep their state apart in    *)
(* the code, and so do they here: a behaviour plays one of them, the part       *)
(* chosen at the start, and the others wait in their initial states.            *)
EXTENDS GameSession, RelayClient, Heartbeat, SaveSlot, Codec, RemotePlayers,
        QueueTraffic, RateLimit, Packaging

\* The constants, for which MCSession.cfg gives the values.
\* Client: a welcome and two broadcasts, two local states, two other players.
\* Heartbeat: one tick is 5 s; 15 s, 60 s and 60 s are the defaults of the code, and
\* the network delays by up to 20 s, so that several pings are on their way at once.
\* Game: calls are numbered from 2, the save found at boot is number 1.
\* Save slot: every sequence of four calls.
\* Codec: texts from empty to longer than the limit, in units and in bytes.
\* Other players: a packet every 30 units of a window of 36, 5 units a step: 100 ms,
\* 120 ms and 17 ms.
\* Queue: both counters reach twice the capacity, so that it fills, refuses, coalesces
\* and drains repeatedly.
\* Rate limit: two at once and two a second, in ticks of a sixth of a second; a message
\* may be held up for four.
\* Packaging: two scripts, the source edited between them or before.

VARIABLE part

vars == <<part, clientVars, beatVars, gameVars, slotVars, codecVars, remoteVars, trafficVars,
          limitVars, buildVars>>

Init == /\ part \in {"client", "beat", "game", "slot", "talk", "others", "traffic", "limit",
                  "build"}
        /\ ClientInit /\ BeatInit /\ GameInit /\ SlotInit
        /\ CodecInit /\ RemoteInit /\ TrafficInit /\ LimitInit /\ BuildInit
        \* A part that does not play starts in one way only.
        /\ part # "client" => options.network /\ options.named /\ options.timed
        /\ part # "beat" => idle = 0 /\ timed
        /\ part # "others" => steady
        /\ part # "build" => tree = <<[data |-> {}, flaw |-> "none"]>>
        /\ part # "game" => title = "off" /\ saved = NoSave

\* A step of one part.
ClientDoes(A) ==
  /\ part = "client" /\ A
  /\ UNCHANGED <<part, beatVars, gameVars, slotVars, codecVars, remoteVars, trafficVars,
                  limitVars, buildVars>>
BeatDoes(A) ==
  /\ part = "beat" /\ A
  /\ UNCHANGED <<part, clientVars, gameVars, slotVars, codecVars, remoteVars, trafficVars,
                  limitVars, buildVars>>
GameDoes(A) ==
  /\ part = "game" /\ A
  /\ UNCHANGED <<part, clientVars, beatVars, slotVars, codecVars, remoteVars, trafficVars,
                  limitVars, buildVars>>
SlotDoes(A) ==
  /\ part = "slot" /\ A
  /\ UNCHANGED <<part, clientVars, beatVars, gameVars, codecVars, remoteVars, trafficVars,
                  limitVars, buildVars>>
TalkDoes(A) ==
  /\ part = "talk" /\ A
  /\ UNCHANGED <<part, clientVars, beatVars, gameVars, slotVars, remoteVars, trafficVars,
                  limitVars, buildVars>>
OthersDoes(A) ==
  /\ part = "others" /\ A
  /\ UNCHANGED <<part, clientVars, beatVars, gameVars, slotVars, codecVars, trafficVars,
                  limitVars, buildVars>>
TrafficDoes(A) ==
  /\ part = "traffic" /\ A
  /\ UNCHANGED <<part, clientVars, beatVars, gameVars, slotVars, codecVars, remoteVars,
                  limitVars, buildVars>>
LimitDoes(A) ==
  /\ part = "limit" /\ A
  /\ UNCHANGED <<part, clientVars, beatVars, gameVars, slotVars, codecVars, remoteVars,
                  trafficVars, buildVars>>
BuildDoes(A) ==
  /\ part = "build" /\ A
  /\ UNCHANGED <<part, clientVars, beatVars, gameVars, slotVars, codecVars, remoteVars,
                  trafficVars, limitVars>>

ClientPlays ==
  \/ ClientDoes(LoadMap) \/ ClientDoes(CreateRuntimeRenderer)
  \/ ClientDoes(PlayAlone) \/ ClientDoes(HelloNeverCame)
  \/ ClientDoes(CreateNetworkClient) \/ ClientDoes(HandleOpen)
  \/ ClientDoes(HandshakeTimeout) \/ ClientDoes(Watchdog)
  \/ ClientDoes(SocketFails) \/ ClientDoes(SocketCloses)
  \/ ClientDoes(SocketDrops) \/ ClientDoes(HandleMessage)
  \/ ClientDoes(SetLocalState) \/ ClientDoes(FlushPendingState)
  \/ ClientDoes(Close) \/ ClientDoes(ServerWelcomes)
  \/ ClientDoes(ServerRefuses) \/ ClientDoes(ServerRelays)
  \/ ClientDoes(SilencePasses)

BeatPlays ==
  \/ BeatDoes(SendPing) \/ BeatDoes(HandlePong) \/ BeatDoes(ClientWatchdog)
  \/ BeatDoes(HandlePing) \/ BeatDoes(IdleExpires) \/ BeatDoes(OnIdleTimeout)
  \/ BeatDoes(NetworkDies) \/ BeatDoes(Tick)

GamePlays ==
  \/ GameDoes(Save) \/ GameDoes(Load) \/ GameDoes(Continue)
  \/ \E m \in Maps : GameDoes(HandleTransfer(m))
  \/ GameDoes(Dispose) \/ GameDoes(ChooseNew) \/ GameDoes(ChooseContinue)
  \/ GameDoes(SaveAnswers) \/ GameDoes(LoadAnswers)
  \/ GameDoes(ContinueAnswers) \/ GameDoes(ChooseAnswers)
  \/ GameDoes(LoaderAnswers) \/ GameDoes(LoaderFails)

SlotPlays ==
  \/ \E op \in {"save", "load", "clear"} : SlotDoes(Request(op))
  \/ SlotDoes(OpenSucceeds) \/ SlotDoes(OpenFails)
  \/ SlotDoes(RequestSucceeds) \/ SlotDoes(RequestFails)
  \/ SlotDoes(Commits) \/ SlotDoes(Aborts) \/ SlotDoes(Crash)

TalkPlays ==
  \/ TalkDoes(SendHello) \/ TalkDoes(SendPlayerState) \/ TalkDoes(SendLeave)
  \/ TalkDoes(PutPing) \/ TalkDoes(SendChat) \/ TalkDoes(SendForeign)
  \/ TalkDoes(ReadMalformed) \/ TalkDoes(ReadMismatch) \/ TalkDoes(ReadUnknown)
  \/ TalkDoes(ReadInvalid) \/ TalkDoes(ReadGood) \/ TalkDoes(ClientReads)

OthersPlays == \/ OthersDoes(HandleRemoteState) \/ OthersDoes(HandleWelcome)
              \/ OthersDoes(Update)

TrafficPlays == \/ TrafficDoes(OfferState) \/ TrafficDoes(OfferControl)
               \/ TrafficDoes(RefuseControl) \/ TrafficDoes(Pop)

LimitPlays == \/ LimitDoes(TimePasses) \/ LimitDoes(TryTake)
             \/ LimitDoes(TryConsume) \/ LimitDoes(ChatIsRefused)

BuildPlays ==
  \/ BuildDoes(Edit) \/ BuildDoes(StartBuildWww) \/ BuildDoes(StartBuildDeploy)
  \/ BuildDoes(CleanDir) \/ BuildDoes(Bundle) \/ BuildDoes(CopyData)
  \/ BuildDoes(WritePage) \/ BuildDoes(CheckBannedApis)
  \/ BuildDoes(ValidateDataFiles) \/ BuildDoes(BuildPackages)
  \/ BuildDoes(BuildServer) \/ BuildDoes(Rmrf) \/ BuildDoes(Assemble)
  \/ BuildDoes(WriteReadme) \/ BuildDoes(CutShort) \/ BuildDoes(Verify)

Next == \/ ClientPlays \/ BeatPlays \/ GamePlays \/ SlotPlays
        \/ TalkPlays \/ OthersPlays \/ TrafficPlays \/ LimitPlays
        \/ BuildPlays

\* The fairness of each part, weaker than what its module states: where one of several
\* steps must come, whichever, one condition is enough.
Fairness ==
  /\ WF_vars(ClientDoes(\/ LoadMap \/ CreateRuntimeRenderer \/ PlayAlone
                        \/ CreateNetworkClient \/ HandleOpen \/ SocketFails))
  /\ WF_vars(ClientDoes(HandshakeTimeout \/ Watchdog \/ HelloNeverCame))
  /\ WF_vars(ClientDoes(SocketCloses))
  /\ WF_vars(ClientDoes(HandleMessage))
  /\ WF_vars(ClientDoes(FlushPendingState))
  /\ WF_vars(BeatDoes(Tick))
  /\ WF_vars(BeatDoes(\/ SendPing \/ HandlePong \/ HandlePing \/ ClientWatchdog
                      \/ IdleExpires \/ OnIdleTimeout))
  /\ WF_vars(GameDoes(\/ SaveAnswers \/ LoadAnswers \/ ContinueAnswers
                      \/ ChooseAnswers \/ LoaderAnswers \/ LoaderFails))
  /\ WF_vars(SlotDoes(\/ OpenSucceeds \/ OpenFails \/ RequestSucceeds
                      \/ RequestFails \/ Commits \/ Aborts))

Spec == Init /\ [][Next]_vars /\ Fairness

-----------------------------------------------------------------------------
\* boot never hangs on the network: mute server, refusal and drop release it, and a
\* server that falls silent later is dropped, by a client that was given a timeout.
BootGoesOn == part = "client" => BootEnds /\ SilentServerIsDropped
=============================================================================
