SPECIFICATION Spec
CONSTANTS
  NoSave = NoSave
  Maps = {home, cave}
  FirstMap = home
  MaxGameCalls = 5
  Peers = {p1, p2}
  MaxLocalStates = 2
  MaxMessages = 3
  HeartbeatTicks = 3
  ClientTimeout = 12
  ServerTimeout = 12
  MaxDelay = 4
  MaxSlotCalls = 4
  MaxChat = 4
  MaxErrors = 2
  Window = 36
  Dt = 5
  Gap = 6
  MaxPackets = 3
  Capacity = 3
  MaxControls = 7
  MaxOffered = 6
  Burst = 2
  PerToken = 3
  MaxHold = 4
  MaxFlight = 4
  MaxHits = 2
  MaxRevisions = 2
  MaxScripts = 2
INVARIANTS
  NothingRunsOn
  PingsKeepItUp
  OneSceneEntered
  
  LoadsFollowWrites
  UnderstoodByBoth
  ShownTrailsPlayer
  HonestIsHeard
  OneCheckedBuild
PROPERTIES
  KeepsConnectPromise
  BootGoesOn
  NewestStateIsSent
  BothSidesNotice
  TransfersEnd
  EveryCallIsAnswered
  KeepsPromise
\* A closed connection, a crash and the bound on the calls end a behaviour.
CHECK_DEADLOCK FALSE
