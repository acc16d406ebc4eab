SPECIFICATION Spec
CONSTANTS
  NoDir = NoDir
  Dir <- Ways
  Key <- KeyNames
  KeyDir <- Keys
  PadDir <- PadWays
  MaxPresses = 4
  Floor <- Corridor
  StartTile <- WestEnd
  Events <- GuardAndPlate
  Scripts <- Pages
  Options = 2
  Devices = 1
  Unit = 2
  Speed = 1
  StepTicks = 2
  RepeatTicks = 3
  MaxInputs = 4
  FixedDt = 2
  MaxFrameDt = 5
  MaxTime = 10
  MaxStarts = 2
  MaxFrames = 6
  ManualBack = 0
  Reentrant = FALSE
INVARIANTS
  HeldFollowsHands
  OneEffectPerTap
  PlayerStandsRight
  LoopKeepsTime
PROPERTIES
  WalkFollowsHands
  PatrolGoesRound
\* The bounds on presses, starts and frames end a behaviour.
CHECK_DEADLOCK FALSE
