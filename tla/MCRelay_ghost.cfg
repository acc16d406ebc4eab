SPECIFICATION Spec
CONSTANTS
  c1 = c1
  c2 = c2
  c3 = c3
  r1 = r1
  r2 = r2
  kibo = kibo
  aria = aria
  noor = noor
  p1 = p1
  p2 = p2
  none = none
  Conn <- TwoConns
  RoomIds <- OneRoom
  Names <- TwoNames
  Projects <- NoProjects
  NoProject = none
  NoHdl = none
  NoRoom = none
  NoName = none
  MaxPlayers = 2
  MaxSessions = 2
  MaxVersion = 1
  Capacity = 3
  MaxConsecutiveErrors = 2
  StateDropsPerError = 1
  MaxStateErrors = 2
  MaxChatHits = 2
  ClientSends <- ComeAndGo
  MaxReceived = 4
SYMMETRY Symmetry2
PROPERTIES
  WelcomeListsOccupants
