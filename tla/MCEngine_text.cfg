SPECIFICATION Spec
CONSTANTS
  h1 = h1
  h2 = h2
  Nobody = Nobody
  WholeImage = WholeImage
  Types <- OneType
  Handlers <- TwoHandlers
  MaxSets = 3
  MaxDepth = 2
  MaxEmits = 2
  Pages <- Door
  Variables <- Score
  Switches <- Open
  Entities <- PlayerAndGuard
  Player = "player"
  Commands <- WithPlugin
  Names0 <- BuiltIn
  Values <- Written
  MaxRuns = 4
  MaxEdits = 4
  MaxValue = 4
  Node <- FourNodes
  Root = "root"
  IdOf <- OneIdTwice
  Component <- TwoFaces
  TypeOf <- BothSprites
  Shared = FALSE
  Url <- ThreeImages
  Tileset <- TwoTilesets
  ImageOf <- Images
  GridOf <- Grids
  MaxId = 3
  Map <- TwoMaps
  FirstMap = "meadow"
  LayersOf <- Layers
  TilesetOf <- TilesetsOfMaps
  Budget = 2
  Image <- OneImage
  Text <- OneText
  Turn <- OneTurn
  MaxQuads = 2
  MaxCalls = 4
  MaxRevision = 2
  MaxTexts = 1
  MaxLosses = 1
  TileSize = 16
  MapWidth = 6
  MapHeight = 5
  Canvas <- Canvases
  Scale = 2
  Offset <- OnThePage
  PlayerSpot <- PlayerSpots
  SpeakerSpot <- SpeakerSpots
  DialogueSize <- DialogueSizes
  ChoiceSize <- ChoiceSizes
SYMMETRY Symmetry
INVARIANT TextIsShown
\* The bounds end a behaviour.
CHECK_DEADLOCK FALSE
