\* Three stories with music; the game is saved in quiet moments and loaded twice.
SPECIFICATION LiveSpec
CONSTANTS
  Target <- MCTargets
  RegionOf <- MCRegionOf
  LayerOf <- MCLayerOf
  NoLayer = "none"
  NoFence = "none"
  MaxQueue = 2
  Line = "line"
  Script <- MCScripts
  Audible = TRUE
  QuietSaves = TRUE
  MaxLoads = 2
INVARIANTS
  AssertionsHold
  StreamIsCurrent
  CompletionReachesStory
PROPERTIES
  WaitReleasedByItsGroup
  WaitIsReleased
CHECK_DEADLOCK FALSE
