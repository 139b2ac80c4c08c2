\* The game is saved at any moment, and loaded.
SPECIFICATION PlayerSpec
CONSTANTS
  Target <- MCTargets
  RegionOf <- MCRegionOf
  LayerOf <- MCLayerOf
  NoLayer = "none"
  NoFence = "none"
  MaxQueue = 2
  Line = "line"
  Script <- MCScripts
  Audible = TRUE
  QuietSaves = FALSE
  MaxLoads = 1
INVARIANTS
  CompletionReachesStory
CHECK_DEADLOCK FALSE
