\* Two films on one layer and nothing that moves.
SPECIFICATION LiveSpec
CONSTANTS
  Target <- MCTargets
  RegionOf <- MCRegionOf
  LayerOf <- MCLayerOf
  NoLayer = "none"
  NoFence = "none"
  MaxQueue = 2
  Line = "line"
  Script <- MCQueued
  Audible = TRUE
  QuietSaves = TRUE
  MaxLoads = 0
PROPERTIES
  QueuedMovieStarts
CHECK_DEADLOCK FALSE
