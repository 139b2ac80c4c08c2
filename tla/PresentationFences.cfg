\* Four regions, two fences, commands that join, replace, queue and are refused.
SPECIFICATION Spec
CONSTANTS
  Target <- MCTargets
  RegionOf <- MCRegionOf
  LayerOf <- MCLayerOf
  NoLayer = "none"
  NoFence = "none"
  MaxQueue = 1
  Fence = {"f", "g"}
  Batch <- MCBatches
INVARIANTS
  FenceTellsTheTruth
  OwnSnapshotLoads
  QueuedBehindActive
CHECK_DEADLOCK FALSE
