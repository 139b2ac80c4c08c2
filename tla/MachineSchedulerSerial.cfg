\* Waves against machines one after the other; ids drawn by some.
SPECIFICATION Spec
CONSTANTS
  Key <- MCKey
  Provider <- MCProvider
  Machine = {1, 2, 3}
  Offered <- MCOffered
  Fresh <- MCFresh
  Blank <- MCBlank
  Execute <- MCExecute
  Plan <- MCPlan
  Instance <- MCInstance
  Datum <- Value
  Evidence = TRUE
  MaxValue = 1
  MaxMicrosteps = 3
  MaxEvents = 1
  MaxEpoch = 5
  MaxStep = 2
  MaxHanded = 1
CHECK_DEADLOCK FALSE
INVARIANTS
  TypeOK
  WavesAreConflictFree
  OneDrawerPerWave
PROPERTIES
  AsIfSerial
