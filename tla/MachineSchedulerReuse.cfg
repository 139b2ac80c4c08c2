\* Actions that draw ids, and actions that do not.
SPECIFICATION Spec
CONSTANTS
  Key <- MCKey
  Provider <- MCProvider
  Machine = {1, 2, 3}
  Offered <- MCOfferedIds
  Fresh <- MCFresh
  Blank <- MCBlank
  Execute <- MCExecute
  Plan <- MCPlan
  Instance <- MCInstance
  Datum <- Value
  Evidence = TRUE
  MaxValue = 1
  MaxMicrosteps = 3
  MaxEvents = 1
  MaxEpoch = 4
  MaxStep = 2
  MaxHanded = 2
CHECK_DEADLOCK FALSE
INVARIANTS
  NoIdReused
