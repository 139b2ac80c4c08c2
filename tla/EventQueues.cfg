\* Three events or timers, two ticks.
SPECIFICATION Spec
CONSTANTS
  MaxEvent = 3
  MaxStep = 2
INVARIANTS
  TypeOK
  EachEventOnce
  DeliveredOnTime
  DeliveredInOrder
CHECK_DEADLOCK FALSE
