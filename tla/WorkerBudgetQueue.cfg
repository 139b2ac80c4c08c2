\* One broker of one permit, three threads that return what they hold.
SPECIFICATION FairSpec
CONSTANTS
  Thread = {t1, t2, t3}
  b1 = b1
  b2 = b2
  Broker = {b1}
  NoBroker = NoBroker
  Limit <- MCSingle
  MaxTicket = 4
  MayNest = FALSE
INVARIANTS
  TicketsInLine
  NoLostWakeup
PROPERTIES
  NewcomerNeverOvertakes
  WaiterIsServed
CHECK_DEADLOCK FALSE
