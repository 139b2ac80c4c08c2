\* Two brokers, scopes of one inside scopes of the other.
SPECIFICATION BudgetSpec
CONSTANTS
  Thread = {t1, t2}
  b1 = b1
  b2 = b2
  Broker = {b1, b2}
  NoBroker = NoBroker
  Limit <- MCTwoLimits
  MaxTicket = 3
  MayNest = TRUE
SYMMETRY Symmetry
INVARIANTS
  PermitsConserved
  AcquiredWithinLimit
CHECK_DEADLOCK FALSE
