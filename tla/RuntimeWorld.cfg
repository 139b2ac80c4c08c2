\* One token id, re-used across completions, a save, a failure and a restore, under a host that keeps ticking.
SPECIFICATION FairSpec
CONSTANTS
  TokenId = {t1}
  ScopeName <- MCWorldScopes
  Root = "root"
  Ancestors <- MCWorldAncestors
  MaxStep = 2
  MaxHandle = 2
  MaxGeneration = 2
INVARIANTS
  OneTokenOneResult
  AcceptedCompletionMeetsItsToken
  OneTerminalEventPerWait
  CancelledBeforeSweepIsGone
  PendingHandleIsTracked
  QueuedResultFromTrackedHandle
  SavedQueueLoads
PROPERTIES
  TerminalStatusIsFinal
  CancelledWaitGoes
  QueuedResultResolved
CHECK_DEADLOCK FALSE
