SPECIFICATION FairSpec
CONSTANTS
  Configs <- MCConfigs
  HandlerTimeouts = {0, 2}
  Stoppers = {graceful, hard}
  Nobody = nobody
  EarlyChanges = FALSE
  MaxChanges = 2
INVARIANTS
  TypeOK
  NothingServesAfterStop
  CleanStopLosesNoRequest
  TimeoutsInForce
  HandlersWithinWriteTimeout
PROPERTIES
  StopCompletes
CHECK_DEADLOCK FALSE
