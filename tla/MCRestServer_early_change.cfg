SPECIFICATION Spec
CONSTANTS
  Configs <- MCConfigs
  HandlerTimeouts = {0, 2}
  Stoppers = {graceful}
  Nobody = nobody
  EarlyChanges = TRUE
  MaxChanges = 1
INVARIANTS
  TimeoutsInForce
CHECK_DEADLOCK FALSE
