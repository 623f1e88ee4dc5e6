SPECIFICATION Spec
CONSTANTS
  AuthEnabled = FALSE
  CSRFEnabled = FALSE
  Statuses = {200, 404}
  Informational <- EarlyHints
  PanicsIn = {}
  Helpers = {}
  Names = {}
  Diffs = {}
  Durations = {}
  Nobody = nobody
  MaxCalls = 0
INVARIANTS
  MeasuredStatusIsSent
CHECK_DEADLOCK FALSE
