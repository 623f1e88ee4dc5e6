SPECIFICATION Spec
CONSTANTS
  AuthEnabled = TRUE
  CSRFEnabled = TRUE
  Statuses = {200, 404, 500}
  Informational <- NoInformational
  PanicsIn = {"configuration", "logger", "authorizer", "error handler", "handler", "labels", "hit info"}
  Helpers = {h1, h2}
  Names = {n1, n2}
  Diffs <- MCDiffs
  Durations = {1}
  Nobody = nobody
  MaxCalls = 3
INVARIANTS
  TypeOK
  ContextReleased
  OnlyAdmittedHandled
  MeasuredStatusIsSent
  AnswerArrives
  PanicsAnswered
  EveryCallCounted
CHECK_DEADLOCK FALSE
