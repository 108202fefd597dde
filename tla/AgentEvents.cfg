SPECIFICATION Spec
CONSTANTS
  Request = {}
  Event = {e1, e2}
  Harness = FALSE
  MaxRefreshRetries = 1
  MaxPrompt = 1
  MaxGen = 1
  MaxError = 0
  MaxQueue = 1
  None = None
INVARIANTS EventsKept NothingLeftBehind
PROPERTY ClosedForCause
CHECK_DEADLOCK FALSE
