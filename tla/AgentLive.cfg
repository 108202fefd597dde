SPECIFICATION LiveSpec
CONSTANTS
  Request = {}
  Event = {}
  Harness = FALSE
  MaxRefreshRetries = 1
  MaxPrompt = 1
  MaxGen = 1
  MaxError = 1
  MaxQueue = 1
  None = None
PROPERTIES DeadTurnEnds RetryComes StaleStops
CHECK_DEADLOCK FALSE
