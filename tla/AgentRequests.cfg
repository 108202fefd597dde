SPECIFICATION Spec
CONSTANTS
  Request = {r1, r2}
  Event = {}
  Harness = FALSE
  MaxRefreshRetries = 1
  MaxPrompt = 1
  MaxGen = 0
  MaxError = 1
  MaxQueue = 2
  None = None
INVARIANTS RequestsSettleOnce StatusIsTrue TurnsAreLogged
PROPERTIES InterruptHonoured ImplementsThreadLog
CHECK_DEADLOCK FALSE
