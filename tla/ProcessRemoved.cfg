SPECIFICATION ProcSpec
CONSTANTS
  Caller = {g1, g2}
  MaxRun = 2
  Nobody = Nobody
  g1 = g1
  g2 = g2
INVARIANT RemovedIsForgotten
CHECK_DEADLOCK FALSE
