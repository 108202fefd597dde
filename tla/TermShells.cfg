SPECIFICATION FairSpec
CONSTANTS
  Client = {c1, c2}
  MaxSpawn = 2
  MaxPress = 0
  None = None
INVARIANT OneShell
PROPERTY ExitReachesClients
CHECK_DEADLOCK FALSE
