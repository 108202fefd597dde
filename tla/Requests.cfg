SPECIFICATION RequestsSpec
CONSTANTS
  Device = {d1}
  Client = {c1}
  Dialer = {c1}
  Rpc = {}
  Thread = {}
  MaxConn = 1
  MaxTab = 2
  MaxNap = 0
  None = None
  Request = {r1, r2, r3}
  FirstSecret = secret0
  MaxStep = 2
  MaxAttempts = 1
  Absent = Absent
  Caller = {g1, g2, g3}
  MaxRun = 3
  Nobody = Nobody
  d1 = d1
  g1 = g1
  g2 = g2
  g3 = g3
  c1 = c1
  r1 = r1
  r2 = r2
  r3 = r3
  secret0 = secret0
INVARIANTS NothingUsedTwice
INVARIANTS OneListed NoMissedWake
PROPERTY SignedOutStaysOut
CHECK_DEADLOCK FALSE
