SPECIFICATION DevicesSpec
CONSTANTS
  Device = {d1}
  Client = {c1}
  Dialer = {}
  Rpc = {r1}
  Thread = {}
  MaxConn = 2
  MaxTab = 1
  MaxNap = 1
  None = None
  Daemon = {d1}
  TokenSet = {a1, a2}
  Save = {s1, s2}
  Key = {k1}
  MaxAttach = 2
  NoValue = NoValue
  FirstPage = 2
  EarlierPage = 1
  ReplayLimit = 2
  MaxEvents = 6
  MaxChannels = 3
  d1 = d1
  c1 = c1
  r1 = r1
  a1 = a1
  a2 = a2
  s1 = s1
  s2 = s2
  k1 = k1
  Request = {q1, q2}
  MaxSession = 2
  MaxLife = 3
  MaxUp = 3
  HighWater = 1
  LowWater = 1
  MaxLoad = 1
  q1 = q1
  q2 = q2
INVARIANTS SessionsAreStopped ContinuedOnce
INVARIANTS HubKnowsWhoIsHere StoredWasSent
INVARIANTS ViewIsTheLog
INVARIANT HoldsEnd
CHECK_DEADLOCK FALSE
