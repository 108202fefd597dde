SPECIFICATION TabSpec
CONSTANTS
  Call = {c1}
  MaxSid = 3
  MaxFault = 2
  MaxStart = 2
  MaxChunk = 2
  Device = {d1}
  Client = {t1}
  Dialer = {}
  Rpc = {}
  Thread = {th1}
  MaxConn = 1
  MaxTab = 2
  MaxNap = 1
  None = None
  c1 = c1
  d1 = d1
  t1 = t1
  th1 = th1
INVARIANTS NeverStuck ChunksInOrder ViewingIsTrue
PROPERTIES ConnectingEnds RecordingIsBounded SilentGoesOffline
CHECK_DEADLOCK FALSE
