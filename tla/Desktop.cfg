SPECIFICATION MCDesktopSpec
CONSTANTS
  Viewer = {v1, v2}
  MaxTry = 2
  MaxLink = 2
  MaxWire = 2
  MaxReplay = 2
  v1 = v1
  v2 = v2
INVARIANTS DesktopIsTheirs KeysAgree ButtonIsHeld
PROPERTY AutoWaits
CHECK_DEADLOCK FALSE
