SPECIFICATION VoiceSpec
CONSTANTS
  Window = {w1, w2}
  Engine = {"flux", "live"}
  MaxTurnOn = 2
  MaxTurnOff = 1
  w1 = w1
  w2 = w2
INVARIANT OneMic
CHECK_DEADLOCK FALSE
