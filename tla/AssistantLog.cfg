SPECIFICATION ConversationSpec
CONSTANTS
  Tab = {t1, t2}
  Prompt = {p1, p2}
  MaxSeq = 3
  MaxConn = 2
  MaxClear = 1
  MaxFault = 1
  None = None
  Window = {t1, t2}
  Engine = {"flux", "live"}
  MaxTurnOn = 2
  MaxTurnOff = 1
  UtteranceGap = 1
  OwnAnswer = 2
  DelegationSlack = 1
  Settle = {0, 1}
  WaitMax = 2
  MaxTime = 3
  MaxSpan = 2
  MaxHandOff = 1
  t1 = t1
  t2 = t2
  p1 = p1
  p2 = p2
SYMMETRY Symmetry
INVARIANTS CopyIsTheLog PromptsAccounted WordsGoOnce MicsSettle
CHECK_DEADLOCK FALSE
