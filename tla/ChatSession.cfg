CONSTANTS
  c1 = c1
  c2 = c2
  s1 = s1
  s2 = s2
  None = None
  Conn = {c1, c2}
  SessionOf <- PairSession
  MaxMsgs = 4
  PendingMax = 2
SPECIFICATION FairSpec
INVARIANTS
  IdleMeansDrained
  LatestHoldsSlot
PROPERTIES
  ArbiterHitsJudgedOrSuccessor
  EveryMessageSettles
CHECK_DEADLOCK FALSE
