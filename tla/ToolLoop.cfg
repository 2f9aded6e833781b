SPECIFICATION Spec
CONSTANTS
  None = None
  Req = {1, 2}
  HistoryMax = 1
  StoreMax = 2
  Limit = 2
  MaxCalls = 2
  MaxParallel = 2
  Parallel = TRUE
  Items = 1
  Overlap = TRUE
  MaxMade = 2
CHECK_DEADLOCK FALSE
INVARIANTS
  HistoryResolves
  HandlesNameTheirSearch
PROPERTIES
  Bounded
