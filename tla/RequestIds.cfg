SPECIFICATION Spec
CONSTANTS
  r1 = r1
  r2 = r2
  r3 = r3
  Req = {r1, r2, r3}
  IdleTimeout = 1
  DayOf <- TwoTicksADay
  MaxTime = 3
  MaxLives = 2
  MaxOverlap = 2
  MaxClears = 1
  ClearLives = {1}
  None = None
SYMMETRY Symmetry
INVARIANTS
  IdsUniqueInLife
  CommittedNeverReused
