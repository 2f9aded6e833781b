SPECIFICATION Spec
CONSTANTS
  t1 = t1
  t2 = t2
  x = x
  y = y
  None = None
  Thread = {t1, t2}
  Search = {x, y}
  Width = 2
  Depth = 3
  MaxSessions = 2
  MaxSearches = 3
  MaxRefs = 2
  Allowed = {"timeout", "correct", "crash"}
SYMMETRY Symmetry
INVARIANTS
  MisledOnlyOnSuspect
  NeverShareCursor
