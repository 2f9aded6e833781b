SPECIFICATION Spec
CONSTANTS
  c1 = c1
  c2 = c2
  l1 = l1
  l2 = l2
  None = None
  Call = {c1, c2}
  Lib = {l1, l2}
  MaxSocket = 3
INVARIANTS
  NothingSwallowed
PROPERTIES
  Promised
