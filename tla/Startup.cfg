SPECIFICATION Spec
CONSTANTS
  c1 = c1
  c2 = c2
  a = a
  b = b
  None = None
  Client = {c1, c2}
  Core = {a, b}
  Threshold = 2
  Window = 1
  Bounds <- MCBounds
INVARIANTS
  PairedIsUsable
PROPERTIES
  NeverQuitsOnLiveClient
  BundleQuits
  RestartHonoured
  AskedOnce
  PageContinues
