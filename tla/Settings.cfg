SPECIFICATION SettingsFairSpec
CONSTANTS
  p = p
  q = q
  h1 = h1
  Unset = Unset
  Provider = {p, q}
  Handler = {h1}
  Scenes <- MCScenes
INVARIANTS
  VerdictIsCurrent
PROPERTIES
  BackendRecovers
CHECK_DEADLOCK FALSE
