SPECIFICATION ScrollSpec
CONSTANTS
  r1 = r1
  r2 = r2
  r3 = r3
  Req = {r1, r2, r3}
  Order <- MCOrder
  Pages = {TRUE, FALSE}
  Shared = FALSE
  CommitsFail = TRUE
  MaxTurns = 2
  MaxLives = 3
  MaxClears = 1
  PastLength = 2
  BusyTimes <- MCBusyTimes
  DayLength = 2
  FirstTime = 4
  LastTime = 5
  MaxConnects = 2
  MaxAsks = 1
INVARIANTS
  SavedTurnsInTranscript
  CommittedTurnsRemembered
  Contiguous
PROPERTIES
  AllShown
