SPECIFICATION ActionSpec
CONSTANTS
  Titles <- MCTitles
  Near <- MCNear
  Gateways <- MCGateways
  Refs <- MCRefs
  Slips <- MCSlips
  MaxHeld = 2
  MaxItems = 2
  AlbumTracks = 2
  Counts <- MCCounts
INVARIANTS
  ReportIsHonest
  QueueingKeepsTheQueue
  NeverPlaysOther
CHECK_DEADLOCK FALSE
