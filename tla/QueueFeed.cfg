SPECIFICATION FeedSpec
CONSTANTS
  MaxInvalidated = 1
  MaxQueued = 2
  MaxChannel = 2
  MaxReferences = 3
  MaxShown = 2
  MaxSockets = 2
  MaxRestarts = 1
INVARIANTS
  RefsFollowQueue
  ShownRefsResolve
CHECK_DEADLOCK FALSE
PROPERTIES
  FeedCatchesUp
