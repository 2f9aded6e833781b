SPECIFICATION FairSpec
CONSTANTS
    Outputs = {o1, o2}
    Names = {n1, n2, n3}
    Aliases = {a1, a2}
    None = None
    Titles = {t1, t2}
    Marker = Marker
    HistoryMax = 2
    Stoppers = {web, tool}
    Disabled = FALSE
    MaxSaves = 2
    MaxFaults = 1
    Mixes <- MCMixes
    MaxLives = 2
CHECK_DEADLOCK FALSE
INVARIANTS
    AliasFollowsOutput
    StaleIsRepairable
    HeardIsOnRecord
    StopIsHonest
PROPERTIES
    DefaultIsKept
    HistoryIsSaved
