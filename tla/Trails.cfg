CONSTANTS
    c1 = c1
    c2 = c2
    None = None
    Client <- MCClient
    Scores <- MCScores
    MaxStamp = 3
    MaxRecords = 3
    MaxTime = 2
    Kinds = {"trail"}
    Snapshot <- MCSnapshot
    Taken <- MCTaken
    Asset = {}
    MaxScans = 1
SYMMETRY Alike
SPECIFICATION TargetsSpec
CHECK_DEADLOCK FALSE
INVARIANTS
    HistoryGrows
    NoLockNeeded
PROPERTIES
    TrailSpec
    TableTrail
