CONSTANTS
    Commands = {"scan"}
    Resource <- MCResource
    KeySpec <- MCKeySpec
    Expired <- MCExpired
    Disabled <- MCDisabled
    PageSize = 2
    Endpoints <- MCEndpoints
    Answer <- MCAnswer
    MaxTargets = 3
    Images <- MCImages
    MaxFileBytes = 3
    MaxTotalBytes = 5
    MaxSourceBytes = 2
    SkipDirs = {"vendor"}
    Tree <- MCTree
    Contents <- OtherContents
    MaxScans = 1
    MaxChanges = 0
SPECIFICATION SourcesSpec
CHECK_DEADLOCK FALSE
INVARIANT ProductionStillCounts
