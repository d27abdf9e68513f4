CONSTANTS
    Commands = {"scan", "image", "aws", "azure", "gcp", "tls"}
    Resource <- MCResource
    KeySpec <- MCKeySpec
    Expired <- MCExpired
    Disabled <- MCDisabled
    PageSize = 2
    Endpoints <- MCEndpoints
    Answer <- MCAnswer
    MaxTargets = 3
    Images <- MCImages
    MaxFileBytes = 3
    MaxTotalBytes = 5
    MaxSourceBytes = 2
    SkipDirs = {"vendor"}
    Tree <- MCTree
    Contents <- MCContents
    MaxScans = 2
    MaxChanges = 1
SPECIFICATION SourcesSpec
INVARIANTS
    AllTypesOK
    CleanMeansExamined
    TestsStamped
    ImageAccounted
    BudgetKept
    Accounted
    TargetsAccounted
PROPERTY
    ScanEnds
CHECK_DEADLOCK FALSE
