CONSTANTS
    c1 = c1
    c2 = c2
    s1 = s1
    s2 = s2
    rsa = rsa
    md5 = md5
    None = None
    Client <- MCClient
    Snapshot <- MCSnapshot
    Taken <- MCTaken
    Asset <- MCAsset
    MaxScans = 2
    Kinds = {"store"}
    MaxStamp = 1
    Scores = {40}
    MaxRecords = 1
    MaxTime = 1
SYMMETRY Alike
SPECIFICATION TargetsSpec
INVARIANTS
    TypeOK
    TargetWhole
    LoadSeesWhole
PROPERTIES
    CellSpec
    BaselineNeverOlder
    TableCell
