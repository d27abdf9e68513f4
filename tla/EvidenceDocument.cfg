CONSTANTS
    Key <- MCKey
    Alg <- MCAlg
    Signers <- MCSigners
    Seen = {"src", "bytes", "fffd"}
    Invalid = {"bytes"}
    Replaced = "fffd"
    MaxRuns = 2
    MaxEdits = 2
    MaxTime = 1
SPECIFICATION Spec
INVARIANTS
    NamesTheSigner
    HonestVerifies
CHECK_DEADLOCK FALSE
