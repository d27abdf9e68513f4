CONSTANTS
    Key <- MCKey
    Alg <- MCAlg
    Signers <- MCSigners
    Seen = {"src", "bytes", "fffd"}
    Invalid = {"bytes"}
    Replaced = "fffd"
    MaxRuns = 1
    MaxEdits = 1
    MaxTime = 1
SPECIFICATION Spec
INVARIANT VerifierRecomputes
CHECK_DEADLOCK FALSE
