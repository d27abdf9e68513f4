CONSTANTS
    Run = {r1, r2, r3}
    Agent = {"a"}
    NoAgent = "nobody"
    Scanned <- MCScanned
    Forbidden = {"X509"}
    Asked <- MCAsked
    MaxEvents = 4
    MaxFaults = 2
SYMMETRY Alike
SPECIFICATION Spec
INVARIANTS
    HonestNeverBroken
    VerifiedHasNoGap
    ToldOnce
CHECK_DEADLOCK FALSE
