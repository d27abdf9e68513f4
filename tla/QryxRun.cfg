CONSTANTS
    rsa = rsa
    md5 = md5
    none = none
    quantum = quantum
    weak = weak
    o1 = o1
    o2 = o2
    agent = agent
    b1 = b1
    r1 = r1
    r2 = r2
    Asset = {rsa, md5}
    Class = {none, quantum, weak}
    RiskNone = none
    Occ = {o1, o2}
    Agent = {agent}
    NoAgent = NoAgent
    Run = {r1, r2}
    Outside = Outside
    Target = {b1}
    None = None
    Unreadable = Unreadable
    Scan <- MCScan
    Flags <- MCFlags
    Beside <- PairFlags
SYMMETRY Alike
SPECIFICATION Spec
CHECK_DEADLOCK FALSE
INVARIANTS
    TypeOK
    ExitIsVerdict
    GateNeverBlind
    AuditBeforeExit
    TestsStayOut
    NoNewRiskPasses
