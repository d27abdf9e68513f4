CONSTANTS
    Unwritten = Unwritten
    Input <- MCInput
    MaxLen = 3
SPECIFICATION Spec
CHECK_DEADLOCK FALSE
INVARIANTS
    NoBadFindingHidden
    FullScoreIsEarned
    PlanMatchesAudit
    PolicyMatchesAudit
    MilestonesMatchAudit
