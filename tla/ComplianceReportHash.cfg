CONSTANTS
    Unwritten = Unwritten
    Input <- HashInput
    MaxLen = 3
SPECIFICATION Spec
CHECK_DEADLOCK FALSE
INVARIANT
    NeverCountedAsCompliant
