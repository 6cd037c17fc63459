SPECIFICATION Spec
CONSTANTS
    MaxRejections = 2
    Debounce = 2
    MaxAhead = 2
    LateFrames = TRUE
    LostRefresh = TRUE
INVARIANTS TypeOK GateInv
PROPERTIES NoResumeOnDirtySnapshot
CHECK_DEADLOCK FALSE
