SPECIFICATION FairSpec
CONSTANTS
    Procs = {1, 2}
    MaxFrames = 2
    MaxStray = 1
    MaxIndex = 3
    Clock = {2}
    MaxUnsent = 1
    CancelAttempts = 2
    SetLeverage = TRUE
    RefreshMayFail = FALSE
INVARIANTS TypeOK NoGhostOrders IdsAreUsable
PROPERTIES OutcomesAreHonest SessionSettles
CHECK_DEADLOCK FALSE
