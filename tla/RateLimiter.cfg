SPECIFICATION FairSpec
CONSTANTS
    Budget = 4
    Window = 5
    WindowSkip = 2
    BackoffSleep = 1
    BackoffBase = 2
    BackoffMax = 8
    ResetAfter = 2
    Decay = 9
    SendInterval = 1
    CancelInterval = 2
    FreeSlot = 3
    MaxBatch = 2
    TopLevel = 3
INVARIANTS TypeOK WindowRespected
PROPERTIES BackoffIsServed NoStarvation
