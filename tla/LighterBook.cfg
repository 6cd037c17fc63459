SPECIFICATION FairSpec
CONSTANTS
    Levels = {l1, l2}
    MaxUpdates = 4
    MaxSocket = 2
    StreakTrip = 2
    BadSnapshots = FALSE
INVARIANTS TypeOK DistrustForcesReset
PROPERTIES FollowsTheExchange BookIsRepaired
CHECK_DEADLOCK FALSE
