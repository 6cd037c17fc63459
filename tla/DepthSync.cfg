SPECIFICATION Spec
CONSTANTS
    Levels = {l1, l2}
    MaxUpdates = 5
    MaxSocket = 3
    MaxResync = 3
INVARIANTS TypeOK NoAlphaFromUnsyncedBook
PROPERTIES FollowsTheExchange
CHECK_DEADLOCK FALSE
