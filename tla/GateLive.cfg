SPECIFICATION FairSpec
CONSTANTS
    MaxRejections = 1
    Debounce = 1
    MaxAhead = 1
    LateFrames = FALSE
    LostRefresh = FALSE
INVARIANTS FlatAfterShutdown TrustedNonceIsInSync
PROPERTIES DeadManPullsQuotes NonceIsResynced RecoversWhenHealthy ShutdownCompletes
CHECK_DEADLOCK FALSE
