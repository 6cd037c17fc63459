CONSTANTS
    Cids = {1}
    IdSetCap = 3
    PendingLimit = 2
    IncludeUnattributed = FALSE
    Window = 1
    Sells = {2}
    MaxTrades = 4
    MaxEpoch = 2
SPECIFICATION Spec
INVARIANTS TypeOK BookedOnce PositionTracksExchange NoRegisteredTradeWaits LoggedOnce
CHECK_DEADLOCK FALSE
