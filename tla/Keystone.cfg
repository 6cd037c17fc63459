SPECIFICATION Spec
CONSTANTS
    buy = buy
    Slots <- OneSlot
    MaxId = 3
    BaseSize = 1
    FillSizes = {}
    Grace = 2
    MaxPartial = 0
    SlowSender = FALSE
    SlowReads = FALSE
    CancelAllMayFail = FALSE
    MaxLive = 1
    OtherOrders = 1
INVARIANTS TypeOK AtMostOneLive LiveIsTracked
CHECK_DEADLOCK FALSE
