SPECIFICATION Spec
CONSTANTS
    buy = buy
    Slots <- OneSlot
    MaxId = 2
    BaseSize = 1
    FillSizes = {1}
    Grace = 1
    MaxPartial = 0
    SlowSender = FALSE
    SlowReads = FALSE
    CancelAllMayFail = FALSE
    MaxLive = 1
    OtherOrders = 1
PROPERTIES FreedOrderIsDead
CHECK_DEADLOCK FALSE
