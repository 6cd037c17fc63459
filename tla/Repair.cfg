SPECIFICATION FairSpec
CONSTANTS
    buy = buy
    Slots <- OneSlot
    MaxId = 2
    BaseSize = 1
    FillSizes = {}
    Grace = 1
    MaxPartial = 1
    SlowSender = FALSE
    SlowReads = FALSE
    CancelAllMayFail = TRUE
    MaxLive = 2
    OtherOrders = 1
PROPERTIES DuplicatesAreRepaired LostCancelSelfHeals DeadSlotIsFreedOrTouched
CHECK_DEADLOCK FALSE
