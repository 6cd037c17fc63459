SPECIFICATION Spec
CONSTANTS
    Tick = 10
    Basis = 100
    MinHalfSpread = 10
    Skew = 150
    FallbackDepth = 4
    Mids = {95, 100, 103, 110}
    Halves = {0, 4, 13, 25}
    Drifts = {0, 7, 30}
    Positions = {0, 1, 2, 3}
    Limits = {0, 700, 2100, 5000, 40000}
    SpreadFactor = 2
    MinRatio = 5
    ExitTighten = 45
    MaxExitTighten = 35
    AddWiden = 75
    MaxAddWiden = 65
    Mid = 100
    Warmup = 2
    Capitals = {320}
    Grace = 2
    Fallback = 2
    MaxLong = 6
    MaxShort = 1
    ReadFills = 1
    MaxStream = 1
    MaxOutages = 1
    PositionReadFails = FALSE
CHECK_DEADLOCK FALSE
INVARIANTS ExposureIsBounded LadderIsSafe
