SPECIFICATION Spec
CONSTANTS
    p1 = p1
    PositionId = {p1}
    StartLedger = 1
    PageLimit = 2
    MAX_PAGES_PER_TICK = 2
    ScanWindow = 2
    MaxLedger = 4
    MaxEvents = 3
    MaxFaults = 1
    Idle = Idle
INVARIANT LeafSetIsGapFree
CHECK_DEADLOCK FALSE
