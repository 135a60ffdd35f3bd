SPECIFICATION Spec
CONSTANTS
    Levels = {1, 2}
    Handles = 2
    Losses = 2
    RmwRace = FALSE
    MayHang = TRUE
    SlowCalls = FALSE
    HandlerHangs = TRUE
    OddCodes = TRUE
    RecvFails = TRUE
    ScanStore = 2
    ScanTries = 4
    Networks = 3
INVARIANTS TypeOK ScanFits
PROPERTIES HangIsReset ScanEnds
CHECK_DEADLOCK FALSE
