SPECIFICATION Spec
CONSTANTS
    Levels = {1, 2}
    Handles = 4
    Losses = 2
    RmwRace = TRUE
    MayHang = FALSE
    SlowCalls = FALSE
    HandlerHangs = FALSE
    OddCodes = FALSE
    RecvFails = FALSE
    ScanStore = 2
    ScanTries = 4
    Networks = 3
PROPERTY LossNoticed
