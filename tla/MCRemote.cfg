SPECIFICATION Spec
CONSTANTS
    Levels = {1, 2}
    Handles = 4
    Losses = 2
    RmwRace = FALSE
    MayHang = TRUE
    SlowCalls = FALSE
    HandlerHangs = FALSE
    OddCodes = FALSE
    RecvFails = FALSE
    ScanStore = 2
    ScanTries = 4
    Networks = 3
PROPERTIES LossNoticed ServerComesUp LightCommanded RestoresPrevious
CHECK_DEADLOCK FALSE
