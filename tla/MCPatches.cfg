SPECIFICATION Spec
CONSTANTS
    SL_PATCH_PORTION_SIZE = 6
    TxBufferSizes = {15, 18}
    SP_PORTION_SIZE = 2
    MaxPatch = 14
    MaxFile = 7
    OffsetWrap = 8
    Versions = {v1, v2}
INVARIANTS TypeOK FileWritten ArrivesOrStops
CHECK_DEADLOCK FALSE
