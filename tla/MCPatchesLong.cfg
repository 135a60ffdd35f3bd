SPECIFICATION Spec
CONSTANTS
    SL_PATCH_PORTION_SIZE = 1000
    TxBufferSizes = {131}
    SP_PORTION_SIZE = 32
    MaxPatch = 125
    MaxFile = 1
    OffsetWrap = 2
    Versions = {v1}
INVARIANT WholePatch
