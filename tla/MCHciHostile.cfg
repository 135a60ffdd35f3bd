SPECIFICATION Safety
CONSTANTS
    Commands <- MCCommands
    MaxOut = 3
    MaxPatches = 2
    FastReply = TRUE
    SocketDies = TRUE
    Unsupported = TRUE
    PatchTraffic = TRUE
INVARIANTS TypeOK GetsItsOwn
PROPERTIES UnreadKept WritesWhenQuiet
CHECK_DEADLOCK FALSE
