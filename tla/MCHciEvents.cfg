SPECIFICATION Spec
CONSTANTS
    Commands <- MCCommands
    MaxOut = 3
    MaxPatches = 2
    FastReply = FALSE
    SocketDies = FALSE
    Unsupported = FALSE
    PatchTraffic = FALSE
INVARIANT AwaitedIsComing
PROPERTY CallReturns
