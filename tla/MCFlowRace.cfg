SPECIFICATION Spec
CONSTANTS
    Sockets = {s1, s2}
    Buffers = 2
    Wrap = 4
    RmwRace = TRUE
INVARIANTS TypeOK NeverOverruns
PROPERTIES DrainedWhenShutDown SendReturns
