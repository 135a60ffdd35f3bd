SPECIFICATION Safety
CONSTANTS
    Sockets = {s1, s2}
    Buffers = 2
    Wrap = 4
    RmwRace = FALSE
INVARIANTS BuffersKnown DeadStaysDead
