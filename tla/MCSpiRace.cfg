SPECIFICATION Safety
CONSTANTS
    MaxEvents = 3
    MaxReplies = 2
    PinRace = TRUE
    Hoisted = TRUE
INVARIANTS TypeOK ExactlyOnce UnreadIsMasked NoMaskedSpin FirstWriteBooted
PROPERTIES HandlerInStep ImplementsLink
CHECK_DEADLOCK FALSE
