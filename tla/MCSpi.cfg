SPECIFICATION Spec
CONSTANTS
    MaxEvents = 3
    MaxReplies = 2
    PinRace = FALSE
    Hoisted = FALSE
PROPERTIES ImplementsLinkLive StartCompletes
