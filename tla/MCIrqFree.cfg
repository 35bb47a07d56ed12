SPECIFICATION Spec
CONSTANTS
    NAddr = 2
    Period = 2
    Delays <- MCDelays
    OneShot = FALSE
    MipWrites = FALSE
    Stops = TRUE
INVARIANTS TypeOK MeipWillBeLowered
PROPERTIES HandlerGetsOneInstruction
CHECK_DEADLOCK FALSE
