SPECIFICATION Spec
CONSTANTS
    NAddr = 2
    Period = 2
    Delays <- MCDelays
    OneShot = TRUE
    MipWrites = TRUE
    Stops = TRUE
PROPERTIES ImplementsIrqLine
CHECK_DEADLOCK FALSE
