SPECIFICATION FairSpec
CONSTANTS
    NAddr = 2
    Period = 2
    Delays <- MCDelays
    OneShot = TRUE
    MipWrites = FALSE
    Stops = TRUE
INVARIANTS NotWedged
PROPERTIES RequestIsTaken ArmedIsServed
CHECK_DEADLOCK FALSE
