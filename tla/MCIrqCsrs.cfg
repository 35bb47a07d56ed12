SPECIFICATION Spec
CONSTANTS
    NAddr = 1
    Period = 2
    Delays <- MCDelays
    OneShot = TRUE
    MipWrites = FALSE
    Stops = FALSE
PROPERTIES CsrsSetsMstatus
