SPECIFICATION SocSpec
CONSTANTS
    NAddr = 1
    Period = 2
    Delays <- MCDelays
    OneShot = FALSE
    MipWrites = FALSE
    Stops = FALSE
    Half = 4
    LoWords <- MCLoWords
    HiWords <- MCHiLow
    MtimeWrites = FALSE
    MaxTime = 8
PROPERTIES NeverBeforeMtimecmp
CHECK_DEADLOCK FALSE
