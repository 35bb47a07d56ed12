SPECIFICATION SocSpec
CONSTANTS
    NAddr = 1
    Period = 2
    Delays <- MCDelays
    OneShot = FALSE
    MipWrites = TRUE
    Stops = FALSE
    Half = 4
    LoWords <- MCLoWords
    HiWords <- MCHiAll
    MtimeWrites = TRUE
    MaxTime = 8
INVARIANTS SocTypeOK MtimeNotTorn
PROPERTIES FiresInWindow
CHECK_DEADLOCK FALSE
