SPECIFICATION FairSpec
CONSTANTS
    NAddr = 1
    Period = 2
    Delays <- MCDelays
    OneShot = FALSE
    MipWrites = FALSE
    Stops = FALSE
PROPERTIES RequestIsTaken
