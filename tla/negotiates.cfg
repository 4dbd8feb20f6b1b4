CONSTANTS
    MaxXhrs = 3
    MaxCalls = 2
    MaxClicks = 3
    MaxPeers = 2
    Impatient = FALSE
    Lossy = FALSE
SPECIFICATION FairSpec
PROPERTIES
    Negotiates
CHECK_DEADLOCK FALSE
