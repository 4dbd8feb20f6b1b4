CONSTANTS
    MaxXhrs = 4
    MaxCalls = 2
    MaxClicks = 3
    MaxPeers = 2
    Impatient = FALSE
    Lossy = TRUE
SPECIFICATION Spec
CHECK_DEADLOCK FALSE
INVARIANTS
    AnswerFitsOffer
    CandidatesFit
    NoGap
    ReflectorInv
PROPERTIES
    WaitNotOverwritten
