SPECIFICATION Spec
CONSTANTS
    MaxOffers = 2
    MaxIce = 2
INVARIANTS
    ObserverInv
    AnswersReflect
    CandidatesApplied
PROPERTY
    ImplementsNegotiation
CHECK_DEADLOCK FALSE
