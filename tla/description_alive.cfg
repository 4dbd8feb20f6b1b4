SPECIFICATION Spec
CONSTANTS
    MaxOffers = 1
    MaxIce = 1
INVARIANT
    DescriptionAlive
CHECK_DEADLOCK FALSE
