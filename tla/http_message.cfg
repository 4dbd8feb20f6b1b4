SPECIFICATION Spec
CONSTANTS
    Buffers <- MCBuffers
    Number <- MCNumber
INVARIANTS
    HeaderFound
    PragmaFound
    CommandFound
    ParserInv
CHECK_DEADLOCK FALSE
