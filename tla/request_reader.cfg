SPECIFICATION Spec
CONSTANTS
    Size = 5
    Header = 2
    ReplySize = 3
    Lengths = {1, 2, 4, 5, 6, 7}
    MaxRecord = 3
    MaxRequests = 2
INVARIANTS
    ReaderInv
    TakesAllThatCame
    MessageIsBody
