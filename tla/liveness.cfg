SPECIFICATION FairSpec
CONSTANTS
    Sockets = {s1, s2}
    NoSocket = NoSocket
    MaxPeers = 1
    MaxSignaling = 2
    MaxPosted = 1
    IceReported = {"New", "Checking", "Connected", "Failed", "Disconnected"}
PROPERTIES
    MainReturns
    UnconnectedEnds
    EndedDeleted
    WaitAnswered
    PostHandled
INVARIANT
    OutboxInOrder
