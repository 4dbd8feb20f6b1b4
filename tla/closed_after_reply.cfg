SPECIFICATION Spec
CONSTANTS
    Sockets = {s1, s2}
    NoSocket = NoSocket
    MaxPeers = 1
    MaxSignaling = 1
    MaxPosted = 1
    IceReported = {}
INVARIANT
    ClosedAfterReply
