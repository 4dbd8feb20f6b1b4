SPECIFICATION Spec
CONSTANTS
    Sockets = {s1, s2}
    NoSocket = NoSocket
    MaxPeers = 2
    MaxSignaling = 1
    MaxPosted = 1
    IceReported = {}
SYMMETRY SocketSymmetry
INVARIANTS
    TypeOK
    OneOwner
    WaitAnsweredOnce
    OwnWait
    NoUseAfterFree
    ServerInv
