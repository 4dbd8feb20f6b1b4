SPECIFICATION FairSpec
CONSTANTS
    Producers = {p1, p2}
    Consumers = {c1, c2}
    NoThread = NoThread
    Messages = {a, b}
    MaxEnqueued = 3
INVARIANTS
    QueueInv
    NoLostWakeup
PROPERTY
    ImplementsFifo
