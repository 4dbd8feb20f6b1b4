SPECIFICATION Spec
CONSTANTS
    FileSizes = {0, 1, 1150, 4095, 4096, 8193, 15766}
    Percents = {0, 4}
    IpLengths = {3, 7, 15}
    MaxRequests = 2
    Ports = {0, 80, 65535, 65536, 65537}
INVARIANTS
    RepliesOnlyIfReady
    IconFits
    PageWhole
