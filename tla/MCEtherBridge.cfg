SPECIFICATION Spec
CONSTANTS
    Mac <- MCMac
    Peer = {p}
    timeout = 1
    MaxTime = 4
    NULL = NULL
INVARIANTS
    TypeOK
    DanglesOnlyAcrossTicks
PROPERTIES
    BroadcastReachesAll
    BroadcastOnce
    UnicastIsFresh
