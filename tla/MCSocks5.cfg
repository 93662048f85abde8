SPECIFICATION FairSpec
CONSTANTS
    Main = Main
    NULL = NULL
    Coroutine <- MCCoroutine
    Conn = {c1, c2}
    MaxFd = 6
    Cap = 1
INVARIANTS
    TypeOK
    OneOwner
    EventReachesOwner
    LoopWaitsOnlyBehindUploads
    AcceptLeaks
    PostedOnce
    NoLostWakeup
PROPERTIES
    ClientsAreAccepted
    RelayGoesOn
    LoopRunsUnlessStalled
CHECK_DEADLOCK FALSE
