SPECIFICATION FairSpec
CONSTANTS
    Main = Main
    NULL = NULL
    s1 = s1
    s2 = s2
    s3 = s3
    p1 = p1
    f0 = f0
    f1 = f1
    Coroutine <- MCCoroutines
    Shared <- MCShared
    PoolSize = 1
    Frame <- MCFrame
    Guard = f0
INVARIANTS
    TypeOK
    MainReady
    ReadyOnce
    StackIntact
    SingleHome
PROPERTIES
    TurnsComeInOrder
    ReadyEventuallyRuns
    ImplementsPrivateStacks
