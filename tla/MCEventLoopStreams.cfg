SPECIFICATION FairSpec
CONSTANTS
    Main = Main
    NULL = NULL
    read_tap = read_tap
    read_udp = read_udp
    tap = tap
    udp = udp
    Coroutine <- MCCoroutines
    Fd <- MCFd
    Registered <- MCRegistered
    Udp <- None
    Source <- MCSource
    Sinks <- MCClientSinks
    Stream <- MCStreams
    Failing <- MCClosable
    Broadcasters <- None
    Waiters <- MCWaiters
    Size = 2
    Startup <- MCStartup
    MAX_EVENTS = 2
    Cap = 2
    Closable <- MCClosable
INVARIANTS
    NoLostWakeup
PROPERTIES
    ImplementsBlockingCalls
    KeepsProcessorOnlyAtEof
