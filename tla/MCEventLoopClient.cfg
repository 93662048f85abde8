SPECIFICATION FairSpec
CONSTANTS
    Main = Main
    NULL = NULL
    read_tap = read_tap
    read_udp = read_udp
    tap = tap
    udp = udp
    Coroutine <- MCCoroutines
    Fd <- MCFd
    Registered <- MCRegistered
    Udp <- MCUdp
    Source <- MCSource
    Sinks <- MCClientSinks
    Stream <- None
    Failing <- MCUdp
    Broadcasters <- None
    Waiters <- None
    Size = 1
    Startup <- MCStartup
    MAX_EVENTS = 1
    Cap = 2
    Closable <- None
INVARIANTS
    TypeOK
    PostedOnce
    YieldedCanBePosted
PROPERTIES
    TrafficIsServed
