SPECIFICATION Spec
CONSTANTS
    Main = Main
    NULL = NULL
    read_tap = read_tap
    read_udp = read_udp
    tap = tap
    udp = udp
    Coroutine <- MCCoroutines
    Fd <- MCFd
    Registered <- MCRegistered
    Udp <- MCUdp
    Source <- MCSource
    Sinks <- MCServerSinks
    Stream <- None
    Failing <- MCUdp
    Broadcasters <- MCWorkers
    Waiters <- None
    Size = 1
    Startup <- MCStartup
    MAX_EVENTS = 2
    Cap = 2
    Closable <- None
INVARIANTS
    NamedAreWoken
PROPERTIES
    StrandedBySharing
    StrandedForGood
