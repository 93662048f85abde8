SPECIFICATION Spec
CONSTANTS
    Mac <- MCMac
    Peer = {p, q}
    timeout = 1
    MaxTime = 4
    NULL = NULL
PROPERTIES
    RepliesReachTheirPeer
