SPECIFICATION Spec
CONSTANTS
    Address = {p, q, r}
    Caller = {u, v}
    timeout = 1
    MaxTime = 4
    NULL = NULL
INVARIANTS
    TypeOK
    HeardPeersStay
    UndefinedOnlyIfSwept
