\* Hosts end for good: a state in which all have ended has no successor.
CHECK_DEADLOCK FALSE
SPECIFICATION Spec
CONSTANTS
    a = a
    b = b
    Client <- MCClient
    Server = Server
    Frame <- MCFrame
    Length <- MCLength
SYMMETRY Symmetry
INVARIANTS
    TypeOK
    DeliversWhole
    NoOverrun
    EndedByLongFramesOnly
