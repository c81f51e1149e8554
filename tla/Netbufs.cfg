SPECIFICATION Spec
CONSTANTS
    Pool = {n1, n2}
    NULL = NULL
    InboxLen = 2
    MaxPbufs = 4
INVARIANTS
    TypeOK
    HandlesInOrder
    PbufsReturn
CHECK_DEADLOCK FALSE
