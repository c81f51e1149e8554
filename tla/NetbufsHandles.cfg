\* Two packets suffice: the second arrives before the first netbuf is deleted
\* for the second time.
SPECIFICATION Spec
CONSTANTS
    Pool = {n1, n2}
    NULL = NULL
    InboxLen = 2
    MaxPbufs = 3
INVARIANTS
    HandlesWhatWasReceived
CHECK_DEADLOCK FALSE
