\* Chains of two pbufs in a ring of three: a descriptor of a chain is used
\* again before the chain is released.  It stops when the packets are used up.
SPECIFICATION FairSpec
CONSTANTS
    N = 3
    NULL = NULL
    Core = Core
    Link = Link
    MaxPbufs = 2
    MaxPackets = 4
    MaxStarts = 2
INVARIANTS
    TypeOK
    KeptUntilSent
PROPERTIES
    SendsInOrder
    OutputReturns
CHECK_DEADLOCK FALSE
