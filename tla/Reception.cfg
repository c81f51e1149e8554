\* Three buffers for two descriptors: the pool runs empty with the first
\* packet that lwIP keeps.  It stops when the frames and starts are used up.
SPECIFICATION FairSpec
CONSTANTS
    N = 2
    Buffers = {b1, b2, b3}
    NULL = NULL
    Freers = {t1, t2}
    MaxFrames = 3
    MaxStarts = 2
INVARIANTS
    TypeOK
    OneOwner
    DryPoolIsNoticed
PROPERTIES
    ReadsInOrder
    FramesAreRead
CHECK_DEADLOCK FALSE
