SPECIFICATION FairSpec
CONSTANTS
    Addrs = {"a"}
    MaxClientId = 1
    MaxServerId = 3
    NumTests = 1
    MaxIterations = 0
    QueueLen = 1
    OutboxLen = 2
    InboxLen = 1
    Repeats = 2
    MaxRequests = 3
INVARIANTS
    TypeOK
    AcceptedIsServed
    AckPrecedesStart
PROPERTIES
    KeepsService
    ListenerReturns
    AcceptedIsAnswered
