SPECIFICATION FairSpec
CONSTANTS
    Ids = {r1, r2}
    NoId = NoId
    NumTests = 2
    MaxIterations = 2
    QueueLen = 1
    OutboxLen = 1
INVARIANTS
    TypeOK
    CountMatchesInstances
    RunsOnItsOwnData
    IInv
PROPERTIES
    ReferenceStable
    ResultsAreEarned
    ImplementsService
    EveryRequestAnswered
