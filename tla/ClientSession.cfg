SPECIFICATION FairSpec
CONSTANTS
    MaxClientId = 3
    MaxServerId = 4
    AckRepeats = 1
    QueueLen = 1
    MaxRequests = 2
    MaxFaults = 1
    FreshInstall = FALSE
    MaySaveFail = TRUE
INVARIANTS
    TypeOK
    RowsBelongToRequest
    RowsAreConsistent
    AckedWasHeard
PROPERTIES
    GivesUp
CHECK_DEADLOCK FALSE
