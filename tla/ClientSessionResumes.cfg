\* One request, no faults: packets overtaking each other suffice.
SPECIFICATION FairSpec
CONSTANTS
    MaxClientId = 3
    MaxServerId = 4
    AckRepeats = 1
    QueueLen = 1
    MaxRequests = 1
    MaxFaults = 0
    FreshInstall = TRUE
    MaySaveFail = FALSE
PROPERTIES
    Resumes
CHECK_DEADLOCK FALSE
