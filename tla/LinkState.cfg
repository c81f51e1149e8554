\* Two speeds, two addresses; the 8-bit index wraps after three links.
SPECIFICATION FairSpec
CONSTANTS
    Modes = {"100 full", "10 half"}
    Default = "100 full"
    Ips = {"a", "b"}
    NoIp = "none"
    MaxIdx = 3
INVARIANTS
    TypeOK
    IndexMeansUp
    ReceivesBound
PROPERTIES
    NoticesLinkLoss
    ServesAgain
    KnownSpeedIsUsed
