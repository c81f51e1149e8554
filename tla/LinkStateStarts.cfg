\* One speed; the PHY has a link before MX_LWIP_Init has set the callback.
SPECIFICATION FairSpec
CONSTANTS
    Modes = {"100 full"}
    Default = "100 full"
    Ips = {"a", "b"}
    NoIp = "none"
    MaxIdx = 2
PROPERTIES
    StartsWithLink
