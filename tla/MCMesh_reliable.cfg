\* Every transmission is heard by all in range: unicasts and answers arrive.
SPECIFICATION FairSpec
CONSTANTS
    Stations <- Diamond
    Repeaters = {"R", "S"}
    Hears <- DiamondHears
    Rssi <- DiamondRssi
    Key <- DiamondSigned
    Texts = {"x", "y", "up"}
    NoKey = "none"
    Reliable = TRUE
    Requests <- ReliableRequests
    Beaconers = {}
    FirstId <- DiamondFirstId
    MaxId = 9
    MaxPayload = 9
    RecvLogPersist = 1
    NeighPersist = 1
    HopTime = 1
    MaxSends = 1
    MaxBoots <- NoBoots
    MaxNow = 0
PROPERTIES UnicastsArrive
CHECK_DEADLOCK FALSE
