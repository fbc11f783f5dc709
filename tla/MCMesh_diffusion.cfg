\* A station and two repeaters that all hear each other, losses, beacons, and a
\* clock that outlasts both expiry times: what is forgotten is not missed.
SPECIFICATION FairSpec
CONSTANTS
    Stations <- Triangle
    Repeaters = {"R", "S"}
    Hears <- TriangleHears
    Rssi <- TriangleRssi
    Key <- TriangleKeys
    Texts = {"x", "y", "up"}
    NoKey = "none"
    Reliable = FALSE
    Requests <- TriangleRequests
    Beaconers = {"R"}
    FirstId <- TriangleFirstId
    MaxId = 9
    MaxPayload = 9
    RecvLogPersist = 2
    NeighPersist = 1
    HopTime = 1
    MaxSends = 1
    MaxBoots <- TriangleBoots
    MaxNow = 4
INVARIANTS AtMostOnceDelivery TablesNested AtMostOnceOnAir NeighIsDirect
PROPERTIES DiffusionEnds
CHECK_DEADLOCK FALSE
