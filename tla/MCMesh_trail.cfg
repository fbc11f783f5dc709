\* A route request over a repeater: the RSSI in its trail.
SPECIFICATION Spec
CONSTANTS
    Stations <- Line
    Repeaters = {"R"}
    Hears <- LineHears
    Rssi <- LineRssi
    Key <- LineKeys
    Texts = {"x", "y", "up"}
    NoKey = "none"
    Reliable = FALSE
    Requests <- RouteRequests
    Beaconers = {}
    FirstId <- LineFirstId
    MaxId = 9
    MaxPayload = 9
    RecvLogPersist = 1
    NeighPersist = 1
    HopTime = 1
    MaxSends = 1
    MaxBoots <- AnswersBoots
    MaxNow = 0
INVARIANTS RouteRssiIsHeard
CHECK_DEADLOCK FALSE
