\* A line with HMAC, confirmations and pings, losses and a reboot of each station.
SPECIFICATION Spec
CONSTANTS
    Stations <- Line
    Repeaters = {"R"}
    Hears <- LineHears
    Rssi <- LineRssi
    Key <- LineKeys
    Texts = {"x", "y", "up"}
    NoKey = "none"
    Reliable = FALSE
    Requests <- AnswersRequests
    Beaconers = {}
    FirstId <- LineFirstId
    MaxId = 9
    MaxPayload = 4
    RecvLogPersist = 1
    NeighPersist = 1
    HopTime = 1
    MaxSends = 2
    MaxBoots <- AnswersBoots
    MaxNow = 0
INVARIANTS TypeOK NoFalseDuplicate ConfirmMeansDelivered IntactWhenSigned
PROPERTIES AnswersAreNotAnswered DatagramService
CHECK_DEADLOCK FALSE
