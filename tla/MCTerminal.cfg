\* A Telnet session or two, and a few keys.
SPECIFICATION FairSpec
CONSTANTS
    Texts <- MCTexts
    Length <- MCLength
    ShoutsQ = {"QC"}
    Callsign <- MCCallsign
    HashKey <- MCHashKey
    Stored <- MCStored
    Commands <- UseCommands
    LineMax = 1
    MaxSessions = 2
    MaxKeys = 3
INVARIANTS TypeOK OwnOutput SerialSaysWho SessionNeedsWifi SettingsKept KeyIsSaved
PROPERTIES SerialReturns WifiReturns

