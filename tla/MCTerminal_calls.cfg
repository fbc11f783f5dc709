\* Callsigns as operators type them.
SPECIFICATION Spec
CONSTANTS
    Texts <- MCTexts
    Length <- MCLength
    ShoutsQ = {"QC"}
    Callsign <- MCCallsign
    HashKey <- MCHashKey
    Stored <- MCStored
    Commands <- CallCommands
    LineMax = 1
    MaxSessions = 0
    MaxKeys = 4
INVARIANTS StationIsNoPseudo
