\* A command to switch off, while nothing is forgotten.
SPECIFICATION FairSpec
CONSTANTS
    Transactions <- OnOff
    Target <- OnOffTarget
    Want <- OnOffWant
    Signed <- OnOff
    SwCount = 1
    MaxValue = 2
    Keep = 1
    Lossy = TRUE
    MaxNow = 0
    MaxBoots = 0
PROPERTIES CommandsAreAccepted
CHECK_DEADLOCK FALSE
