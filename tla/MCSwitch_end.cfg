\* Lossy radio, and a server that may forget or restart.
SPECIFICATION FairSpec
CONSTANTS
    Transactions <- Mixed
    Target <- MixedTarget
    Want <- MixedWant
    Signed = {"far"}
    SwCount = 1
    MaxValue = 2
    Keep = 0
    Lossy = TRUE
    MaxNow = 1
    MaxBoots = 1
INVARIANTS TypeOK
PROPERTIES SwitchService TransactionsEnd
\* When every transaction has ended, nothing is left to do.
CHECK_DEADLOCK FALSE
