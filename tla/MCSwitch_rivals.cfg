\* Three transactions for one switch; the server forgets them.
SPECIFICATION Spec
CONSTANTS
    Transactions <- Rivals
    Target <- RivalTarget
    Want <- RivalWant
    Signed = {"on", "dim", "ask"}
    SwCount = 1
    MaxValue = 2
    Keep = 0
    Lossy = FALSE
    MaxNow = 1
    MaxBoots = 0
PROPERTIES SwitchService
\* When every transaction has ended, nothing is left to do.
CHECK_DEADLOCK FALSE
