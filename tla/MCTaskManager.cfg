\* Three tasks that finish, repeat and schedule each other, and a counter that
\* wraps twice.
SPECIFICATION SFairSpec
CONSTANTS
    Tasks = {t1, t2, t3}
    Offsets = {0, 1}
    MaxClock = 10
    Wrap = 5
    Threshold = 1
    MaxGap = 3
    MaxHi = 2
INVARIANTS TypeOK OnlyLiveAtRest ClockIsTrue
PROPERTIES FirstDueFirst TimersService DueTasksRun
