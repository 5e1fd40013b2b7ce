SPECIFICATION FairSpec
CONSTANTS
    Threads = {t1, t2}
    Starters = {c1, c2}
    Stoppers = {c1, c2}
    StopAlls = {c3}
    MaxLives = 2
    MaxStarts = 2
CHECK_DEADLOCK FALSE
INVARIANT RunningIsKnown
INVARIANT StopLeavesNothing
PROPERTY StopReturns
PROPERTY ImplementsPool
