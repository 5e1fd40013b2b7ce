SPECIFICATION FairSpec
CONSTANTS
    Tasks = {t1}
    Pipes = {1, 2}
    NoPipe = NoPipe
    MaxChanges = 1
    MaxStarts = 2
    MaxReports = 1
\* the application ends; a lost stop leaves everyone waiting
CHECK_DEADLOCK FALSE
INVARIANT NoUseAfterFree
INVARIANT StopLeavesNone
PROPERTY StopEnds
