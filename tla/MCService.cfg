SPECIFICATION FairSpec
CONSTANTS
    Apps = {a, b}
    Infos = {1, 2}
    MaxChanges = 1
    MaxForks = 2
\* the service stops for good, or kill(0, SIGKILL) ends the whole server
CHECK_DEADLOCK FALSE
INVARIANT RunningIsListed
INVARIANT StopIsComplete
PROPERTY CrashIsHandled
PROPERTY KillEndsTheStop
PROPERTY ImplementsSupervisor
