SPECIFICATION FairSpec
CONSTANTS
    Loaders = {l1, l2}
    MaxLoads = 3
    MaxTimeouts = 3
    MaxUnloads = 2
CHECK_DEADLOCK FALSE
INVARIANT NotStartedEarly
INVARIANT ReportedUnlessUnloaded
PROPERTY WaitStartIsTruthful
PROPERTY StartupFinishes
