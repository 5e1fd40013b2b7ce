SPECIFICATION FairSpec
CONSTANTS
    Probers = {p1, p2}
    Waiters = {w1, w2}
    MaxStops = 3
    MaxSignals = 1
INVARIANT Conservation
PROPERTY StopReleasesAll
PROPERTY ImplementsFlag
