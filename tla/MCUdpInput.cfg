SPECIFICATION FairSpec
CONSTANTS
    Conns = {c1, c2}
    Inputs = {i1, i2}
    None = None
\* the streamer ends
CHECK_DEADLOCK FALSE
INVARIANT TokensCoverConnections
PROPERTY StopEnds
