SPECIFICATION Spec
CONSTANTS
    Conns = {c1, c2}
    Inputs = {i1, i2}
    None = None
    Out = Out
    Stopper = Stopper
SYMMETRY Symmetry
\* the streamer ends
CHECK_DEADLOCK FALSE
INVARIANT StopNeverThrows
INVARIANT OrphansAreStopped
INVARIANT NoUseAfterFree
 
