SPECIFICATION FairSpec
CONSTANT Timers = {t1, t2}
INVARIANT AtMostOneLateCall
PROPERTY StopJoins
