SPECIFICATION FairSpec
CONSTANTS
    SyncRes = TRUE
    NoMsg = NoMsg
    Callers = {c1, c2}
    Receivers = {r1, r2}
    Uuids = {u1, u2, u3}
CHECK_DEADLOCK FALSE
INVARIANT AnswersMatch
PROPERTY CallEnds
PROPERTY ImplementsRpc
