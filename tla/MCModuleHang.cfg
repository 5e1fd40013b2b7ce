SPECIFICATION FairSpec
CONSTANTS
    SyncRes = FALSE
    NoMsg = NoMsg
    main = main
    Senders = {s1, s2}
    MaxMsgs = 3
    MaxStarts = 2

PROPERTY GetEndsAfterStop
CHECK_DEADLOCK FALSE
