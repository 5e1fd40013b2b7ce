SPECIFICATION FairSpec
CONSTANTS
    SyncRes = FALSE
    NoMsg = NoMsg
    main = main
    Senders = {s1, s2}
    MaxMsgs = 3
    MaxStarts = 2
CHECK_DEADLOCK FALSE
INVARIANT NoLostWakeup
INVARIANT InOrder
INVARIANT RestartIsClean
PROPERTY MessagesTaken
PROPERTY ImplementsMailbox
