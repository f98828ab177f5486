CONSTANTS
    p1 = p1
    p2 = p2
    p3 = p3
    f1 = f1
    t1 = t1
    chat = chat
    Msgs <- MCMsgs
    Conv <- MCConv
    Kind <- MCKind
    MaxItems = 3
SPECIFICATION FairSpec
INVARIANTS FlushKeepsOrder BucketsWellKept
PROPERTY EveryMediaHandled
CHECK_DEADLOCK FALSE
