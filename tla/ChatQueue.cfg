CONSTANTS
    m1 = m1
    m2 = m2
    m3 = m3
    Msgs <- MCMsgs
    Chars <- MCChars
    Runs = {r1}
    MaxMessages = 3
    MaxChars = 4
    Cap = 1
    Closer = Closer
    Timer = Timer
    None = None
SPECIFICATION FairSpec
INVARIANTS NeverStranded BatchWithinLimits QuietCloseIsClean
PROPERTIES SerialInOrder EveryMessageHandled EveryRunReturns
