CONSTANTS
    p1 = p1
    p2 = p2
    Procs = {p1, p2}
    NoProc = NoProc
    Second = 2
    Unit = 2
    PerTick = 3
    Backoff = 3
    Early = 1
    Lifetimes = {0, 2}
    DefaultLife = 3
    Limit = 6
    NewLine = 0
    NoFence = NoFence
    Jobs <- MCJobs
    Texts <- MCTexts
    MaxAttempts = 2
    MaxCalls = 2
    TTL = 2
    MinRefresh = 2
SPECIFICATION FairSpec
INVARIANTS RateBound NoStaleToken PiecesInOrder DuplicateOnlyIfLost ChunksFaithful
PROPERTIES FetchesSpaced EveryOperationReturns
CHECK_DEADLOCK FALSE
