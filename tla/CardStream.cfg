CONSTANTS
    Slots = {f1, f2}
    MaxAppends = 2
    MaxContent = 2
    FinalTexts <- MCFinalTexts
    ErrText <- MCErrText
SPECIFICATION FairSpec
INVARIANTS OneTerminalStatus EveryDeltaScheduled QuietCloseIsFinal FinishReachesUser
PROPERTIES EveryCardClosed
CHECK_DEADLOCK FALSE
