CONSTANTS
    Slots = {f1, f2}
    MaxAppends = 2
    MaxContent = 2
    FinalTexts <- MCFinalTexts
    ErrText <- MCErrText
SPECIFICATION Spec
INVARIANT FinishedStaysFinished
CHECK_DEADLOCK FALSE
