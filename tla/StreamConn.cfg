CONSTANTS
    MaxConns = 2
    MaxFrames = 2
    MaxRounds = 2
    Cap = 1
    ReconnectEnabled = TRUE
SPECIFICATION FairSpec
INVARIANTS NoConnectionLeftOpen BackoffCountsFailures
PROPERTIES RunNeverStuck ReaderEndsUnlessFull
CHECK_DEADLOCK FALSE
