CONSTANTS
    MaxConns = 0
    MaxFrames = 0
    MaxRounds = 40
    Cap = 1
    ReconnectEnabled = TRUE
SPECIFICATION Spec
INVARIANT BackoffAtLeastBase
CHECK_DEADLOCK FALSE
