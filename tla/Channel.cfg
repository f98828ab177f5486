CONSTANTS
    Deliveries = {1, 2, 3}
    Kind <- MCKind
    Scope <- MCScope
    MaxQueues = 3
    MaxCloses = 2
SPECIFICATION FairSpec
INVARIANTS OneQueuePerScope DroppedOnlyFromBucket QuietCloseIsClean
PROPERTIES CloseReturns EveryDeliveryReturns
CHECK_DEADLOCK FALSE
