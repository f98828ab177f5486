CONSTANTS
    Ids = {m1, m2}
    Procs = {p1, p2, p3}
    NoId = NoId
    ttlMs = 2
    MaxTime = 4
SPECIFICATION Spec
INVARIANTS TypeOK ExclusiveUnlessOverrun HolderHasEntry
CHECK_DEADLOCK FALSE
