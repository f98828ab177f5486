CONSTANTS
    k1 = k1
    k2 = k2
    k3 = k3
    NoKey = NoKey
    Keys <- MCKeys
    KeySeqs <- MCKeySeqs
    Callers = {p1, p2}
    UseRedis = TRUE
    TTL = 2
    MaxEntries = 2
    LastTime = 3
SYMMETRY Symm
SPECIFICATION CacheSpec
INVARIANTS MapAndListAgree RememberedUntilExpiry
