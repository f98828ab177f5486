CONSTANTS
    d1 = d1
    d2 = d2
    d3 = d3
    d4 = d4
    d5 = d5
    d6 = d6
    Mallory = Mallory
    a2 = a2
    e1 = e1
    chat = chat
    card = card
    m1 = m1
    m2 = m2
    a1 = a1
    x1 = x1
    x2 = x2
    x3 = x3
    f1 = f1
    f2 = f2
    Alice = Alice
    Bot = Bot
    NoBot = NoBot
    NoKey = NoKey
    NoStaff = NoStaff
    Deliveries = {d1, d2, d3, d4, d5, d6}
    Scopes = {chat, card}
    Msg <- MCMsg
    Policies <- MCPolicies
    StaleWindow = 2
    Epoch = 10
    MaxTime = 12
    Arrivals <- MCArrivals
    TTL = 4
    MaxEntries = 10
    ttlMs = 1
SPECIFICATION Spec
INVARIANTS ExclusiveHandling NoLockLeftBehind SeenOnlyAfterSuccess LateRedeliveryRejected
    DuplicateHasTwin
CHECK_DEADLOCK FALSE
