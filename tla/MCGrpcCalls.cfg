CONSTANTS
    c1 = c1
    c2 = c2
    Coroutines = {c1, c2}
    Mutating = {c1}
    Retries = 1
    MaxRevoked = 2
    NoToken = NoToken
    Lifetime = 2
    RefreshMargin = 1
    MaxLatency = 0
    MaxTokens = 2
    MaxTime = 1
SPECIFICATION CallsSpec
INVARIANTS
    CarriedOutOnce
    RejectedTokenNotReused
CHECK_DEADLOCK FALSE
