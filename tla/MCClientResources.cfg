CONSTANTS
    c1 = c1
    c2 = c2
    a1 = a1
    a2 = a2
    Coroutines = {c1, c2}
    NoToken = NoToken
    Lifetime = 4
    RefreshMargin = 1
    MaxLatency = 2
    MaxTokens = 3
    MaxTime = 5
    Closers = {a1, a2}
    Clients <- SomeClients
    MaxAcloses = 2
SPECIFICATION FairResources
INVARIANTS
    FetchOnlyWhenDue
    TokenLasts
    HandlesReleased
PROPERTIES
    AttemptsOverOpenChannel
    AskersEnd
CHECK_DEADLOCK FALSE
