CONSTANTS
    a1 = a1
    a2 = a2
    c1 = c1
    c2 = c2
    t1 = t1
    NoTenant = NoTenant
    Unbounded = Unbounded
    Nothing = Nothing
    Assets = {a1, a2}
    Callers = {c1, c2}
    TenantIds = {t1}
    ClientTenant <- TwoTenants
    IdRequests <- OneAndBoth
    BatchSize = 1
    HideMissing = FALSE
    ResolveDenied = TRUE
    Lifetime = 3
    MaxDuration = 2
    MaxVersion = 1
    TicksPerSecond = 1
    SafetyMargin = 1
    DefaultTtl = 2
    MaxEntries = Unbounded
    MinSweepSize = 3
    MaxTime = 4
SPECIFICATION MCSpec
INVARIANTS
    ItemsAreForTheCaller
    LinksLiveOnReturn
    ReportedLongerByLatency
    NoStaleAfterQuietInvalidate
CHECK_DEADLOCK FALSE
