CONSTANTS
    a1 = a1
    a2 = a2
    t1 = t1
    t2 = t2
    NoTenant = NoTenant
    Unbounded = Unbounded
    Assets = {a1, a2}
    TenantIds = {t1}
    Results <- SmallResults
    Batches <- SmallBatches
    IdLists <- SmallIdLists
    TicksPerSecond = 2
    SafetyMargin = 3
    DefaultTtl = 3
    MaxEntries = 2
    MinSweepSize = 3
    MaxTime = 4
SPECIFICATION Spec
INVARIANTS
    TypeOK
    IndexMatchesEntries
    ExpiringNeverReportedAsPermanent
    ReportedWithinLease
PROPERTIES
    ImplementsLeases
    InvalidateIsExact
    PutSupersedes
    EvictsLeastRecent
CHECK_DEADLOCK FALSE
