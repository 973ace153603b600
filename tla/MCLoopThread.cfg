CONSTANTS
    t1 = t1
    t2 = t2
    t3 = t3
    t4 = t4
    Threads = {t1, t2, t3, t4}
    Closers = {t3, t4}
    Reentrant = {t2}
SPECIFICATION FairSpec
INVARIANTS
    ClosedAtRest
PROPERTIES
    CallsReturnUnlessClosing
CHECK_DEADLOCK FALSE
