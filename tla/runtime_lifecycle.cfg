SPECIFICATION Spec
CONSTANTS
    Nobody = Nobody
    Threads = {t1}
    Callers = {c1, c2}
    MaxFailures = 2
    MaxCancels = 1
CHECK_DEADLOCK FALSE
INVARIANTS
    NoUseAfterClose
    ClosedOnce
    NothingLeaks
PROPERTIES
    CleanupFinishes
