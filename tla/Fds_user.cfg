CONSTANTS
    Threads = {t1, t2}
    FirstThread = t1
    ClientFds = {5, 6, 7}
    FdNums = {1, 2, 3, 4}
    MAX_INFLIGHT_FDS = 2
    UNIFIED_KERNEL = FALSE
    Terminates = TRUE
    MaxPending = 2
SPECIFICATION Spec
CHECK_DEADLOCK FALSE
INVARIANTS
    TypeOK
    FdOwnedOnce
PROPERTIES
    CacheRefinement
