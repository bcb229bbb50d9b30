CONSTANTS
    Threads = {t1, t2}
    FirstThread = t1
    AFFINITY_BITS = 6
    INT_BITS = 4
    NCPUS = 3
    REALTIME = FALSE
    ProcessAffinities = {3, 7}
    Priorities <- MC_Priorities
    Masks = {1, 6}
SPECIFICATION Spec
INVARIANTS
    TypeOK
