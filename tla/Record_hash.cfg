CONSTANTS
    Threads = {t1, t2}
    FirstThread = t1
    Pids = {1, 3}
    THREAD_HASH_SIZE = 2
    MAXIMUM_SUSPEND_COUNT = 1
    NoThread = NoThread
SPECIFICATION Spec
CHECK_DEADLOCK FALSE
INVARIANTS
    HashWalksValidMemory
