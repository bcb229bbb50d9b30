CONSTANTS
    t1 = t1
    t2 = t2
    e1 = e1
    a1 = a1
    a2 = a2
    Threads <- MC_Threads
    ThreadOrder <- MC_ThreadOrder
    Events <- MC_Events
    ManualReset = {}
    Apcs <- MC_Apcs
    ApcType <- MC_ApcType
    Requests <- MC_ApcRequests
    NestedRequests <- MC_NestedRequests
    MAXIMUM_WAIT_OBJECTS = 2
    MAXIMUM_SUSPEND_COUNT = 1
    TIMEOUT_INFINITE = 1000
    ExitCode = 66
    MaxDepth = 2
    MaxTime = 0
SPECIFICATION Spec
INVARIANTS
    NoLostWakeup
    TerminatedQuiescent
    WakeupsMatchBlockedSelects
