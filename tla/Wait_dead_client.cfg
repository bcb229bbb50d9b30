CONSTANTS
    t1 = t1
    t2 = t2
    e1 = e1
    a1 = a1
    a2 = a2
    Threads <- MC_Threads
    ThreadOrder <- MC_ThreadOrder
    Events <- MC_Events
    ManualReset = {}
    Apcs = {}
    ApcType <- MC_NoApcType
    Requests <- MC_PlainRequests
    NestedRequests <- MC_NestedRequests
    MAXIMUM_WAIT_OBJECTS = 2
    MAXIMUM_SUSPEND_COUNT = 1
    TIMEOUT_INFINITE = 1000
    ExitCode = 66
    MaxDepth = 2
    MaxTime = 1
SPECIFICATION Spec
INVARIANTS
    NoFreedEntryWalk
