CONSTANTS
    P1 = P1
    P2 = P2
    c1 = c1
    t1 = t1
    t2 = t2
    a0 = a0
    a1 = a1
    a2 = a2
    a3 = a3
    a4 = a4
    o1 = o1
    NoOwner = NoOwner
    NoApc = NoApc
    NoThread = NoThread
    Procs = {P1, P2}
    Threads = {c1, t1, t2}
    Apcs = {a0, a1, a2, a3, a4}
    Owners = {o1}
    ProcOf <- MC_ProcOf
    Kind <- MC_Kind
    Owner <- MC_Owner
SPECIFICATION Spec
CHECK_DEADLOCK FALSE
INVARIANTS
    TypeOK
    RefcountMatchesHolders
    OneQueuedApcPerOwner
