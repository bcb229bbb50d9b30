------------------------------ MODULE ThreadInfo ------------------------------
(***************************************************************************)
(* Thread priority and CPU affinity (src/server_module/thread.c):         *)
(* set_thread_info and its handler, set_thread_affinity and               *)
(* get_thread_affinity, and the affinity steps of create_thread and       *)
(* init_thread.  The server records a thread's affinity mask in           *)
(* thread->affinity; the kernel holds the CPU set of the thread's unix    *)
(* task (sched_setaffinity), which exists only once init_thread has told  *)
(* the server its unix tid.                                               *)
(*                                                                         *)
(* affinity_t and int are modelled with their widths scaled down:         *)
(* AFFINITY_BITS and INT_BITS stand for 64 and 32.                        *)
(***************************************************************************)
EXTENDS Integers, FiniteSetsExt, Bitwise

CONSTANTS
    Threads,          \* thread objects (model values)
    FirstThread,      \* the thread create_process made
    AFFINITY_BITS,    \* width of affinity_t
    INT_BITS,         \* width of int
    NCPUS,            \* online CPUs: 0..NCPUS-1
    REALTIME,         \* process->priority = PROCESS_PRIOCLASS_REALTIME
    ProcessAffinities,\* process->affinity as create_process may set it (process.c)
    Priorities,       \* priorities a client may request
    Masks             \* affinity masks a client may request

THREAD_PRIORITY_LOWEST == -2
THREAD_PRIORITY_HIGHEST == 2
THREAD_PRIORITY_IDLE == -15
THREAD_PRIORITY_TIME_CRITICAL == 15
THREAD_PRIORITY_REALTIME_HIGHEST == 6
THREAD_PRIORITY_REALTIME_LOWEST == -7

Cpus == 0..NCPUS-1
AllOnes == 2^AFFINITY_BITS - 1   \* ~0 as an affinity_t

ASSUME NCPUS <= AFFINITY_BITS /\ INT_BITS < AFFINITY_BITS

VARIABLES
    state,     \* [Threads -> {"none", "running", "terminated"}]
    priority,  \* thread->priority
    affinity,  \* thread->affinity
    tid,       \* [Threads -> BOOLEAN]: thread->unix_tid # -1
    kcpus,     \* [Threads -> SUBSET Cpus]: the kernel's CPU set of the unix task
    procAff,   \* process->affinity
    peb,       \* process->peb is set: the first init_thread succeeded
    hasParent, \* process->parent is set
    inited     \* history: init_thread replied success to the thread

vars == <<state, priority, affinity, tid, kcpus, procAff, peb, hasParent, inited>>

Srv == [affinity |-> affinity, kcpus |-> kcpus, tid |-> tid]

-----------------------------------------------------------------------------
(* Affinity conversions.                                                   *)

Bit(a, i) == (a \div 2^i) % 2 = 1

(* set_thread_affinity's loop: CPU i for every bit i of the mask. *)
CpuSet(a) == {i \in 0..AFFINITY_BITS-1 : Bit(a, i)}

(* `1 << i' with i an int, converted to affinity_t.  For                  *)
(* i >= INT_BITS-1 this is undefined; the x86 build masks the shift count *)
(* to the int width and sign-extends INT_MIN, setting every higher bit.   *)
IntShl(i) ==
    LET k == i % INT_BITS
    IN IF k = INT_BITS - 1 THEN AllOnes - (2^k - 1) ELSE 2^k

(* get_thread_affinity's mask for a kernel CPU set, ~0 when empty. *)
AffinityOf(cpus) ==
    LET mask == FoldSet(LAMBDA i, m : m | IntShl(i), 0,
                        {i \in 0..AFFINITY_BITS-1 : i \in cpus})
    IN IF mask = 0 THEN AllOnes ELSE mask

GetThreadAffinity(s, t) == AffinityOf(IF s.tid[t] THEN s.kcpus[t] ELSE {})

(* set_thread_affinity: sched_setaffinity when the unix task is known     *)
(* (the kernel refuses a set with no online CPU, and keeps only online    *)
(* ones); thread->affinity is stored when that succeeded.                 *)
SetThreadAffinity(s, t, a) ==
    IF ~s.tid[t] THEN [ret |-> 0, s |-> [s EXCEPT !.affinity[t] = a]]
    ELSE IF CpuSet(a) \cap Cpus = {} THEN [ret |-> -1, s |-> s]
    ELSE [ret |-> 0, s |-> [s EXCEPT !.kcpus[t] = CpuSet(a) \cap Cpus,
                                     !.affinity[t] = a]]

-----------------------------------------------------------------------------
(* Handlers.                                                               *)

(* Variant: the priority test without its lower bound. *)
PriorityAcceptedNoMin(p) ==
    LET max == IF REALTIME THEN THREAD_PRIORITY_REALTIME_HIGHEST ELSE THREAD_PRIORITY_HIGHEST
    IN \/ p <= max
       \/ p = THREAD_PRIORITY_IDLE
       \/ p = THREAD_PRIORITY_TIME_CRITICAL

(* set_thread_info's priority test: the class range, IDLE or TIME_CRITICAL. *)
PriorityAccepted(p) ==
    LET max == IF REALTIME THEN THREAD_PRIORITY_REALTIME_HIGHEST ELSE THREAD_PRIORITY_HIGHEST
        min == IF REALTIME THEN THREAD_PRIORITY_REALTIME_LOWEST ELSE THREAD_PRIORITY_LOWEST
    IN \/ p >= min /\ p <= max
       \/ p = THREAD_PRIORITY_IDLE
       \/ p = THREAD_PRIORITY_TIME_CRITICAL

(* set_thread_info's affinity part: a subset of the process mask, for a   *)
(* thread that is not terminated.                                         *)
SetInfoAffinity(s, t, a) ==
    IF (a & procAff) # a THEN s
    ELSE IF state[t] = "terminated" THEN s
    ELSE (SetThreadAffinity(s, t, a)).s

(* DECL_HANDLER(set_thread_info), with SET_THREAD_INFO_PRIORITY and/or    *)
(* SET_THREAD_INFO_AFFINITY in req->mask (the token part is security.c).  *)
SetThreadInfo(t, setPrio, p, setAff, a) ==
    /\ state[t] # "none"
    /\ setPrio \/ setAff
    /\ priority' = IF setPrio /\ PriorityAccepted(p)
                   THEN [priority EXCEPT ![t] = p] ELSE priority
    /\ LET s == IF setAff THEN SetInfoAffinity(Srv, t, a) ELSE Srv
       IN affinity' = s.affinity /\ kcpus' = s.kcpus
    /\ UNCHANGED <<state, tid, procAff, peb, hasParent, inited>>

(* create_thread (from new_thread): priority 0 (init_thread_structure)    *)
(* and the process affinity; the unix task does not exist yet.           *)
NewThread(t, n) ==
    /\ inited[t] /\ state[t] = "running"
    /\ state[n] = "none"
    /\ state' = [state EXCEPT ![n] = "running"]
    /\ priority' = [priority EXCEPT ![n] = 0]
    /\ affinity' = [affinity EXCEPT ![n] = procAff]
    /\ UNCHANGED <<tid, kcpus, procAff, peb, hasParent, inited>>

(* The affinity step of the first init_thread of a process. *)
InitFirstAffinity(s, t) ==
    IF ~hasParent
    THEN LET a == GetThreadAffinity(s, t) IN [aff |-> a, s |-> [s EXCEPT !.affinity[t] = a]]
    ELSE [aff |-> procAff, s |-> (SetThreadAffinity(s, t, s.affinity[t])).s]

(* DECL_HANDLER(init_thread) after its fds: the unix tid is stored, the   *)
(* cpu is checked, and the thread's affinity is read from the kernel (the *)
(* first thread of a process without parent) or applied to it.  The new  *)
(* unix task runs on the CPU set it inherited from its creator.           *)
InitThread(t, cpuOk, inherited) ==
    /\ state[t] = "running" /\ ~tid[t]
    /\ LET s0 == [Srv EXCEPT !.tid[t] = TRUE, !.kcpus[t] = inherited]
           first == InitFirstAffinity(s0, t)
           s == IF ~cpuOk THEN s0
                ELSE IF ~peb THEN first.s
                ELSE (SetThreadAffinity(s0, t, s0.affinity[t])).s
       IN /\ tid' = s.tid /\ kcpus' = s.kcpus /\ affinity' = s.affinity
          /\ procAff' = IF cpuOk /\ ~peb THEN first.aff ELSE procAff
    /\ peb' = (peb \/ cpuOk)
    /\ inited' = [inited EXCEPT ![t] = cpuOk]
    /\ UNCHANGED <<state, priority, hasParent>>

(* kill_thread: the thread is TERMINATED. *)
Kill(t) ==
    /\ state[t] = "running"
    /\ state' = [state EXCEPT ![t] = "terminated"]
    /\ UNCHANGED <<priority, affinity, tid, kcpus, procAff, peb, hasParent, inited>>

Init ==
    /\ state = [t \in Threads |-> IF t = FirstThread THEN "running" ELSE "none"]
    /\ priority = [t \in Threads |-> 0]
    /\ procAff \in ProcessAffinities
    /\ affinity = [t \in Threads |-> procAff]
    /\ tid = [t \in Threads |-> FALSE]
    /\ kcpus = [t \in Threads |-> {}]
    /\ peb = FALSE
    /\ hasParent \in BOOLEAN
    /\ inited = [t \in Threads |-> FALSE]

Next ==
    \/ \E t \in Threads, setPrio, setAff \in BOOLEAN, p \in Priorities, a \in Masks :
         SetThreadInfo(t, setPrio, p, setAff, a)
    \/ \E t, n \in Threads : NewThread(t, n)
    \/ \E t \in Threads, cpuOk \in BOOLEAN, inherited \in SUBSET Cpus \ {{}} :
         InitThread(t, cpuOk, inherited)
    \/ \E t \in Threads : Kill(t)

Spec == Init /\ [][Next]_vars

-----------------------------------------------------------------------------
(* Properties.                                                             *)

(* The relative priorities of the process's class. *)
ClassPriorities == IF REALTIME THEN -7..6 ELSE -2..2

(* Types; a thread's priority is one the process's priority class allows  *)
(* (spec section 8: priority stays within its documented range).          *)
TypeOK ==
    /\ state \in [Threads -> {"none", "running", "terminated"}]
    /\ priority \in [Threads -> ClassPriorities \cup {THREAD_PRIORITY_IDLE,
                                                   THREAD_PRIORITY_TIME_CRITICAL}]
    /\ affinity \in [Threads -> 0..AllOnes]
    /\ tid \in [Threads -> BOOLEAN]
    /\ kcpus \in [Threads -> SUBSET Cpus]
    /\ procAff \in 0..AllOnes
    /\ peb \in BOOLEAN
    /\ hasParent \in BOOLEAN
    /\ inited \in [Threads -> BOOLEAN]

(* The affinity the server reports for a running, initialised thread is   *)
(* the CPU set the kernel enforces for it: a mask stored before the unix  *)
(* task existed is applied by init_thread, and a mask the kernel refuses  *)
(* is not stored.  init_thread ignores a refused mask, so the code breaks  *)
(* this with an empty mask set before init_thread (README finding 8).     *)
ThreadAffinityEnforced ==
    \A t \in Threads :
        state[t] = "running" /\ inited[t] => kcpus[t] = CpuSet(affinity[t]) \cap Cpus

(* get_thread_affinity on a thread whose unix task exists reads back the *)
(* mask of exactly the CPUs in the task's kernel set: no CPU is lost and  *)
(* none is added (spec section 8, affinity round trip).  The int shift    *)
(* `1 << i' breaks this at the int's top bit (README finding 9).          *)
AffinityReadBack ==
    \A t \in Threads : tid[t] => CpuSet(GetThreadAffinity(Srv, t)) = kcpus[t]

=============================================================================
