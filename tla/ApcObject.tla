------------------------------ MODULE ApcObject ------------------------------
(***************************************************************************)
(* The life of an APC object (struct thread_apc, src/server_module/       *)
(* thread.c) across the processes that hold it:                           *)
(*  - its reference count: the queue it is linked on, the handles that    *)
(*    processes hold to it, and the local reference of the handler that   *)
(*    is working on it;                                                    *)
(*  - DECL_HANDLER(queue_apc) for a thread or another process, with the   *)
(*    handle the caller waits on;                                          *)
(*  - thread_queue_apc and thread_cancel_apc, which async I/O uses to     *)
(*    replace the APC an owner object has queued;                          *)
(*  - DECL_HANDLER(select) handing the next APC to the client and storing *)
(*    the result of the previous one (prev_apc);                           *)
(*  - DECL_HANDLER(get_apc_result) and the clearing of both queues when a *)
(*    thread is killed.                                                    *)
(* Waits are WaitEngine's part: a select here either returns              *)
(* STATUS_USER_APC at once or leaves the APCs alone.  The call data and   *)
(* results are abstracted to "executed or not".                            *)
(***************************************************************************)
EXTENDS Integers, FiniteSets, SequencesExt

CONSTANTS
    Procs,        \* processes
    Threads,      \* threads (model values)
    ProcOf,       \* [Threads -> Procs]: thread->process
    Apcs,         \* APC objects, each created once
    Kind,         \* [Apcs -> {"NONE", "USER", "SYS", "ASYNC"}]: call.type
    Owners,       \* owner objects of async I/O
    Owner,        \* [Apcs -> Owners \cup {NoOwner}]: apc->owner
    NoOwner, NoApc, NoThread

ASSUME ProcOf \in [Threads -> Procs]
ASSUME Kind \in [Apcs -> {"NONE", "USER", "SYS", "ASYNC"}]
ASSUME Owner \in [Apcs -> Owners \cup {NoOwner}]
ASSUME \A a \in Apcs : (Owner[a] # NoOwner) <=> (Kind[a] = "ASYNC")

VARIABLES
    st,         \* [Apcs -> {"unborn", "live", "freed"}]
    ref,        \* obj.refcount
    executed,   \* apc->executed, which is also its signaled state
    caller,     \* apc->caller: the thread that queued it to another process
    handles,    \* [Procs -> SUBSET Apcs]: the handles each process holds
    sysq,       \* thread->system_apc, head first
    userq,      \* thread->user_apc, head first
    held,       \* the APC whose handle select last gave the client
    tstate,     \* [Threads -> {"running", "terminated"}]
    uaf         \* history: a handler touched a freed APC

vars == <<st, ref, executed, caller, handles, sysq, userq, held, tstate, uaf>>

(* The server's state as one record, so that a handler is a composition   *)
(* of the functions it calls.                                              *)
Srv == [st |-> st, ref |-> ref, executed |-> executed, caller |-> caller,
        handles |-> handles, sysq |-> sysq, userq |-> userq, held |-> held,
        tstate |-> tstate, uaf |-> uaf]

Commit(s) ==
    /\ st' = s.st /\ ref' = s.ref /\ executed' = s.executed
    /\ caller' = s.caller /\ handles' = s.handles /\ sysq' = s.sysq
    /\ userq' = s.userq /\ held' = s.held /\ tstate' = s.tstate /\ uaf' = s.uaf

-----------------------------------------------------------------------------
(* Object references.                                                      *)

(* grab_object *)
Grab(s, a) == [s EXCEPT !.ref[a] = @ + 1, !.uaf = @ \/ s.st[a] # "live"]

(* release_object: the last reference frees the APC; thread_apc_destroy   *)
(* then drops its references to the caller and the owner.                  *)
Release(s, a) ==
    IF s.ref[a] = 1
    THEN [s EXCEPT !.ref[a] = 0, !.st[a] = "freed", !.uaf = @ \/ s.st[a] # "live"]
    ELSE [s EXCEPT !.ref[a] = @ - 1, !.uaf = @ \/ s.st[a] # "live"]

(* create_apc: one reference, held by the creator; the owner is grabbed.  *)
CreateApc(s, a) ==
    [s EXCEPT !.st[a] = "live", !.ref[a] = 1, !.executed[a] = FALSE,
              !.caller[a] = NoThread]

(* alloc_handle in process p, when the handle table has room. *)
AllocHandle(s, p, a) == Grab([s EXCEPT !.handles[p] = @ \cup {a}], a)

(* close_handle *)
CloseHandle(s, p, a) == Release([s EXCEPT !.handles[p] = @ \ {a}], a)

-----------------------------------------------------------------------------
(* The queues.                                                             *)

(* get_apc_queue: NONE and USER go to the user queue. *)
QueueOf(a) == IF Kind[a] \in {"NONE", "USER"} THEN "userq" ELSE "sysq"

Queued(s, t) == s.sysq[t] \o s.userq[t]

(* An APC is cancelled: marked executed, which wakes whoever waits on it   *)
(* (uk_wake_up), and the queue's reference is dropped.                      *)
Cancelled(s, a) == Release([s EXCEPT !.executed[a] = TRUE], a)

(* thread_cancel_apc: the first APC of the owner in the queue of the      *)
(* type is unlinked and cancelled; only that one.                          *)
ThreadCancelApc(s, t, o, q) ==
    LET i == SelectInSeq(s[q][t], LAMBDA x : Owner[x] = o)
    IN IF i = 0 THEN s
       ELSE Cancelled([s EXCEPT ![q][t] = RemoveAt(@, i)], s[q][t][i])

(* clear_apc_queue: unlink and cancel every APC of one queue. *)
RECURSIVE ClearApcQueue(_, _, _)
ClearApcQueue(s, t, q) ==
    IF s[q][t] = <<>> THEN s
    ELSE ClearApcQueue(Cancelled([s EXCEPT ![q][t] = Tail(@)], Head(s[q][t])), t, q)

(* Variant: the APC is linked without the queue's reference. *)
EnqueueNoGrab(s, t, a) == [s EXCEPT ![QueueOf(a)][t] = Append(@, a)]

(* The tail of queue_apc, once a thread is chosen: link and grab.  The     *)
(* wake_thread of a first APC is WaitEngine's part.                         *)
Enqueue(s, t, a) ==
    Grab([s EXCEPT ![QueueOf(a)][t] = Append(@, a)], a)

(* Variant: the owner's previous APC is not cancelled. *)
QueueApcToThreadNoCancel(s, t, a) ==
    IF s.tstate[t] = "terminated" THEN [ok |-> FALSE, s |-> s]
    ELSE [ok |-> TRUE, s |-> Enqueue(s, t, a)]

(* queue_apc(NULL, thread, apc): refused for a TERMINATED thread; the     *)
(* SIGUSR1 for a system APC reaches a live thread; a previous APC of the  *)
(* same owner is cancelled first.                                          *)
QueueApcToThread(s, t, a) ==
    IF s.tstate[t] = "terminated" THEN [ok |-> FALSE, s |-> s]
    ELSE LET s1 == IF Owner[a] # NoOwner
                   THEN ThreadCancelApc(s, t, Owner[a], QueueOf(a)) ELSE s
         IN [ok |-> TRUE, s |-> Enqueue(s1, t, a)]

(* The threads queue_apc(process, NULL, apc) may choose: the first live  *)
(* one in an APC wait, else the first that takes SIGUSR1.  Which one      *)
(* depends on waits, so any live thread of the process may be chosen.     *)
Candidates(s, p) == {t \in Threads : ProcOf[t] = p /\ s.tstate[t] = "running"}

(* queue_apc(process, NULL, apc) with the chosen thread t, or NoThread    *)
(* when the process has no live thread: then it is refused.               *)
QueueApcToProcess(s, t, a) ==
    IF t = NoThread THEN [ok |-> FALSE, s |-> s]
    ELSE [ok |-> TRUE, s |-> Enqueue(s, t, a)]

(* thread_dequeue_apc: the head of the system queue, else (unless only    *)
(* system APCs are wanted) of the user queue; the queue's reference moves *)
(* to the caller.                                                          *)
DequeueApc(s, t, systemOnly) ==
    IF s.sysq[t] # <<>>
    THEN [a |-> Head(s.sysq[t]), s |-> [s EXCEPT !.sysq[t] = Tail(@)]]
    ELSE IF ~systemOnly /\ s.userq[t] # <<>>
    THEN [a |-> Head(s.userq[t]), s |-> [s EXCEPT !.userq[t] = Tail(@)]]
    ELSE [a |-> NoApc, s |-> s]

(* The loop of DECL_HANDLER(select) after STATUS_USER_APC: an APC_NONE is *)
(* marked executed and dropped, and the loop goes on; any other APC gets  *)
(* a handle in the client's process (reply->apc_handle) and the loop      *)
(* ends.  When alloc_handle fails the APC is released all the same.       *)
RECURSIVE DeliverApc(_, _, _, _)
DeliverApc(s, t, systemOnly, allocOk) ==
    LET d == DequeueApc(s, t, systemOnly)
        a == d.a
    IN IF a = NoApc THEN s
       ELSE IF Kind[a] # "NONE"
       THEN IF allocOk
            THEN Release([AllocHandle(d.s, ProcOf[t], a) EXCEPT !.held[t] = a], a)
            ELSE Release(d.s, a)
       ELSE DeliverApc(Release([d.s EXCEPT !.executed[a] = TRUE], a), t, systemOnly, allocOk)

(* Variant: the client's held APC is not forgotten after its report. *)
ReportPrevApcKeep(s, t) ==
    LET a == s.held[t]
    IN IF a = NoApc THEN s
       ELSE CloseHandle([s EXCEPT !.executed[a] = TRUE,
                                  !.uaf = @ \/ s.st[a] # "live"], ProcOf[t], a)

(* The prev_apc part of DECL_HANDLER(select): the result is stored, the   *)
(* APC is marked executed (waking its waiters and, for async I/O, setting *)
(* the owner's result), and the client's handle is closed.  The           *)
(* get_handle_obj and release_object around it cancel out.                *)
ReportPrevApc(s, t) ==
    LET a == s.held[t]
    IN IF a = NoApc THEN s
       ELSE CloseHandle([s EXCEPT !.executed[a] = TRUE, !.held[t] = NoApc,
                                  !.uaf = @ \/ s.st[a] # "live"], ProcOf[t], a)

(* check_wait's STATUS_USER_APC: a system APC for an INTERRUPTIBLE wait,  *)
(* a user APC for an ALERTABLE one.                                        *)
UserApcStatus(s, t, flags) ==
    \/ "INTERRUPTIBLE" \in flags /\ s.sysq[t] # <<>>
    \/ "ALERTABLE" \in flags /\ s.userq[t] # <<>>

-----------------------------------------------------------------------------
(* The handlers.                                                           *)

(* DECL_HANDLER(queue_apc) for APC_NONE and APC_USER: queued to the       *)
(* thread of the handle, or STATUS_THREAD_IS_TERMINATING; the handler's   *)
(* reference is dropped either way.                                        *)
QueueApcToThreadReq(s, a, t) ==
    Release((QueueApcToThread(CreateApc(s, a), t, a)).s, a)

(* DECL_HANDLER(queue_apc) for a system APC on process p.  For the        *)
(* caller's own process nothing is queued (reply->self).  Otherwise the   *)
(* caller gets a handle to wait on; when queue_apc refuses, that handle   *)
(* is closed again, and when it accepts, apc->caller is set.  t is the    *)
(* thread queue_apc chooses.                                               *)
QueueApcToProcessReq(s, c, a, p, allocOk, t) ==
    LET s0 == CreateApc(s, a)
        s1 == AllocHandle(s0, ProcOf[c], a)
        r  == QueueApcToProcess(s1, t, a)
    IN Release(IF p = ProcOf[c] \/ ~allocOk THEN s0
               ELSE IF r.ok THEN [r.s EXCEPT !.caller[a] = c]
               ELSE CloseHandle(r.s, ProcOf[c], a), a)

(* The thread queue_apc may choose in process p, or NoThread. *)
Pickable(p) == IF Candidates(Srv, p) = {} THEN {NoThread} ELSE Candidates(Srv, p)

(* The handle does not name a thread or process with the access the type *)
(* needs, or APC_MAP_VIEW's section handle cannot be duplicated: nothing  *)
(* is queued and the new APC is released.                                  *)
QueueApcRefused(s, a) == Release(CreateApc(s, a), a)

QueueApcReq(c, a) ==
    /\ tstate[c] = "running" /\ st[a] = "unborn" /\ Kind[a] # "ASYNC"
    /\ \/ Commit(QueueApcRefused(Srv, a))
       \/ /\ Kind[a] \in {"NONE", "USER"}
          /\ \E t \in Threads : Commit(QueueApcToThreadReq(Srv, a, t))
       \/ /\ Kind[a] = "SYS"
          /\ \E p \in Procs, allocOk \in BOOLEAN :
                \E t \in Pickable(p) : Commit(QueueApcToProcessReq(Srv, c, a, p, allocOk, t))

(* thread_queue_apc, called by async I/O with the owner object: the APC   *)
(* replaces the owner's previous one on the thread.                        *)
ThreadQueueApc(t, a) ==
    /\ st[a] = "unborn" /\ Kind[a] = "ASYNC"
    /\ Commit(Release((QueueApcToThread(CreateApc(Srv, a), t, a)).s, a))

(* thread_cancel_apc, called by async I/O when the owner is done. *)
CancelApc(t, o) ==
    /\ \E i \in DOMAIN sysq[t] : Owner[sysq[t][i]] = o
    /\ Commit(ThreadCancelApc(Srv, t, o, "sysq"))

(* DECL_HANDLER(select) from thread t's client: first the result of the   *)
(* previous APC, then select_on, which here either returns                *)
(* STATUS_USER_APC at once (and an APC is handed out) or leaves the APCs  *)
(* alone.  allocOk is whether alloc_handle finds room.                    *)
Select(t, flags, allocOk) ==
    LET s1 == ReportPrevApc(Srv, t)
    IN /\ tstate[t] = "running"
       /\ held[t] # NoApc \/ UserApcStatus(Srv, t, flags)
       /\ Commit(IF UserApcStatus(s1, t, flags)
                 THEN DeliverApc(s1, t, "ALERTABLE" \notin flags, allocOk)
                 ELSE s1)

(* DECL_HANDLER(get_apc_result) from the caller's process: once the APC   *)
(* is executed its result is returned and the handle closed; before that  *)
(* the reply is STATUS_PENDING and nothing changes.                        *)
GetApcResult(c, a) ==
    /\ tstate[c] = "running"
    /\ a \in handles[ProcOf[c]] /\ executed[a]
    /\ Commit(CloseHandle(Srv, ProcOf[c], a))

(* kill_thread: the thread is TERMINATED, and cleanup_thread clears the   *)
(* system queue, then the user queue.  Handles stay with the process.     *)
Kill(t) ==
    /\ tstate[t] = "running"
    /\ Commit(ClearApcQueue(ClearApcQueue([Srv EXCEPT !.tstate[t] = "terminated"],
                                          t, "sysq"), t, "userq"))

-----------------------------------------------------------------------------
Init ==
    /\ st = [a \in Apcs |-> "unborn"]
    /\ ref = [a \in Apcs |-> 0]
    /\ executed = [a \in Apcs |-> FALSE]
    /\ caller = [a \in Apcs |-> NoThread]
    /\ handles = [p \in Procs |-> {}]
    /\ sysq = [t \in Threads |-> <<>>]
    /\ userq = [t \in Threads |-> <<>>]
    /\ held = [t \in Threads |-> NoApc]
    /\ tstate = [t \in Threads |-> "running"]
    /\ uaf = FALSE

Flags == SUBSET {"INTERRUPTIBLE", "ALERTABLE"}

Next ==
    \/ \E c \in Threads, a \in Apcs : QueueApcReq(c, a)
    \/ \E t \in Threads, a \in Apcs : ThreadQueueApc(t, a)
    \/ \E t \in Threads, o \in Owners : CancelApc(t, o)
    \/ \E t \in Threads, f \in Flags, ok \in BOOLEAN : Select(t, f, ok)
    \/ \E c \in Threads, a \in Apcs : GetApcResult(c, a)
    \/ \E t \in Threads : Kill(t)

Spec == Init /\ [][Next]_vars

(* The client's part.  A system APC queued to a thread that is not in an  *)
(* APC wait comes with SIGUSR1, whose handler makes an INTERRUPTIBLE      *)
(* select; a client that was handed an APC runs it and reports it in its  *)
(* next select.  Neither promises that alloc_handle finds room.           *)
FetchSystemApc(t) == \E ok \in BOOLEAN : Select(t, {"INTERRUPTIBLE"}, ok)

ReportApc(t) == held[t] # NoApc /\ \E f \in Flags, ok \in BOOLEAN : Select(t, f, ok)

FairSpec == Spec /\ \A t \in Threads : WF_vars(FetchSystemApc(t)) /\ WF_vars(ReportApc(t))

-----------------------------------------------------------------------------
TypeOK ==
    /\ st \in [Apcs -> {"unborn", "live", "freed"}]
    /\ ref \in [Apcs -> Nat]
    /\ executed \in [Apcs -> BOOLEAN]
    /\ caller \in [Apcs -> Threads \cup {NoThread}]
    /\ handles \in [Procs -> SUBSET Apcs]
    /\ sysq \in [Threads -> Seq(Apcs)] /\ userq \in [Threads -> Seq(Apcs)]
    /\ held \in [Threads -> Apcs \cup {NoApc}]
    /\ tstate \in [Threads -> {"running", "terminated"}]
    /\ uaf \in BOOLEAN

(* The references an APC is held by: the handles processes hold to it and *)
(* the queue positions it is linked at.                                    *)
Holders(a) ==
    Cardinality({p \in Procs : a \in handles[p]})
    + Cardinality(UNION {{<<t, i>> : i \in {j \in DOMAIN Queued(Srv, t) : Queued(Srv, t)[j] = a}}
                         : t \in Threads})

(* Across queue_apc, select, get_apc_result, thread_cancel_apc and        *)
(* kill_thread, with their failure paths, an APC's reference count is     *)
(* exactly the number of its handles and queue links: none leaks, none   *)
(* is freed while still reachable, and no handler touches a freed APC.    *)
RefcountMatchesHolders ==
    /\ ~uaf
    /\ \A a \in Apcs : /\ st[a] = "live" => ref[a] = Holders(a)
                      /\ st[a] = "freed" => Holders(a) = 0

(* queue_apc cancels an owner's previous APC before queueing its next,   *)
(* so a thread never has two APCs of one async owner queued.              *)
OneQueuedApcPerOwner ==
    \A t \in Threads, o \in Owners :
        Cardinality({i \in DOMAIN Queued(Srv, t) : Owner[Queued(Srv, t)[i]] = o}) <= 1

(* The thread that queued a cross-process APC and is still running.     *)
CallerWaiting(a) == caller[a] # NoThread /\ tstate[caller[a]] = "running"

(* An APC queued to another process (DECL_HANDLER(queue_apc)) hands the  *)
(* caller a handle that ntdll waits on; while the caller still holds it,  *)
(* the APC is eventually executed, which signals the handle. Only a      *)
(* running caller counts: a caller that is killed no longer waits.        *)
CallerEventuallySignaled ==
    \A a \in Apcs :
        (CallerWaiting(a) /\ a \in handles[ProcOf[caller[a]]])
        ~> (executed[a] \/ ~CallerWaiting(a))
====
