------------------------------ MODULE WaitEngine ------------------------------
(***************************************************************************)
(* The wait/wake engine of the server's thread subsystem                   *)
(* (src/server_module/thread.c, user-space build): each thread's stack of  *)
(* wait frames, the object wait queues they are linked into, check_wait,   *)
(* wake_thread, uk_wake_up, the wait timeouts, suspend/resume, kill_thread *)
(* and the two APC queues that check_wait consults.                        *)
(*                                                                         *)
(* The server is single threaded and cooperative: every request handler   *)
(* and every timer callback runs to completion, so each is ONE action.    *)
(* Helpers that a handler calls are pure operators from a server state    *)
(* record to a server state record; the mutual recursion of the code      *)
(* (wake_thread -> send_thread_wakeup -> kill_thread -> uk_wake_up ->     *)
(* wake_thread) is kept as RECURSIVE operators.                           *)
(***************************************************************************)
EXTENDS Integers, SequencesExt

CONSTANTS
    Threads,              \* server thread objects (model values)
    ThreadOrder,          \* the process thread list, in creation order
    Events,               \* event objects, the waitables signalled by clients
    ManualReset,          \* events whose `satisfied' does not reset them
    Apcs,                 \* APC objects, each created once
    ApcType,              \* [Apcs -> {"NONE", "USER", "SYS"}]
    Requests,             \* select requests a running client may send
    NestedRequests,       \* select requests sent while a select is pending
    MAXIMUM_WAIT_OBJECTS, \* select_on's limit on the handle count
    MAXIMUM_SUSPEND_COUNT,\* suspend_thread's limit
    TIMEOUT_INFINITE,     \* the infinite absolute timeout
    ExitCode,             \* the exit code terminate_thread stores
    MaxDepth,             \* bound: nested selects of one thread
    MaxTime               \* bound: the server clock current_time

Objects == Events \cup Threads \cup Apcs
NoApc == "none"

(* Status codes, with their NT values. *)
STATUS_WAIT_0           == 0
STATUS_ABANDONED_WAIT_0 == 128
STATUS_USER_APC         == 192
STATUS_TIMEOUT          == 258
STATUS_PENDING          == 259
STATUS_INVALID_PARAMETER == -1073741811  \* 0xC000000D as a signed 32-bit int
NotSignaled             == -1   \* check_wait's "still waiting"

(* A frame's cookie before select_on stores it (mem_alloc'd memory). *)
UninitCookie == -1
\* kill_thread's wakeup cookie
KillCookie == 0

ASSUME /\ ManualReset \subseteq Events
       /\ ApcType \in [Apcs -> {"NONE", "USER", "SYS"}]
       /\ ThreadOrder \in Seq(Threads) /\ ToSet(ThreadOrder) = Threads
       /\ MaxTime < TIMEOUT_INFINITE

VARIABLES
    thr,      \* [Threads -> thread record]
    wq,       \* [Objects -> Seq([t, d])]: object wait queues, entry = frame d of t
    ev,       \* [Events -> BOOLEAN]: event signal state
    apc,      \* [Apcs -> [st, executed]]
    pipe,     \* [Threads -> Seq([cookie, status])]: the wait_fd pipe
    now,      \* current_time
    blocked,  \* [Threads -> Seq(cookie)]: selects the client waits on
    dangling, \* history: a timer still armed on a freed frame
    uaf       \* history: uk_wake_up went on from a freed queue entry

vars == <<thr, wq, ev, apc, pipe, now, blocked, dangling, uaf>>

(* The part of the state the server's helpers read and write. *)
Srv == [thr |-> thr, wq |-> wq, ev |-> ev, apc |-> apc, pipe |-> pipe,
        now |-> now, dangling |-> dangling, uaf |-> uaf]

Commit(s) == /\ thr' = s.thr /\ wq' = s.wq /\ ev' = s.ev /\ apc' = s.apc
             /\ pipe' = s.pipe /\ dangling' = s.dangling
             /\ uaf' = s.uaf

-----------------------------------------------------------------------------
(* Object protocol of the waitables the engine meets.                      *)

(* thread_signaled, thread_apc_signaled, and an event's signaled state. *)
IsSignaled(s, o) ==
    IF o \in Events THEN s.ev[o]
    ELSE IF o \in Threads THEN s.thr[o].state = "TERMINATED"
    ELSE s.apc[o].executed

(* `satisfied': an auto-reset event is reset; threads and APCs use       *)
(* no_satisfied.  None of them reports an abandoned acquisition.          *)
Satisfied(s, t, o) ==
    [s EXCEPT !.ev = IF o \in Events \ ManualReset THEN [@ EXCEPT ![o] = FALSE]
                     ELSE @]

Suspended(s, t) == s.thr[t].suspend > 0

Top(s, t) == Last(s.thr[t].wait)

-----------------------------------------------------------------------------
(* check_wait: the status the head frame of t can be answered with, and    *)
(* the state after the `satisfied' calls.                                  *)
CheckWait(s, t) ==
    LET w == Top(s, t)
        n == Len(w.objs)
        sig == {i \in 1..n : IsSignaled(s, w.objs[i])}
        other == IF "ALERTABLE" \in w.flags /\ s.thr[t].userq # <<>>
                 THEN STATUS_USER_APC
                 ELSE IF w.timeout <= s.now THEN STATUS_TIMEOUT
                 ELSE NotSignaled
    IN
    IF "INTERRUPTIBLE" \in w.flags /\ s.thr[t].sysq # <<>>
    THEN [st |-> STATUS_USER_APC, s |-> s]
    ELSE IF Suspended(s, t) THEN [st |-> NotSignaled, s |-> s]
    ELSE IF "ALL" \in w.flags
    THEN IF sig = 1..n
         THEN [st |-> STATUS_WAIT_0,
               s |-> FoldLeft(LAMBDA acc, o : Satisfied(acc, t, o), s, w.objs)]
         ELSE [st |-> other, s |-> s]
    ELSE IF sig # {}
    THEN LET i == Min(sig) IN
         [st |-> STATUS_WAIT_0 + i - 1, s |-> Satisfied(s, t, w.objs[i])]
    ELSE [st |-> other, s |-> s]

(* Variant: every queue entry of the thread is unlinked, of all frames. *)
EndWaitUnlinkAll(s, t) ==
    LET w == Top(s, t)
    IN [s EXCEPT !.thr[t].wait = Front(@),
                 !.wq = [o \in Objects |-> SelectSeq(@[o], LAMBDA e : e.t # t)],
                 !.dangling = @ \/ w.armed - (IF w.user THEN 1 ELSE 0) > 0]

(* end_wait: pop the head frame, unlink its queue entries, remove its     *)
(* timeout user.  A timer whose pointer the frame lost stays armed on the  *)
(* freed frame.                                                            *)
EndWait(s, t) ==
    LET d == Len(s.thr[t].wait)
        w == Top(s, t)
        left == w.armed - (IF w.user THEN 1 ELSE 0)
    IN [s EXCEPT !.thr[t].wait = Front(@),
                 !.wq = [o \in Objects |->
                           SelectSeq(@[o], LAMBDA e : e # [t |-> t, d |-> d])],
                 !.dangling = @ \/ left > 0]

RECURSIVE KillThread(_, _), WakeThread(_, _), UkWakeUp(_, _, _),
          UkIter(_, _, _, _), ClearApcQueue(_, _, _), WakeLoop(_, _, _),
          WakeAnswered(_, _, _), UkWoken(_, _, _, _, _)

(* send_thread_wakeup: write {cookie, signaled} to the wait pipe; a client *)
(* that is gone gives EPIPE and kill_thread(thread, 0).                    *)
SendWakeup(s, t, cookie, status) ==
    IF ~s.thr[t].broken
    THEN [ok |-> TRUE,
          s |-> [s EXCEPT !.pipe[t] = Append(@, [cookie |-> cookie,
                                                 status |-> status])]]
    ELSE [ok |-> FALSE, s |-> KillThread(s, t)]

(* Variant: wake_thread answers at most one frame (an `if' for the loop). *)
WakeLoopOnce(s, t, count) ==
    IF s.thr[t].wait = <<>> THEN [count |-> count, s |-> s]
    ELSE LET r == CheckWait(s, t) IN
         IF r.st = NotSignaled THEN [count |-> count, s |-> r.s]
         ELSE LET w == SendWakeup(EndWait(r.s, t), t, Top(r.s, t).cookie, r.st)
              IN [count |-> IF w.ok THEN count + 1 ELSE count, s |-> w.s]

(* Variant: the cookie is taken from the outermost frame. *)
WakeLoopOuterCookie(s, t, count) ==
    IF s.thr[t].wait = <<>> THEN [count |-> count, s |-> s]
    ELSE LET r == CheckWait(s, t) IN
         IF r.st = NotSignaled THEN [count |-> count, s |-> r.s]
         ELSE LET w == SendWakeup(EndWait(r.s, t), t, Head(r.s.thr[t].wait).cookie, r.st)
              IN [count |-> IF w.ok THEN count + 1 ELSE count, s |-> w.s]

(* wake_thread: answer head frames while check_wait says they are done;   *)
(* stop on the first pending frame or on a failed wakeup.                  *)
(* The loop's step after a wakeup was sent: it counts only if the write  *)
(* succeeded; a failed write ends the loop.                                *)
WakeAnswered(w, t, count) ==
    IF ~w.ok THEN [count |-> count, s |-> w.s]
    ELSE WakeLoop(w.s, t, count + 1)

WakeLoop(s, t, count) ==
    IF s.thr[t].wait = <<>> THEN [count |-> count, s |-> s]
    ELSE LET r == CheckWait(s, t) IN
         IF r.st = NotSignaled THEN [count |-> count, s |-> r.s]
         ELSE WakeAnswered(SendWakeup(EndWait(r.s, t), t, Top(r.s, t).cookie, r.st),
                           t, count)

WakeThread(s, t) == WakeLoop(s, t, 0)

(* uk_wake_up(obj, max): walk obj's wait queue; after a successful wake   *)
(* restart at the head.  When wake_thread returns 0 the loop follows the   *)
(* entry's next link; if that entry was unlinked and freed meanwhile, the  *)
(* code reads freed memory: the model records it and goes on at the       *)
(* position the entry held.                                                *)
(* The loop's step after wake_thread answered r for entry e at pos. *)
UkWoken(r, o, e, pos, max) ==
    IF r.count = 0
    THEN IF Contains(r.s.wq[o], e) THEN UkIter(r.s, o, pos + 1, max)
         ELSE UkIter([r.s EXCEPT !.uaf = TRUE], o, pos, max)
    ELSE IF max = 1 THEN r.s
    ELSE UkIter(r.s, o, 1, IF max = 0 THEN 0 ELSE max - 1)

UkIter(s, o, pos, max) ==
    IF pos > Len(s.wq[o]) THEN s
    ELSE UkWoken(WakeThread(s, s.wq[o][pos].t), o, s.wq[o][pos], pos, max)

UkWakeUp(s, o, max) == UkIter(s, o, 1, max)

(* clear_apc_queue: cancel every APC of one queue, waking its waiters. *)
ClearApcQueue(s, t, q) ==
    IF s.thr[t][q] = <<>> THEN s
    ELSE LET a == Head(s.thr[t][q])
             s1 == [s EXCEPT !.thr[t][q] = Tail(@),
                             !.apc[a] = [st |-> "done", executed |-> TRUE]]
         IN ClearApcQueue(UkWakeUp(s1, a, 0), t, q)

(* cleanup_thread: both APC queues are cleared, system queue first; the  *)
(* fds, buffers, windows and desktop it releases are not modelled.        *)
CleanupThread(s, t) == ClearApcQueue(ClearApcQueue(s, t, "sysq"), t, "userq")

(* kill_thread(thread, violent): idempotent; ends every frame with one     *)
(* wakeup carrying the exit code, wakes waiters on the thread object, then *)
(* cleanup_thread drains the APC queues.  The SIGQUIT of a violent death   *)
(* and the console/debugger/mutex steps change nothing modelled here.      *)
KillThread(s, t) ==
    IF s.thr[t].state = "TERMINATED" THEN s
    ELSE LET s1 == [s EXCEPT !.thr[t].state = "TERMINATED"]
             s2 == IF s1.thr[t].wait = <<>> THEN s1
                   ELSE LET d == Len(s1.thr[t].wait)
                            ended == FoldLeft(LAMBDA acc, i : EndWait(acc, t),
                                             s1, [i \in 1..d |-> i])
                        IN (SendWakeup(ended, t, KillCookie, ExitCode)).s
             s3 == UkWakeUp(s2, t, 0)
         IN CleanupThread(s3, t)


-----------------------------------------------------------------------------
(* Helpers of the APC queues and of select.                                *)

(* get_apc_queue: NONE, USER and TIMER go to the user queue. *)
ApcQueue(a) == IF ApcType[a] \in {"NONE", "USER"} THEN "userq" ELSE "sysq"

(* is_in_apc_wait *)
IsInApcWait(s, t) ==
    \/ s.thr[t].suspend > 0
    \/ s.thr[t].wait # <<>> /\ "INTERRUPTIBLE" \in Top(s, t).flags

(* send_thread_signal(SIGUSR1) succeeds while the client process lives. *)
SignalAccepted(s, t) == ~s.thr[t].broken

(* Variant: the APC is queued without waking the thread. *)
EnqueueNoWake(s, t, a) ==
    [s EXCEPT !.thr[t][ApcQueue(a)] = Append(@, a), !.apc[a].st = "queued"]

(* Append a to the queue of t; wake_thread if it became the head. *)
Enqueue(s, t, a) ==
    LET q == ApcQueue(a)
        s1 == [s EXCEPT !.thr[t][q] = Append(@, a), !.apc[a].st = "queued"]
    IN IF Len(s1.thr[t][q]) = 1 THEN (WakeThread(s1, t)).s ELSE s1

(* Variant: queue_apc without the TERMINATED check. *)
QueueApcToThreadAnyState(s, t, a) == [ok |-> TRUE, s |-> Enqueue(s, t, a)]

(* queue_apc(NULL, thread, apc): the thread is given. *)
QueueApcToThread(s, t, a) ==
    IF s.thr[t].state = "TERMINATED" THEN [ok |-> FALSE, s |-> s]
    ELSE IF /\ ApcQueue(a) = "sysq" /\ s.thr[t].sysq = <<>>
            /\ ~IsInApcWait(s, t) /\ ~SignalAccepted(s, t)
    THEN [ok |-> FALSE, s |-> s]
    ELSE [ok |-> TRUE, s |-> Enqueue(s, t, a)]

(* queue_apc(process, NULL, apc): first a live thread in an APC wait,     *)
(* else the first thread of the list that accepts SIGUSR1.                 *)
QueueApcToProcess(s, a) ==
    LET inList(c) == s.thr[c].state = "RUNNING"
        waiting == SelectSeq(ThreadOrder, LAMBDA c : inList(c) /\ IsInApcWait(s, c))
        signalled == SelectSeq(ThreadOrder, LAMBDA c : inList(c) /\ SignalAccepted(s, c))
    IN IF waiting # <<>> THEN [ok |-> TRUE, s |-> Enqueue(s, Head(waiting), a)]
       ELSE IF signalled # <<>> THEN [ok |-> TRUE, s |-> Enqueue(s, Head(signalled), a)]
       ELSE [ok |-> FALSE, s |-> s]

(* The select handler's loop after STATUS_USER_APC: hand out the first    *)
(* real APC, consuming APC_NONE ones on the way.                           *)
RECURSIVE DequeueApcs(_, _, _)
DequeueApcs(s, t, systemOnly) ==
    LET q == IF s.thr[t].sysq # <<>> THEN "sysq"
             ELSE IF ~systemOnly /\ s.thr[t].userq # <<>> THEN "userq"
             ELSE "none"
    IN IF q = "none" THEN s
       ELSE LET a == Head(s.thr[t][q])
                s1 == [s EXCEPT !.thr[t][q] = Tail(@)]
            IN IF ApcType[a] # "NONE"
               THEN [s1 EXCEPT !.apc[a].st = "delivered",
                               !.thr[t].held = Append(@, a)]
               ELSE DequeueApcs(UkWakeUp([s1 EXCEPT !.apc[a] = [st |-> "done",
                                                executed |-> TRUE]], a, 0),
                                t, systemOnly)

(* set_event (event.c): signal, then wake all waiters of a manual-reset   *)
(* event and one waiter of an auto-reset event.                            *)
SetEventOp(s, e) ==
    UkWakeUp([s EXCEPT !.ev[e] = TRUE], e, IF e \in ManualReset THEN 0 ELSE 1)

(* A handle resolves unless it names an APC nobody holds a handle to. *)
Resolvable(s, o) == o \notin Apcs \/ s.apc[o].st # "free"

STATUS_INVALID_HANDLE      == -1073741816  \* 0xC0000008
STATUS_OBJECT_TYPE_MISMATCH == -1073741788  \* 0xC0000024
NoSignal == "none"

(* select_on after wait_on: check_wait the head frame; answer now, or arm *)
(* the timeout, store the cookie and answer STATUS_PENDING.                *)
Evaluate(s, t, cookie) ==
    LET c == CheckWait(s, t) IN
    IF c.st # NotSignaled THEN [st |-> c.st, s |-> EndWait(c.s, t)]
    ELSE LET d == Len(c.s.thr[t].wait)
             timed == Top(c.s, t).timeout # TIMEOUT_INFINITE
         IN [st |-> STATUS_PENDING,
             s |-> [c.s EXCEPT !.thr[t].wait[d] =
                        [@ EXCEPT !.user = IF timed THEN TRUE ELSE @,
                                  !.armed = IF timed THEN @ + 1 ELSE @,
                                  !.cookie = cookie]]]

(* wait_on: push a frame on the thread's stack and link one queue entry  *)
(* per object into the object's wait queue.  Every modelled object's      *)
(* add_queue succeeds.  The cookie stays unset until select_on stores it. *)
WaitOn(s, t, objs, flags, timeout) ==
    LET d == Len(s.thr[t].wait) + 1
        entries(o) == [i \in 1..Cardinality({k \in DOMAIN objs : objs[k] = o})
                         |-> [t |-> t, d |-> d]]
        frame == [objs |-> objs, flags |-> flags, timeout |-> timeout,
                  user |-> FALSE, armed |-> 0, cookie |-> UninitCookie]
    IN [s EXCEPT !.thr[t].wait = Append(@, frame),
                 !.wq = [o \in Objects |-> @[o] \o entries(o)]]

(* signal_object: only events have a `signal' operation here; threads    *)
(* and APCs answer STATUS_OBJECT_TYPE_MISMATCH.                            *)
SignalObject(s, o) ==
    IF o \notin Events THEN [ok |-> FALSE, s |-> s]
    ELSE [ok |-> TRUE, s |-> SetEventOp(s, o)]

(* select_on: normalise the timeout, check the count, resolve the handles,*)
(* wait_on, the optional signal step, then Evaluate.  After a signal that *)
(* ended a frame of the thread, only an empty stack counts as woken.      *)
SelectOn(s, t, r, cookie) ==
    LET timeout == IF r.timeout <= 0 THEN s.now - r.timeout ELSE r.timeout
        s1 == WaitOn(s, t, r.objs, r.flags, timeout)
        sg == SignalObject(s1, r.signal)
    IN
    IF Len(r.objs) > MAXIMUM_WAIT_OBJECTS THEN [st |-> STATUS_INVALID_PARAMETER, s |-> s]
    ELSE IF \E i \in DOMAIN r.objs : ~Resolvable(s, r.objs[i])
    THEN [st |-> STATUS_INVALID_HANDLE, s |-> s]
    ELSE IF r.signal = NoSignal THEN Evaluate(s1, t, cookie)
    ELSE IF ~sg.ok
    THEN [st |-> STATUS_OBJECT_TYPE_MISMATCH, s |-> EndWait(s1, t)]
    ELSE IF sg.s.thr[t].wait = <<>> THEN [st |-> STATUS_WAIT_0, s |-> sg.s]
    ELSE Evaluate(sg.s, t, cookie)

-----------------------------------------------------------------------------
(* Actions: request handlers, the timer callback, and the environment.     *)

Frame == [objs : Seq(Objects), flags : SUBSET {"ALL", "INTERRUPTIBLE", "ALERTABLE"},
          timeout : Int, user : BOOLEAN, armed : Nat, cookie : Int]

Running(t) == thr[t].state = "RUNNING" /\ ~thr[t].broken

(* DECL_HANDLER(select): store the result of the APC the client ran last,*)
(* select_on, then hand out an APC if the answer is STATUS_USER_APC.  The  *)
(* client's cookie is the depth of its own select stack.                   *)
Select(t, r) ==
    /\ Running(t)
    /\ Len(blocked[t]) < MaxDepth
    /\ r \in IF blocked[t] = <<>> THEN Requests ELSE NestedRequests
    /\ LET held == thr[t].held
           s0 == IF held = <<>> THEN Srv
                 ELSE UkWakeUp([Srv EXCEPT !.apc[Last(held)] =
                                              [st |-> "done", executed |-> TRUE],
                                           !.thr[t].held = Front(@)],
                               Last(held), 0)
           cookie == Len(blocked[t]) + 1
           res == SelectOn(s0, t, r, cookie)
           s2 == IF res.st = STATUS_USER_APC
                 THEN DequeueApcs(res.s, t, "ALERTABLE" \notin r.flags)
                 ELSE res.s
       IN /\ Commit(s2)
          /\ blocked' = IF res.st = STATUS_PENDING
                        THEN [blocked EXCEPT ![t] = Append(@, cookie)]
                        ELSE blocked
    /\ UNCHANGED now

(* thread_timeout: the timer of frame d of t fires. *)
Timeout(t, d) ==
    /\ d \in 1..Len(thr[t].wait)
    /\ thr[t].wait[d].armed > 0
    /\ thr[t].wait[d].timeout <= now
    /\ LET s1 == [Srv EXCEPT !.thr[t].wait[d] =
                     [@ EXCEPT !.user = FALSE, !.armed = @ - 1]]
           w == SendWakeup(EndWait(s1, t), t, thr[t].wait[d].cookie, STATUS_TIMEOUT)
       IN Commit(IF d # Len(thr[t].wait) \/ Suspended(s1, t) THEN s1
                 ELSE IF ~w.ok THEN w.s
                 ELSE (WakeThread(w.s, t)).s)
    /\ UNCHANGED <<now, blocked>>

(* Variant: the limit compared with <=. *)
SuspendThreadOffByOne(t) ==
    /\ thr[t].state = "RUNNING"
    /\ thr[t].suspend <= MAXIMUM_SUSPEND_COUNT
    /\ Commit([Srv EXCEPT !.thr[t].suspend = @ + 1])
    /\ UNCHANGED <<now, blocked>>

(* DECL_HANDLER(suspend_thread) on a live thread. *)
SuspendThread(t) ==
    /\ thr[t].state = "RUNNING"
    /\ thr[t].suspend < MAXIMUM_SUSPEND_COUNT
    /\ Commit([Srv EXCEPT !.thr[t].suspend = @ + 1])
    /\ UNCHANGED <<now, blocked>>

(* Variant: resume_thread without the wake_thread at count 0. *)
ResumeThreadNoWake(t) ==
    /\ thr[t].suspend > 0
    /\ Commit([Srv EXCEPT !.thr[t].suspend = @ - 1])
    /\ UNCHANGED <<now, blocked>>

(* DECL_HANDLER(resume_thread) *)
ResumeThread(t) ==
    /\ thr[t].suspend > 0
    /\ LET s1 == [Srv EXCEPT !.thr[t].suspend = @ - 1]
       IN Commit(IF s1.thr[t].suspend = 0 THEN (WakeThread(s1, t)).s ELSE s1)
    /\ UNCHANGED <<now, blocked>>

(* DECL_HANDLER(terminate_thread) from another thread: kill_thread(t, 1). *)
TerminateThread(t) ==
    /\ thr[t].state = "RUNNING"
    /\ Commit(KillThread(Srv, t))
    /\ UNCHANGED <<now, blocked>>

(* DECL_HANDLER(queue_apc) with a thread handle (APC_NONE, APC_USER). *)
QueueUserApc(t, a) ==
    /\ apc[a].st = "free" /\ ApcQueue(a) = "userq"
    /\ Commit((QueueApcToThread(Srv, t, a)).s)
    /\ UNCHANGED <<now, blocked>>

(* DECL_HANDLER(queue_apc) with a process handle, from another process. *)
QueueSystemApc(a) ==
    /\ apc[a].st = "free" /\ ApcQueue(a) = "sysq"
    /\ Commit((QueueApcToProcess(Srv, a)).s)
    /\ UNCHANGED <<now, blocked>>

(* Event requests of the clients (event.c). *)
SetEvent(e) ==
    /\ Commit(SetEventOp(Srv, e))
    /\ UNCHANGED <<now, blocked>>

ResetEvent(e) ==
    /\ ev[e]
    /\ Commit([Srv EXCEPT !.ev[e] = FALSE])
    /\ UNCHANGED <<now, blocked>>

(* The server clock advances. *)
Tick ==
    /\ now < MaxTime
    /\ now' = now + 1
    /\ UNCHANGED <<thr, wq, ev, apc, pipe, blocked, dangling, uaf>>

(* The client process dies: its pipes break. *)
ClientDies(t) ==
    /\ Running(t)
    /\ thr' = [thr EXCEPT ![t].broken = TRUE]
    /\ UNCHANGED <<wq, ev, apc, pipe, now, blocked, dangling, uaf>>

(* thread_poll_event with POLLHUP: kill_thread(thread, 0). *)
Hangup(t) ==
    /\ thr[t].broken /\ thr[t].state = "RUNNING"
    /\ Commit(KillThread(Srv, t))
    /\ UNCHANGED <<now, blocked>>

(* The client reads its wait pipe (wait_reply in the client library,     *)
(* outside this repository): cookie 0 means the thread was killed; the    *)
(* wakeup of its innermost select ends that select, and one read ahead of *)
(* it is put back in place; a wakeup that answers nothing is discarded.   *)
ClientRead(t) ==
    /\ pipe[t] # <<>> /\ ~thr[t].broken
    /\ LET p == pipe[t]
           b == blocked[t]
           mine == {i \in DOMAIN p : b # <<>> /\ p[i].cookie = Last(b)}
       IN IF Head(p).cookie = KillCookie
          THEN /\ blocked' = [blocked EXCEPT ![t] = <<>>]
               /\ pipe' = [pipe EXCEPT ![t] = Tail(@)]
          ELSE IF mine # {}
          THEN /\ blocked' = [blocked EXCEPT ![t] = Front(@)]
               /\ pipe' = [pipe EXCEPT ![t] = RemoveAt(@, Min(mine))]
          ELSE /\ \A i \in DOMAIN p : p[i].cookie \notin ToSet(b)
               /\ pipe' = [pipe EXCEPT ![t] = Tail(@)]
               /\ UNCHANGED blocked
    /\ UNCHANGED <<thr, wq, ev, apc, now, dangling, uaf>>

-----------------------------------------------------------------------------
Init ==
    /\ thr = [t \in Threads |-> [state |-> "RUNNING", suspend |-> 0, wait |-> <<>>,
                                 sysq |-> <<>>, userq |-> <<>>, held |-> <<>>,
                                 broken |-> FALSE]]
    /\ wq = [o \in Objects |-> <<>>]
    /\ ev = [e \in Events |-> FALSE]
    /\ apc = [a \in Apcs |-> [st |-> "free", executed |-> FALSE]]
    /\ pipe = [t \in Threads |-> <<>>]
    /\ now = 0
    /\ blocked = [t \in Threads |-> <<>>]
    /\ dangling = FALSE
    /\ uaf = FALSE

Next ==
    \/ \E t \in Threads, r \in Requests \cup NestedRequests : Select(t, r)
    \/ \E t \in Threads, d \in 1..MaxDepth : Timeout(t, d)
    \/ \E t \in Threads : \/ SuspendThread(t) \/ ResumeThread(t)
                          \/ TerminateThread(t) \/ ClientDies(t) \/ Hangup(t)
                          \/ ClientRead(t)
    \/ \E t \in Threads, a \in Apcs : QueueUserApc(t, a)
    \/ \E a \in Apcs : QueueSystemApc(a)
    \/ \E e \in Events : SetEvent(e) \/ ResetEvent(e)
    \/ Tick

Spec == Init /\ [][Next]_vars

(* The main loop runs every expired timeout user: timers are weakly fair. *)
(* Client requests and the clock are the environment and are not.        *)
FairSpec == Spec /\ \A t \in Threads, d \in 1..MaxDepth : WF_vars(Timeout(t, d))

(* A client that was handed an APC runs it and reports it in its next    *)
(* select through prev_apc (the client library's select loop): that       *)
(* select is weakly fair while the client is alive.                       *)
ReportApc(t) == thr[t].held # <<>> /\ \E r \in Requests \cup NestedRequests : Select(t, r)

ApcFairSpec == FairSpec /\ \A t \in Threads : WF_vars(ReportApc(t))

-----------------------------------------------------------------------------
(* Properties.                                                             *)

ThreadRec == [state : {"RUNNING", "TERMINATED"}, suspend : 0..MAXIMUM_SUSPEND_COUNT,
              wait : Seq(Frame), sysq : Seq(Apcs), userq : Seq(Apcs),
              held : Seq(Apcs), broken : BOOLEAN]

TypeOK ==
    /\ thr \in [Threads -> ThreadRec]
    /\ \A t \in Threads : Len(thr[t].wait) <= MaxDepth
    /\ wq \in [Objects -> Seq([t : Threads, d : 1..MaxDepth])]
    /\ ev \in [Events -> BOOLEAN]
    /\ apc \in [Apcs -> [st : {"free", "queued", "delivered", "done"},
                         executed : BOOLEAN]]
    /\ pipe \in [Threads -> Seq([cookie : Int, status : Int])]
    /\ now \in 0..MaxTime
    /\ blocked \in [Threads -> Seq(1..MaxDepth)]
    /\ dangling \in BOOLEAN /\ uaf \in BOOLEAN

(* Every entry of a wait frame is linked in its object's wait queue, and  *)
(* every queue entry belongs to a live frame, one to one (wait_on,        *)
(* end_wait, kill_thread's unwinding).                                     *)
WaitQueuesConsistent ==
    /\ \A o \in Objects : \A i \in DOMAIN wq[o] :
          wq[o][i].d <= Len(thr[wq[o][i].t].wait)
    /\ \A t \in Threads, o \in Objects :
          \A d \in 1..Len(thr[t].wait) :
             Cardinality({k \in DOMAIN thr[t].wait[d].objs : thr[t].wait[d].objs[k] = o})
             = Cardinality({k \in DOMAIN wq[o] : wq[o][k] = [t |-> t, d |-> d]})

(* No lost wakeup: after every handler and timer callback, no thread is   *)
(* left sleeping on a head frame that check_wait would answer now, except *)
(* an expired frame whose timer is still armed to answer it (resume_thread,*)
(* queue_apc, uk_wake_up, thread_timeout and kill_thread must all wake).  *)
NoLostWakeup ==
    \A t \in Threads :
        thr[t].wait # <<>> =>
            LET r == CheckWait(Srv, t) IN
            \/ r.st = NotSignaled
            \/ r.st = STATUS_TIMEOUT /\ Top(Srv, t).user /\ Top(Srv, t).armed > 0

(* Every wakeup waiting in a thread's pipe answers a select its client is*)
(* blocked in, with that select's cookie, and no select gets two; only    *)
(* kill_thread's wakeup carries cookie 0 (send_thread_wakeup from         *)
(* wake_thread, thread_timeout and kill_thread, and select_on's reply).   *)
WakeupsMatchBlockedSelects ==
    \A t \in Threads : \A i \in DOMAIN pipe[t] :
        \/ pipe[t][i].cookie = KillCookie
        \/ /\ pipe[t][i].cookie \in ToSet(blocked[t])
           /\ \A j \in DOMAIN pipe[t] : j # i => pipe[t][j].cookie # pipe[t][i].cookie

(* A terminated thread has no wait frame, no queue entry and no queued    *)
(* APC: kill_thread unwinds and cleans up, queue_apc refuses it.          *)
TerminatedQuiescent ==
    \A t \in Threads : thr[t].state = "TERMINATED" =>
        /\ thr[t].wait = <<>> /\ thr[t].sysq = <<>> /\ thr[t].userq = <<>>
        /\ \A o \in Objects : \A i \in DOMAIN wq[o] : wq[o][i].t # t

(* A wait frame whose deadline has passed is eventually unwound, unless   *)
(* its thread is suspended: a timer dropped by thread_timeout because the *)
(* frame was not the head, or the thread was suspended, must be made up   *)
(* for by wake_thread's loop over the frame stack and by resume_thread.   *)
ExpiredWaitsEnd ==
    \A t \in Threads, d \in 1..MaxDepth :
        (d <= Len(thr[t].wait) /\ thr[t].wait[d].timeout <= now)
            ~> (Len(thr[t].wait) < d \/ Suspended(Srv, t))

(* An APC handed to a client by select (reply->apc_handle) is eventually  *)
(* marked executed, which signals it to the thread that queued it and may *)
(* wait on it.  The client's prev_apc does this, and clear_apc_queue does *)
(* it for APCs still queued when a thread dies; nothing does it for an    *)
(* APC handed out to a thread that is killed before it reports.           *)
DeliveredApcsExecuted ==
    \A a \in Apcs : apc[a].st = "delivered" ~> apc[a].executed

(* No timer stays armed on a freed wait frame (select_on's add_timeout_user*)
(* overwriting wait->user, end_wait removing only the stored one).        *)
NoDanglingTimer == ~dangling

(* uk_wake_up never follows the link of a queue entry that wake_thread    *)
(* freed while answering 0.                                               *)
NoFreedEntryWalk == ~uaf

=============================================================================
