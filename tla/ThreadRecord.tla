----------------------------- MODULE ThreadRecord -----------------------------
(***************************************************************************)
(* The parts of a thread record that other threads reach through lookups  *)
(* and signals (src/server_module/thread.c):                              *)
(*  - the suspend handshake: suspend_thread, resume_thread, stop_thread,   *)
(*    the suspend branch of get/set_thread_context, and the               *)
(*    set/get_suspend_context requests the client sends from its SIGUSR1   *)
(*    handler;                                                             *)
(*  - the pid hash of the unified-kernel build: add_thread_by_pid,         *)
(*    find_thread_by_pid and remove_thread_by_pid, which destroy_thread    *)
(*    calls with the pid of the task that drops the last reference.        *)
(* The client side (ntdll's SIGUSR1 handler) and the kernel hooks that     *)
(* add a thread to the hash and look one up are not in the repository and *)
(* are modelled from their role.  Register contents are abstracted away:   *)
(* a context is present or not.                                            *)
(***************************************************************************)
EXTENDS Integers, SequencesExt

CONSTANTS
    Threads,               \* thread objects (model values)
    FirstThread,           \* the thread create_process made, already initialised
    Pids,                  \* unix pids a task may have
    THREAD_HASH_SIZE,      \* 1 << THREAD_HASH_BITS, scaled down
    MAXIMUM_SUSPEND_COUNT,
    NoThread               \* find_thread_by_pid's NULL

ASSUME FirstThread \in Threads /\ NoThread \notin Threads
ASSUME Pids \subseteq Nat \ {0} /\ THREAD_HASH_SIZE \in Nat \ {0}

VARIABLES
    state,          \* [Threads -> {"none", "running", "terminated", "destroyed"}]
    inited,         \* thread->unix_tid # -1: init_thread has run
    suspend,        \* thread->suspend (process->suspend is 0)
    context,        \* thread->context # NULL (always the suspend context here)
    suspendContext, \* thread->suspend_context # NULL
    sigusr1,        \* a SIGUSR1 is pending at the client thread
    client,         \* the client's place in its SIGUSR1 handler
    pid,            \* thread->pid, -1 when not hashed
    hash,           \* thread_hash_table: bucket -> list of threads, head first
    badRead,        \* history: a bucket walk read freed or poisoned memory
    lockHeld        \* thread_hash_lock is held by a task that faulted

lifeVars == <<state, inited>>
susVars == <<suspend, context, suspendContext, sigusr1, client>>
hashVars == <<pid, hash, badRead, lockHeld>>
vars == <<lifeVars, susVars, hashVars>>

Buckets == 0..THREAD_HASH_SIZE-1

-----------------------------------------------------------------------------
(* Suspend and context.                                                    *)

(* stop_thread: no signal when a context is already there; otherwise     *)
(* SIGUSR1, which send_thread_signal can deliver only to a thread whose   *)
(* unix tid is known and whose task is alive.                              *)
StopThread(t, ctx, tidKnown) ==
    IF ~ctx[t] /\ tidKnown[t] /\ state[t] = "running"
    THEN [sigusr1 EXCEPT ![t] = TRUE] ELSE sigusr1

StopThreadIfSuspended(t, ctx, tidKnown) ==
    IF suspend[t] > 0 THEN StopThread(t, ctx, tidKnown) ELSE sigusr1

(* Variant: the count is raised past the limit. *)
SuspendThreadNoLimit(t) ==
    [suspend |-> [suspend EXCEPT ![t] = @ + 1],
     sig |-> IF suspend[t] = 0 THEN StopThread(t, context, inited) ELSE sigusr1]

(* suspend_thread: below the limit the count is raised, and the thread is *)
(* stopped on its first suspension; at the limit nothing changes          *)
(* (STATUS_SUSPEND_COUNT_EXCEEDED).                                        *)
SuspendThread(t) ==
    IF suspend[t] < MAXIMUM_SUSPEND_COUNT
    THEN [suspend |-> [suspend EXCEPT ![t] = @ + 1],
          sig |-> IF suspend[t] = 0 THEN StopThread(t, context, inited) ELSE sigusr1]
    ELSE [suspend |-> suspend, sig |-> sigusr1]

ApplySuspend(r) ==
    /\ suspend' = r.suspend /\ sigusr1' = r.sig
    /\ UNCHANGED <<lifeVars, context, suspendContext, client, hashVars>>

(* DECL_HANDLER(suspend_thread); a TERMINATED thread is refused. *)
SuspendReq(t) ==
    /\ state[t] = "running"
    /\ ApplySuspend(SuspendThread(t))

(* DECL_HANDLER(resume_thread) and resume_thread: the last resume wakes   *)
(* the thread, which answers the client's wait_suspend select.            *)
ResumeReq(t) ==
    /\ state[t] \in {"running", "terminated"}
    /\ suspend[t] > 0
    /\ suspend' = [suspend EXCEPT ![t] = @ - 1]
    /\ client' = IF suspend[t] = 1 /\ client[t] = "blocked"
                 THEN [client EXCEPT ![t] = "woken"] ELSE client
    /\ UNCHANGED <<lifeVars, context, suspendContext, sigusr1, hashVars>>

(* get/set_thread_context on another thread that has no context yet and  *)
(* is RUNNING: STATUS_PENDING, and with req->suspend the thread is        *)
(* suspended so that a retry finds its context.                           *)
PendingSuspend(t) ==
    /\ state[t] = "running" /\ ~context[t]
    /\ ApplySuspend(SuspendThread(t))

GetThreadContext(t) == PendingSuspend(t)

SetThreadContext(t) == PendingSuspend(t)

(* DECL_HANDLER(set_suspend_context): refused when a context is already   *)
(* there ("nested suspend or exception, shouldn't happen").               *)
SetSuspendContext(t) ==
    IF context[t] THEN [ctx |-> context, sus |-> suspendContext]
    ELSE [ctx |-> [context EXCEPT ![t] = TRUE],
          sus |-> [suspendContext EXCEPT ![t] = TRUE]]

(* Variant: the suspend context is handed back but thread->context keeps *)
(* pointing at it.                                                        *)
GetSuspendContextKeep(t) ==
    IF ~suspendContext[t] THEN [ctx |-> context, sus |-> suspendContext, sig |-> sigusr1]
    ELSE [ctx |-> context, sus |-> [suspendContext EXCEPT ![t] = FALSE],
          sig |-> StopThreadIfSuspended(t, context, inited)]

(* Variant: the thread is not stopped again when it is still suspended. *)
GetSuspendContextNoRestop(t) ==
    IF ~suspendContext[t] THEN [ctx |-> context, sus |-> suspendContext, sig |-> sigusr1]
    ELSE LET ctx == IF context[t] THEN [context EXCEPT ![t] = FALSE] ELSE context
         IN [ctx |-> ctx, sus |-> [suspendContext EXCEPT ![t] = FALSE], sig |-> sigusr1]

(* DECL_HANDLER(get_suspend_context): the suspend context goes back to    *)
(* the client; if it was the thread's context, that is cleared and the    *)
(* thread is stopped again if it is still suspended.                      *)
GetSuspendContext(t) ==
    IF ~suspendContext[t] THEN [ctx |-> context, sus |-> suspendContext, sig |-> sigusr1]
    ELSE LET ctx == IF context[t] THEN [context EXCEPT ![t] = FALSE] ELSE context
         IN [ctx |-> ctx, sus |-> [suspendContext EXCEPT ![t] = FALSE],
             sig |-> IF context[t] THEN StopThreadIfSuspended(t, ctx, inited) ELSE sigusr1]

(* The client's SIGUSR1 handler (wait_suspend in ntdll): it runs when the *)
(* signal is pending and the thread is not already inside it, and sends   *)
(* set_suspend_context.                                                    *)
ClientSignal(t) ==
    /\ state[t] = "running" /\ sigusr1[t] /\ client[t] = "user"
    /\ LET r == SetSuspendContext(t)
       IN context' = r.ctx /\ suspendContext' = r.sus
    /\ sigusr1' = [sigusr1 EXCEPT ![t] = FALSE]
    /\ client' = [client EXCEPT ![t] = "handler"]
    /\ UNCHANGED <<lifeVars, suspend, hashVars>>

(* ... then selects with SELECT_INTERRUPTIBLE and timeout 0: check_wait   *)
(* keeps a suspended thread waiting, and answers TIMEOUT otherwise.       *)
ClientWaitSuspend(t) ==
    /\ state[t] = "running" /\ client[t] = "handler"
    /\ client' = [client EXCEPT ![t] = IF suspend[t] > 0 THEN "blocked" ELSE "woken"]
    /\ UNCHANGED <<lifeVars, suspend, context, suspendContext, sigusr1, hashVars>>

(* ... and once woken, fetches its context back and returns from the      *)
(* handler.                                                                *)
ClientResume(t) ==
    /\ state[t] = "running" /\ client[t] = "woken"
    /\ LET r == GetSuspendContext(t)
       IN context' = r.ctx /\ suspendContext' = r.sus /\ sigusr1' = r.sig
    /\ client' = [client EXCEPT ![t] = "user"]
    /\ UNCHANGED <<lifeVars, suspend, hashVars>>

-----------------------------------------------------------------------------
(* Pid hash.                                                               *)

Bucket(p) == p % THREAD_HASH_SIZE

(* Variant: the thread is linked at the tail of its bucket. *)
AddThreadByPidTail(t, p) ==
    /\ pid' = [pid EXCEPT ![t] = p]
    /\ hash' = [hash EXCEPT ![Bucket(p)] = Append(@, t)]

(* add_thread_by_pid: thread->pid is set and the thread linked at the     *)
(* head of its bucket, under the write lock.                              *)
AddThreadByPid(t, p) ==
    /\ pid' = [pid EXCEPT ![t] = p]
    /\ hash' = [hash EXCEPT ![Bucket(p)] = <<t>> \o @]

(* The position find_thread_by_pid stops at: the first entry whose pid    *)
(* matches, or 0.                                                          *)
MatchAt(b, p) == SelectInSeq(b, LAMBDA u : pid[u] = p)

(* find_thread_by_pid *)
FindThreadByPid(p) ==
    LET b == hash[Bucket(p)]
    IN IF MatchAt(b, p) = 0 THEN NoThread ELSE b[MatchAt(b, p)]

(* The entries a walk of b reads up to position n: their memory is freed *)
(* when their thread was destroyed.                                        *)
ReadsFreed(b, n) == \E i \in 1..n : state[b[i]] = "destroyed"

(* The unified-kernel hook that registers a task's thread (not in the     *)
(* repository): a running thread not yet hashed, under a pid no live task *)
(* has.  The write lock spins forever if a faulted task holds it.         *)
HashThread(t, p) ==
    /\ state[t] = "running" /\ pid[t] = -1 /\ ~lockHeld
    /\ \A u \in Threads : state[u] = "running" => pid[u] # p
    /\ AddThreadByPid(t, p)
    /\ UNCHANGED <<lifeVars, susVars, badRead, lockHeld>>

(* get_current_thread in a live task with pid p: find_thread_by_pid walks *)
(* the bucket, reading each entry's pid, until the first match.           *)
LookupTask(p) ==
    /\ ~lockHeld
    /\ \E u \in Threads : state[u] = "running" /\ pid[u] = p
    /\ LET b == hash[Bucket(p)]
       IN badRead' = (badRead \/ ReadsFreed(b, IF MatchAt(b, p) = 0 THEN Len(b) ELSE MatchAt(b, p)))
    /\ UNCHANGED <<lifeVars, susVars, pid, hash, lockHeld>>

(* remove_thread_by_pid(t, p): nothing unless thread->pid = p.  The loop  *)
(* walks the bucket to t, sets its pid to -1 and unlinks it, and then     *)
(* continues from the unlinked node, whose next field hlist_del set to    *)
(* LIST_POISON1.  That read is undefined: it faults, leaving the write    *)
(* lock held, or returns a value that ends the loop.                      *)
RemoveThreadByPid(t, p, faults) ==
    IF pid[t] # p THEN UNCHANGED hashVars
    ELSE LET b == hash[Bucket(p)]
             i == SelectInSeq(b, LAMBDA u : u = t)
         IN /\ ~lockHeld
            /\ pid' = [pid EXCEPT ![t] = -1]
            /\ hash' = [hash EXCEPT ![Bucket(p)] = RemoveAt(b, i)]
            /\ badRead' = TRUE
            /\ lockHeld' = faults

-----------------------------------------------------------------------------
(* Lifecycle.                                                              *)

(* DECL_HANDLER(new_thread) from a running thread c: the new thread is    *)
(* RUNNING with no unix tid, suspended once if the request asks.          *)
NewThread(c, n, suspended) ==
    /\ state[c] = "running" /\ inited[c] /\ state[n] = "none"
    /\ state' = [state EXCEPT ![n] = "running"]
    /\ suspend' = [suspend EXCEPT ![n] = IF suspended THEN 1 ELSE 0]
    /\ UNCHANGED <<inited, context, suspendContext, sigusr1, client, hashVars>>

(* DECL_HANDLER(init_thread) of a later thread: the unix tid is stored,   *)
(* and the thread is stopped if it was created suspended.                 *)
InitThread(t) ==
    /\ state[t] = "running" /\ ~inited[t]
    /\ inited' = [inited EXCEPT ![t] = TRUE]
    /\ sigusr1' = StopThreadIfSuspended(t, context, inited')
    /\ UNCHANGED <<state, suspend, context, suspendContext, client, hashVars>>

(* kill_thread (terminate_thread, or the client's socket closing):        *)
(* TERMINATED, and cleanup_thread frees the suspend context and clears    *)
(* thread->context.                                                        *)
Kill(t) ==
    /\ state[t] = "running"
    /\ state' = [state EXCEPT ![t] = "terminated"]
    /\ context' = [context EXCEPT ![t] = FALSE]
    /\ suspendContext' = [suspendContext EXCEPT ![t] = FALSE]
    /\ UNCHANGED <<inited, suspend, sigusr1, client, hashVars>>

(* destroy_thread, when the last reference to a killed thread is dropped *)
(* by the task with pid cur: remove_thread_by_pid(thread, current->pid),  *)
(* then the memory is freed.                                               *)
DestroyThread(t, cur, faults) ==
    /\ state[t] = "terminated"
    /\ state' = [state EXCEPT ![t] = "destroyed"]
    /\ RemoveThreadByPid(t, cur, faults)
    /\ UNCHANGED <<inited, susVars>>

Init ==
    /\ state = [t \in Threads |-> IF t = FirstThread THEN "running" ELSE "none"]
    /\ inited = [t \in Threads |-> t = FirstThread]
    /\ suspend = [t \in Threads |-> 0]
    /\ context = [t \in Threads |-> FALSE]
    /\ suspendContext = [t \in Threads |-> FALSE]
    /\ sigusr1 = [t \in Threads |-> FALSE]
    /\ client = [t \in Threads |-> "user"]
    /\ pid = [t \in Threads |-> -1]
    /\ hash = [b \in Buckets |-> <<>>]
    /\ badRead = FALSE
    /\ lockHeld = FALSE

Next ==
    \/ \E t \in Threads :
          \/ SuspendReq(t) \/ ResumeReq(t)
          \/ GetThreadContext(t) \/ SetThreadContext(t)
          \/ ClientSignal(t) \/ ClientWaitSuspend(t) \/ ClientResume(t)
          \/ InitThread(t) \/ Kill(t)
    \/ \E c, n \in Threads, s \in BOOLEAN : NewThread(c, n, s)
    \/ \E t \in Threads, p \in Pids : HashThread(t, p)
    \/ \E p \in Pids : LookupTask(p)
    \/ \E t \in Threads, cur \in Pids, f \in BOOLEAN : DestroyThread(t, cur, f)

Spec == Init /\ [][Next]_vars

(* The client thread runs: a pending SIGUSR1 is delivered once it is out *)
(* of its handler, and the handler's requests follow one another.  The    *)
(* server answers every request; suspends, resumes, kills and lookups are *)
(* the environment and get no fairness.                                    *)
FairSpec == Spec /\ \A t \in Threads : /\ WF_vars(ClientSignal(t))
                                       /\ WF_vars(ClientWaitSuspend(t))
                                       /\ WF_vars(ClientResume(t))

-----------------------------------------------------------------------------
(* Properties.                                                             *)

TypeOK ==
    /\ state \in [Threads -> {"none", "running", "terminated", "destroyed"}]
    /\ inited \in [Threads -> BOOLEAN]
    /\ suspend \in [Threads -> 0..MAXIMUM_SUSPEND_COUNT]
    /\ context \in [Threads -> BOOLEAN]
    /\ suspendContext \in [Threads -> BOOLEAN]
    /\ sigusr1 \in [Threads -> BOOLEAN]
    /\ client \in [Threads -> {"user", "handler", "blocked", "woken"}]
    /\ pid \in [Threads -> Pids \cup {-1}]
    /\ hash \in [Buckets -> Seq(Threads)]
    /\ badRead \in BOOLEAN
    /\ lockHeld \in BOOLEAN

(* The context a debugger reads through get_thread_context is the one   *)
(* the client handed over in set_suspend_context: thread->context points *)
(* at a live suspend context, and the client is still inside its SIGUSR1 *)
(* handler, so the registers are the thread's current ones.  This is     *)
(* also what makes set_suspend_context's "shouldn't happen" refusal      *)
(* unreachable.                                                          *)
ContextOnlyInHandler ==
    \A t \in Threads :
        state[t] = "running" /\ context[t] =>
            suspendContext[t] /\ client[t] \in {"handler", "blocked", "woken"}

(* A live task's lookup finds its own thread: find_thread_by_pid returns *)
(* the running thread hashed under the task's pid, even when a killed     *)
(* thread that had the same pid is still linked in the same bucket.       *)
LiveTaskFindsItsThread ==
    \A t \in Threads :
        state[t] = "running" /\ pid[t] # -1 => FindThreadByPid(pid[t]) = t

(* A thread that stays suspended eventually stops: its context becomes   *)
(* available to get_thread_context, through the SIGUSR1 sent by          *)
(* suspend_thread, init_thread or get_suspend_context, unless it is       *)
(* resumed or dies first.                                                  *)
SuspendedThreadStops ==
    \A t \in Threads :
        (state[t] = "running" /\ inited[t] /\ suspend[t] > 0)
            ~> (context[t] \/ suspend[t] = 0 \/ state[t] # "running")

(* Every walk of a hash bucket reads only live thread records: no entry  *)
(* of a destroyed thread is left linked, and remove_thread_by_pid does    *)
(* not read through the node it unlinked.                                 *)
HashWalksValidMemory == ~badRead

=============================================================================
