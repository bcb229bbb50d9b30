# TLA+ models of the thread subsystem (src/server_module/thread.c)

This directory models the thread subsystem of the server. It covers the wait/wake engine, the APC queues, suspend/resume and thread termination (user-space build), the file descriptors a thread receives from its client (both builds), thread priority and affinity, the life of an APC object across processes, the suspend-context handshake, and the pid hash of the unified-kernel build. TLC checks the models. `PROJECT.json` lists:
- every component and its status;
- every run and mutant;
- the source lines each definition translates;
- the findings and the hazards.

## The system

`thread.c` runs inside a single-threaded server. Each client request is one call to a `DECL_HANDLER`, and each expired timer is one call to its callback. A handler runs to completion before the next one starts. The parts that interact are:

- **Wait frames.** `select` (via `select_on` and `wait_on`) pushes a frame on the thread's stack and links one queue entry per object into that object's wait queue. A frame is nested when a select is issued while another is pending, for example the client's `wait_suspend` during an APC.
- **Evaluation.** `check_wait` decides what the head frame can be answered with, in this order:
  1. a system APC, for an INTERRUPTIBLE wait;
  2. nothing, while the thread is suspended;
  3. WAIT_ALL, or the first signaled object;
  4. a user APC, for an ALERTABLE wait;
  5. the timeout.
- **Wakeups.**
  - `wake_thread` answers head frames in a loop.
  - `send_thread_wakeup` writes `{cookie, status}` to the client's wait pipe. When the client is gone (EPIPE), it calls `kill_thread` instead.
  - `uk_wake_up(obj, max)` walks an object's wait queue, calls `wake_thread` on each waiter, and restarts at the head after each success.
- **Timers.** `thread_timeout` answers an expired head frame with STATUS_TIMEOUT. It ignores a frame that is not the head, and a thread that is suspended.
- **APCs.** `queue_apc` appends to the user or the system queue and wakes the thread when the APC became the head of its queue. The `select` handler hands out the next APC after STATUS_USER_APC. The client's next select reports the result through `prev_apc`, which marks the APC executed and wakes its waiters.
- **Suspend and resume.** `suspend_thread` and `resume_thread` change the suspend count. Resume calls `wake_thread` when the count reaches 0.
- **Termination.** `kill_thread` (from `terminate_thread`, from a POLLHUP in `thread_poll_event`, or from a failed wakeup):
  1. ends every frame;
  2. sends one wakeup with cookie 0;
  3. wakes the waiters on the thread object;
  4. clears both APC queues (`cleanup_thread`).

These calls are mutually recursive: `wake_thread` → `send_thread_wakeup` → `kill_thread` → `uk_wake_up` → `wake_thread`. Nothing in this code is protected by locks. The hard behaviours are re-entrancy, and the order of steps inside one handler, when a step ends a frame or kills a thread that an outer loop is still using.

## Modules

| Module | Models |
|---|---|
| `WaitEngine.tla` | All of the above: the thread records, frames, object wait queues, events, APC objects, wait pipes and the clock. |
| `MC_WaitEngine.tla` | Model values and request sets for TLC. |
| `InflightFds.tla` | The in-flight fd table, the process socket, `new_thread`/`create_thread`, the fd part of `init_thread`, and the fd releases of `cleanup_thread`, in both builds. |
| `InflightCache.tla` | The abstract in-flight cache that `InflightFds` implements. |
| `ThreadInfo.tla` | Thread priority and affinity: `set_thread_info`, `set_thread_affinity`, `get_thread_affinity`, and the affinity steps of `create_thread` and `init_thread`. |
| `MC_ThreadInfo.tla` | The request priorities for TLC, which include negative numbers. |
| `ApcObject.tla` | The APC object across processes: its reference count and handles, `queue_apc` to a thread or another process, owner replacement (`thread_queue_apc`, `thread_cancel_apc`), `select`'s hand-out and `prev_apc`, `get_apc_result`, and the queue clearing of `kill_thread`. |
| `MC_ApcObject.tla` | The processes, threads and APC kinds for TLC. |
| `ThreadRecord.tla` | The suspend handshake with the client (`stop_thread`, the suspend and context handlers) and the pid hash of the unified-kernel build, with `destroy_thread`'s removal. |

### How `WaitEngine` corresponds to the code

**State.** `thr[t]` holds:
- `state` and `suspend`;
- `wait`, the frame stack with the head last;
- `sysq` and `userq`;
- `held`, the APCs handed to the client and not yet reported;
- `broken`, meaning the client process is gone and the next pipe write fails with EPIPE.

A frame holds the `objs`, `flags`, `timeout` and `cookie` of `struct thread_wait`. Its `user` field records whether `wait->user` still points at an armed timer, and `armed` counts the timers armed on the frame. `wq[o]` is `obj->wait_queue`, a sequence of `[t, d]` entries (thread, frame depth). `pipe[t]` is the wait pipe.

The model also has ghost variables, which no code assigns:

| Variable | Meaning |
|---|---|
| `blocked[t]` | The client's stack of pending selects, by cookie. |
| `dangling` | A timer was left armed on a freed frame. |
| `uaf` | `uk_wake_up` followed a freed entry. |

**Helpers.** Each helper is a pure operator from a server-state record to a server-state record, named after its C function: `CheckWait`, `EndWait`, `SendWakeup`, `WakeLoop`/`WakeAnswered`/`WakeThread`, `UkIter`/`UkWoken`/`UkWakeUp`, `ClearApcQueue`, `CleanupThread`, `KillThread`, `Enqueue`, `QueueApcToThread`, `QueueApcToProcess`, `DequeueApcs`, `WaitOn`, `SignalObject`, `Evaluate` and `SelectOn`. The recursion of the code is kept as `RECURSIVE` operators.

**Actions.** One action per handler or callback, each modelling the whole call:

| Action | Code |
|---|---|
| `Select` | `DECL_HANDLER(select)`, including `prev_apc` and the APC hand-out |
| `Timeout` | `thread_timeout` |
| `SuspendThread`, `ResumeThread`, `TerminateThread` | their handlers |
| `QueueUserApc`, `QueueSystemApc` | `DECL_HANDLER(queue_apc)` with a thread handle or a process handle |
| `Hangup` | `thread_poll_event` with POLLHUP |

The environment is modelled as:
- `SetEvent` and `ResetEvent` (event.c, which is not in the repository);
- `Tick` (the clock);
- `ClientDies`;
- `ClientRead`, the client library reading its wait pipe.

**Abstraction.**
- Handles are objects.
- A handle that cannot be resolved exists only for APC objects nobody holds.
- Status codes are their NT values as signed 32-bit ints.
- The cookie a client passes is the depth of its select stack.
- An unset cookie is `UninitCookie`, a value no client uses.

### How `InflightFds` corresponds to the code

The fd part of the thread subsystem is separate from the wait engine: no handler touches both except `kill_thread`, whose fd part is `cleanup_thread`'s releases.

**State.**
- `state[t]`: `none` (not yet created), `running` or `terminated`.
- `fdobj[t]`: the unix fd owned by `request_fd`, `reply_fd` and `wait_fd`, or -1.
- `inflight[t]`: the `MAX_INFLIGHT_FDS` slots of `{client, server}`.
- `open`: the server's open fds.
- `sock`: the fds the clients sent on the process socket and the server has not read, each tagged with its thread.
- `terminating`: `process->is_terminating`.

**Helpers.** `AddInflightFd`, `GetInflightFdUser` (with the `receive_fd` loop), `GetInflightFdUK` (dup and cache), `Purge`, `CleanupThread`, `KillThread`, `CreateThread`, `AllocHandle`, and the steps of `init_thread` (`InitThreadReply`, `InitThreadWait`, `InitThreadError`). A fd is the lowest free number of `FdNums`, as the kernel allocates it, so a closed number is reused by the next open, dup or recvmsg.

**Actions.** `NewThread`, `InitThread`, `Kill` (`terminate_thread` or POLLHUP) and `ReceiveFd` (the process socket's POLLIN) are handlers. The environment is `SendFd` (a client sends a fd) and `ProcessTerminates` (`terminate_process` of process.c, which sets `is_terminating` and kills the other threads).

`receive_fd` (request.c) is not in the repository. It is modelled from its role: it closes a fd for a thread that is gone, and otherwise hands it to `thread_add_inflight_fd` without looking at the result. When no fd number is free, recvmsg cannot install the fd and the message is lost.

**Refinement.** `InflightCache` states what each thread's table promises, without slots. A thread's map holds one fd per client number and at most `Capacity` of them. A step may:
- store a batch of received fds, replacing or adding entries and removing none;
- then hand out the entry of one number;
- or clear the whole map.

Several threads' maps may change in one step, because a lookup reads other threads' fds from the shared socket. `InflightFds` maps `cache[t]` to the set of used slots of `inflight[t]`, and checks `CacheRefinement == Abs!Spec`.

### How `ThreadInfo` corresponds to the code

**State.**
- `priority[t]` and `affinity[t]`: `thread->priority` and `thread->affinity`.
- `tid[t]`: whether `unix_tid` is known, which is set by `init_thread`.
- `kcpus[t]`: the CPU set the kernel runs the unix task on.
- `procAff`, `peb` and `hasParent`: `process->affinity`, `process->peb` and whether the process has a parent.
- `inited[t]`: whether `init_thread` passed its cpu check.

An affinity is a number of `AFFINITY_BITS` bits and an int has `INT_BITS` bits. The runs scale 64 and 32 down to 6 and 4. `CpuSet` is the loop of `set_thread_affinity`. `AffinityOf` is the loop of `get_thread_affinity`, with `IntShl` for `1 << i`.

That shift is undefined from bit `INT_BITS-1` up. It is modelled as the x86 build behaves: the count is masked to the int width, and INT_MIN is sign-extended into every higher bit of the mask. The kernel refuses a CPU set with no online CPU, and keeps only the online CPUs of any other.

**Actions.**
- `SetThreadInfo` is the whole handler, with either or both of the priority and affinity bits.
- `NewThread` is `create_thread`'s copy of the process affinity.
- `InitThread` is `init_thread` from the unix tid onward. The new task inherits some CPU set from its creator. A first thread without a parent reads that set back; any other thread applies its stored affinity.
- `Kill` marks a thread TERMINATED.

### How `ApcObject` corresponds to the code

**State.**
- `st[a]`: "unborn" (not yet created), "live", or "freed" (the last reference was released).
- `ref[a]` and `executed[a]`: `obj.refcount` and `apc->executed`. The latter is also the signaled state a waiter on the APC's handle sees.
- `caller[a]`: `apc->caller`, set when the APC was queued to another process.
- `handles[p]`: the APCs process `p` holds a handle to. This covers the caller's `reply->handle` and the client's `reply->apc_handle`.
- `sysq[t]` and `userq[t]`: the two APC queues, head first.
- `held[t]`: the APC whose handle `select` last gave thread `t`'s client, which the client reports in its next select (`prev_apc`).
- `uaf`: a history flag, set when a handler touches a freed APC.

A handler is a composition of the functions it calls, over one record of the server's state, as in `WaitEngine`. `Grab` and `Release` count references, and the last `Release` frees the APC (`thread_apc_destroy`). `AllocHandle` and `CloseHandle` add and drop a process's handle, with its reference.

**Actions.**
- `QueueApcReq` is the whole `queue_apc` handler. An NONE or USER APC is queued to the thread of the handle. A system APC goes to another process: the caller gets a handle first, and `queue_apc` chooses a live thread of the process. The caller's own process gets nothing queued (`reply->self`). A lookup that fails, or a refused `queue_apc`, releases everything the handler took.
- `ThreadQueueApc` and `CancelApc` are async I/O's calls, `thread_queue_apc` and `thread_cancel_apc`. Queueing an owner's APC first cancels the owner's previous one.
- `Select` is the client's select:
  1. It stores the previous APC's result (executed, handle closed).
  2. If `check_wait` would return STATUS_USER_APC, it hands out the next APC. APC_NONE is consumed in the loop. `allocOk` says whether `alloc_handle` finds room for `reply->apc_handle`.
- `GetApcResult` returns an executed APC's result to the caller and closes its handle.
- `Kill` marks the thread TERMINATED and clears both queues.

Waits themselves are left to `WaitEngine`. Here a select either returns STATUS_USER_APC at once or leaves the APCs alone. Call data and results are abstracted to "executed".

### How `ThreadRecord` corresponds to the code

**State.**
- `state[t]`: "none", "running", "terminated" or "destroyed" (the last means freed memory).
- `inited[t]`: whether `init_thread` gave the thread its unix tid.
- `suspend[t]`, `context[t]`, `suspendContext[t]`: `thread->suspend`, whether `thread->context` is set, and whether it points at `thread->suspend_context`. Register contents are abstracted to "present or not".
- `sigusr1[t]`: a SIGUSR1 sent by `stop_thread` and not yet taken.
- `client[t]`: the client's position in its SIGUSR1 handler. It is "user" when running, "handler" after `set_suspend_context`, and "blocked" while in its `wait_suspend` select. It is "woken" after the resume that answers that select.
- `pid[t]` and `hash[b]`: `thread->unix_pid` as a hash key (-1 when unhashed), and each bucket as a sequence, head first.
- `badRead`: a walk read a freed or poisoned node. `lockHeld`: `thread_hash_lock` is held by a task that faulted.

**Actions.**
- `SuspendReq`, `ResumeReq`, `GetThreadContext`, `SetThreadContext`, `SetSuspendContext` and `GetSuspendContext` are the whole handlers. Each one's `stop_thread` is applied in the same step.
- `GetThreadContext` and `SetThreadContext` are their STATUS_PENDING branch, which suspends the target.
- `ClientSignal`, `ClientWaitSuspend` and `ClientResume` are the client's SIGUSR1 handler, which is not in the repository. It sets its context, waits interruptibly, and takes the context back.
- `NewThread` creates a thread, possibly suspended. `InitThread` is the later-thread branch of `init_thread`, with its `stop_thread_if_suspended`. `Kill` is `kill_thread`'s effect on the record.
- `HashThread` and `LookupTask` are the kernel hooks that call `add_thread_by_pid` and `get_thread_by_task`. `DestroyThread(t, cur, faults)` is `destroy_thread` run by the task with pid `cur`.

`remove_thread_by_pid` keeps iterating after `hlist_del`, which reads `LIST_POISON1`. The model treats that read as undefined: either the task faults with the write lock held (`faults`), or the poisoned value happens to end the loop.

## Runs

| Run | Cfg | Checks | Result |
|---|---|---|---|
| wait_core | `Wait_core.cfg` | TypeOK, WaitQueuesConsistent, NoLostWakeup | pass, about 104k states |
| wait_apc | `Wait_apc.cfg` | NoLostWakeup, TerminatedQuiescent, WakeupsMatchBlockedSelects, with a user APC and a system APC | pass, about 245k states |
| wait_liveness | `Wait_liveness.cfg` | ExpiredWaitsEnd under `FairSpec` | pass |
| wait_selfwake | `Wait_selfwake.cfg` | WakeupsMatchBlockedSelects, with SignalObjectAndWait | **violation** |
| wait_nested_signal | `Wait_nested_signal.cfg` | NoDanglingTimer, with a nested signal-and-wait | **violation** |
| wait_dead_client | `Wait_dead_client.cfg` | NoFreedEntryWalk | **violation** |
| fds_user | `Fds_user.cfg` | TypeOK, FdOwnedOnce, CacheRefinement | pass, about 61k states |
| info_affinity | `Info_affinity.cfg` | TypeOK, with 3 CPUs | pass, about 5k states |
| apc | `Apc.cfg` | TypeOK, RefcountMatchesHolders, OneQueuedApcPerOwner | pass, about 240k states |
| apc_stranded | `Apc_stranded.cfg` | CallerEventuallySignaled under `FairSpec` | **violation** |
| record | `Record.cfg` | TypeOK, ContextOnlyInHandler, LiveTaskFindsItsThread, SuspendedThreadStops under `FairSpec` | pass, about 12k states |
| record_hash | `Record_hash.cfg` | HashWalksValidMemory | **violation** |

What the properties say:

- **WaitQueuesConsistent.** Queue entries and frames are in one-to-one correspondence, through nesting, timeouts and kills.
- **NoLostWakeup.** After every step, no head frame is left that `check_wait` would answer, except an expired one whose timer is still armed.
- **WakeupsMatchBlockedSelects.** Every wakeup in a pipe answers one pending select of the client and no select gets two. The kill wakeup (cookie 0) is the exception.
- **TerminatedQuiescent.** A terminated thread keeps no frame, queue entry or queued APC.
- **ExpiredWaitsEnd.** An expired frame is eventually unwound unless the thread is suspended. This includes frames whose timer `thread_timeout` dropped.
- **FdOwnedOnce.** A server fd held by a table slot or an fd object is open, and has exactly one holder.
- **CacheRefinement.** Each thread's table implements `InflightCache`.
- **TypeOK (ThreadInfo).** A priority is always one of the process class's range, IDLE or TIME_CRITICAL. This is checked against an independent table of the class ranges.
- **ThreadAffinityEnforced** and **AffinityReadBack** (no run; findings 8 and 9). An initialised running thread runs exactly on the online CPUs of its stored affinity, and converting `get_thread_affinity`'s mask back to CPUs gives the set the thread runs on. The code breaks both, and neither holds once the bounds reach the failing case, so they are kept only as the reproductions of findings 8 and 9, not as passing checks.
- **RefcountMatchesHolders.** A live APC's reference count equals its handles plus its queue links, and a freed APC has neither. No handler touches a freed APC.
- **OneQueuedApcPerOwner.** A thread never has two queued APCs of one async owner.
- **CallerEventuallySignaled.** While the caller of a cross-process APC is running and holds its handle, the APC is eventually executed, which signals the handle, or the caller stops running.
- **ContextOnlyInHandler.** A running thread has a context only while its client is inside the SIGUSR1 handler, and that context is the suspend context.
- **LiveTaskFindsItsThread.** A hashed running thread is what `find_thread_by_pid` returns for its pid, even when another pid shares its bucket.
- **SuspendedThreadStops.** An initialised thread that stays suspended eventually stops in its handler. This holds through every order of suspend, resume, context requests and creation.
- **HashWalksValidMemory.** No pid-hash walk reads a freed or poisoned node.

Each property of a passing run is also checked against a mutant of the code, listed in `PROJECT.json`. The mutants are:
- an off-by-one on the suspend limit;
- `end_wait` unlinking all of a thread's entries;
- `resume_thread` without its wake;
- `queue_apc` without the wake, or without the TERMINATED test;
- `wake_thread` using the outer frame's cookie, or answering only one frame;
- the in-flight lookup resetting only the slot's client;
- `cleanup_thread` closing the cached fds without freeing their slots;
- `thread_add_inflight_fd` without its search for the same client number;
- the priority test without its lower bound;
- `suspend_thread` without its limit;
- `get_suspend_context` keeping the context, or not stopping the thread again;
- `add_thread_by_pid` appending instead of prepending;
- `queue_apc` linking an APC without grabbing it;
- `select` forgetting to drop the reported APC;
- `queue_apc` without the owner's cancel.

TLC finds each mutant's property violated.

### Findings (violation runs)

1. **Self-wake with an unset cookie** (`thread.c:895`, `916`, `820`).
   - Thread A has a client that is gone and waits on event E. Thread B calls select with `signal = E` and waits on A.
   - Setting E runs `wake_thread(A)`. The write fails, so `kill_thread(A)` runs, and its `uk_wake_up` on A wakes B's own new frame.
   - That frame's cookie is stored only at line 916, so B is sent a wakeup with an unset cookie. `select_on` also replies STATUS_WAIT_0 directly.
   - B's client gets two answers to one select.
2. **Timer left on a freed frame** (`thread.c:895`, `909`).
   - In a nested select, the signal step can end the new inner frame. The check at line 895 only tests that `current_thread->wait` is non-NULL, so `select_on` continues with the outer frame.
   - `add_timeout_user` then overwrites the outer frame's `wait->user` and cookie.
   - `end_wait` removes only the newer timer. The older one fires on freed memory.
3. **Use-after-free in `uk_wake_up`** (`thread.c:944`, `823`).
   - `wake_thread` returns 0 when its first wakeup fails with EPIPE, even though `kill_thread` has already freed the frame and its queue entries.
   - `uk_wake_up` takes 0 as "not woken" and continues from the freed entry.

4. **A cross-process APC whose caller is never signalled** (`thread.c:1565`, `1082`; run apc_stranded).
   - `select` hands the client an APC, and only the client's next select marks it executed.
   - If the thread is killed first, `kill_thread`'s `clear_apc_queue` marks only the APCs still queued. Nothing marks the handed-out APC executed.
   - If `alloc_handle` fails for `reply->apc_handle`, `select` releases the dequeued APC without marking it executed.
   - Either way, the caller in another process waits forever on its handle. This happens under `FairSpec`, where the target's client always fetches and reports its APCs.
   - TLC's trace is the kill path: c1 queues a system APC to process P2, t1's select hands it to its client, and t1 is killed while c1 keeps running. c1 never sees its handle signalled. With `Kill` taken out of `Next`, TLC reports the `alloc_handle` path instead.
   - `WaitEngine` shows the kill path too: `Wait_apc.cfg` with `SPECIFICATION ApcFairSpec` and `PROPERTY DeliveredApcsExecuted` is violated.
5. **A fd received into a full table leaks** (`thread.c:1118`). This is not a separate run. To reproduce it, run `Fds_user.cfg` with `Terminates = FALSE` and check NoFdLeak (every open server fd has a holder).
   - `thread_add_inflight_fd` closes the fd when the client number is -1, but not when the table is full.
   - Both cases return -1, so the caller cannot handle both correctly.
   - A client that sends three fds before asking for them leaves the third open with no holder.
6. **`new_thread` leaks the request fd of a terminating process** (`thread.c:330`, `1315`). This is not a separate run. To reproduce it, run `Fds_user.cfg` with `ClientFds = {5, 6}` and check NoFdLeak: the table then never fills, and NoFdLeak's trace is this leak.
   - The fd is already out of the table when `create_thread` refuses, and neither function closes it.
7. **Double close in the unified-kernel build** (`thread.c:1144`, `1412`). This is not a separate run. To reproduce it, run `Fds_user.cfg` with `UNIFIED_KERNEL = TRUE` and `Terminates = FALSE`, and check FdOwnedOnce.
   - `thread_get_inflight_fd` both caches and returns the dup of a missing fd.
   - When `init_thread`'s second lookup fails (no fd number left), its error label closes the reply fd while the table still holds it.
   - `cleanup_thread` closes that number again later, possibly after it was reused.
   - The same path leaks the fd a hit hands out: neither `new_thread` nor `init_thread` keeps it in that build.

8. **A stored affinity the thread does not run on** (`thread.c:1400`, `624`, `573`). This is not a separate run. To reproduce it, add 0 to `Masks` in `Info_affinity.cfg` and check ThreadAffinityEnforced.
   - Before `init_thread`, `set_thread_info` stores any mask that is a subset of the process's mask, including 0, because `set_thread_affinity` has no unix tid to apply it to.
   - `init_thread` then applies it. The kernel refuses an empty set, and `init_thread` ignores the error.
   - The thread keeps running on its inherited CPUs while `thread->affinity` says 0.
9. **`1 << i` in `get_thread_affinity`** (`thread.c:592`). This is not a separate run. To reproduce it, run `Info_affinity.cfg` with `NCPUS = 4` and check AffinityReadBack.
   - The loop runs to the width of `affinity_t`, but `1 << i` is an int shift.
   - If `affinity_t` is wider than int, the shift is undefined from CPU 31 on. Its type is not in this repository. On x86 the shift sets CPUs that the thread may not use.
   - TLC's trace is a first thread without a parent, on CPU 3 of 4 (scaled). The mask it reads back also claims CPUs 4 and 5, which becomes the process affinity.
10. **`remove_thread_by_pid` walks through the node it unlinked** (`thread.c:127`, `132`, `428`; run record_hash).
   - The loop does not break after `hlist_del`. `hlist_for_each_entry`'s advance, `pos = pos->next` at line 127, then reads the next field of the node just unlinked, which `hlist_del` set to `LIST_POISON1`. This happens on every successful removal. A fault there leaves `thread_hash_lock` held for writing.
   - TLC's trace: a thread is hashed, killed, and destroyed by its own task.
   - Behind it is a second path. `destroy_thread` removes by `current->pid`. When another task drops the last reference, the pid does not match, so the freed thread stays in its bucket. The next lookup of a pid in that bucket reads freed memory. TLC reports this path under the same property once the loop breaks after the match.

A further point is not recorded as a finding. Spec scenario 5 shows the kill wakeup as `{cookie: X, ...}`, but `kill_thread` sends cookie 0 (line 1192). The model follows the code and treats 0 as the client's kill sentinel.

## Bounds and fairness

| Bound | Value | Reason |
|---|---|---|
| Threads | 2 | One to wait, one to signal, terminate or suspend. |
| Events | 1, auto-reset | Gives both `satisfied` paths and the `max = 1` path of `uk_wake_up`. |
| APCs | 2 (one user, one system) | Used only in wait_apc. |
| `MaxDepth` | 2 | One nested select, enough for every frame-stack hazard. |
| `MaxTime` | 1 (0 in wait_apc) | One tick expires every relative timeout used. wait_apc keeps the clock at 0, so only the nested zero timeout expires there; timers against APCs are covered by the other runs. |
| `MAXIMUM_SUSPEND_COUNT` | 1 | Reaches the limit. |
| `MAXIMUM_WAIT_OBJECTS` | 2 | A 3-object request exercises the INVALID_PARAMETER path. |

The request sets are chosen so that each run reaches its scenario:
- WAIT_ALL over a thread and an event;
- an alertable wait;
- a zero timeout;
- a duplicated handle;
- signal-and-wait;
- the client's nested `wait_suspend`, which is INTERRUPTIBLE with timeout 0.

The `InflightFds` runs use two threads (the first and one created), client fd numbers {5, 6, 7} against a table of 2 slots (so the table fills), four server fds (so `dup` can fail in the unified-kernel build), and at most 2 fds pending on the socket (so a lookup reads a batch). A third thread makes fds_user take more than 4 minutes when TLC also collects coverage, and adds no new fd path.

The `ThreadInfo` runs use two threads (the first and one created), process masks {3, 7}, request masks {1, 6}, and priorities {-3, 2, 6}: invalid, a class bound, and realtime-only. info_affinity checks only TypeOK. Request mask 0 reaches the refused mask of finding 8, and four CPUs reach the undefined shift of finding 9, so the two affinity properties are reproductions, not passing checks. A third thread takes TLC about 5 minutes and reaches no new path, since threads share only the process mask.

The `ApcObject` runs use a caller process P1 with thread c1 and a target process P2 with threads t1 and t2. With two target threads, `queue_apc` has a choice of thread, and one can be killed while the other lives. The APCs are one of each kind (NONE, USER, system), plus two async APCs of one owner, so an owner's APC is replaced. apc_stranded keeps only c1, t1, the USER APC and the system APC, which is enough for both lost paths.

The `ThreadRecord` runs use two threads, pids {1, 3} in a hash of 2 buckets (so both pids collide and the order inside a bucket matters), and a suspend limit of 1. Two threads give every cross-thread order: one suspends, destroys or looks up the other.

`ThreadRecord`'s `FairSpec` makes the client's three handler steps weakly fair. A client that has taken SIGUSR1 runs its handler: the kernel delivers a pending signal to a running task, and the handler's requests are synchronous. Server requests from other clients get no fairness.

`FairSpec` in `WaitEngine` makes `Timeout` weakly fair, because the server's main loop always runs expired timeout users. Client requests, the clock, client death and pipe reads get no fairness, because they are the environment. `ApcFairSpec` adds one client assumption: a live client that holds an APC eventually runs it and sends its next select. This is the client library's select loop, and it is the most the server may count on.

`ApcObject`'s `FairSpec` makes the same assumption, plus one more. A live thread with a queued system APC eventually makes an INTERRUPTIBLE select. `queue_apc` sends SIGUSR1 to a thread that is not in an APC wait, and the client's signal handler makes that select. Neither assumption promises that `alloc_handle` finds room.

## Not modelled, and the plan

The following are out of scope because their code is not in the repository or they are pure I/O:
- process-level suspend;
- mutex abandonment in `kill_thread`;
- the console and debugger steps;
- the buffer, window and desktop releases of `cleanup_thread` (the fd releases are in `InflightFds`);
- the `CONFIG_UNIFIED_KERNEL` completion-based wakeup.

Also not modelled:
- the teb, cpu and process setup of `init_thread`, which only store client data;
- `alloc_ptid` and memory failures in `create_thread`;
- register contents of contexts, `break_thread` and the debugger's contexts;
- `is_process_init_done` in `stop_thread` (process.c), so models start after process initialisation;
- the callers of `find_thread_by_pid`, whose reference handling is not in the repository;
- APC call data and results: `APC_CREATE_THREAD`'s handle transfer to the caller, `APC_MAP_VIEW`'s handle duplication (only its failure, which queues nothing, is modelled), and `async_set_result` (async.c);
- the references an APC holds on its caller thread and owner object, which `thread_apc_destroy` drops.

Planned modules, in order:
1. An abstract wait specification (a select returns once, with a legal status), shown to be implemented by `WaitEngine` with `INSTANCE ... WITH`.
2. The token part of `set_thread_info` (security.c).
