----------------------------- MODULE InflightFds -----------------------------
(***************************************************************************)
(* The file descriptors of the thread subsystem                           *)
(* (src/server_module/thread.c): each thread's in-flight fd table, the    *)
(* fds a client passes over its process socket, and the handlers that     *)
(* take them out of the table and hand them to fd objects: new_thread     *)
(* (with create_thread), init_thread, and cleanup_thread when a thread is *)
(* killed.  Both builds are modelled: in the user-space build a missing   *)
(* fd is looked for in the socket (receive_fd); under                     *)
(* CONFIG_UNIFIED_KERNEL it is dup'ed and cached.                         *)
(*                                                                         *)
(* As in WaitEngine, every handler is one atomic action and its helpers   *)
(* are operators from a state record to a result record.  A server fd is  *)
(* the lowest free number of FdNums, as open/dup/recvmsg allocate it, so  *)
(* a closed number is reused.                                             *)
(***************************************************************************)
EXTENDS Integers, SequencesExt

CONSTANTS
    Threads,          \* thread objects (model values)
    FirstThread,      \* the thread create_process made, running from the start
    ClientFds,        \* fd numbers a client sends (small integers)
    FdNums,           \* the server's fd numbers (small integers)
    MAX_INFLIGHT_FDS, \* slots of a thread's in-flight table
    UNIFIED_KERNEL,   \* TRUE for the CONFIG_UNIFIED_KERNEL build
    Terminates,       \* whether the process may start terminating
    MaxPending        \* bound: fds sent and not yet received

NoFd == -1
Slots == 1..MAX_INFLIGHT_FDS
FdKinds == {"request", "reply", "wait"}
FreeSlot == [client |-> NoFd, server |-> NoFd]

ASSUME /\ FirstThread \in Threads
       /\ NoFd \notin ClientFds \cup FdNums

VARIABLES
    state,       \* [Threads -> {"none", "running", "terminated"}]
    fdobj,       \* [Threads -> [FdKinds -> fd]]: request_fd, reply_fd, wait_fd
    inflight,    \* [Threads -> [Slots -> [client, server]]]
    open,        \* the server's open fds
    sock,        \* Seq([t, c]): fds the client sent, not yet received
    terminating  \* process->is_terminating

vars == <<state, fdobj, inflight, open, sock, terminating>>

Srv == [state |-> state, fdobj |-> fdobj, inflight |-> inflight,
        open |-> open, sock |-> sock]

Commit(s) == /\ state' = s.state /\ fdobj' = s.fdobj /\ inflight' = s.inflight
             /\ open' = s.open /\ sock' = s.sock

Close(s, f) == [s EXCEPT !.open = @ \ {f}]

(* The fd that open, dup or recvmsg would return; none when all are open. *)
CanOpen(s) == ~(FdNums \subseteq s.open)
Lowest(s) == Min(FdNums \ s.open)
OpenFd(s) == [s EXCEPT !.open = @ \cup {Lowest(s)}]

Cached(s, t) == {i \in Slots : s.inflight[t][i].client # NoFd}
SlotsOf(s, t, client) == {i \in Slots : s.inflight[t][i].client = client}

-----------------------------------------------------------------------------
(* The in-flight table.                                                    *)

(* Variant: a new fd takes a free slot without looking for an entry of   *)
(* the same client number first.                                         *)
AddInflightFdNoDupCheck(s, t, client, server) ==
    IF server = NoFd THEN [ret |-> -1, s |-> s]
    ELSE IF client = NoFd THEN [ret |-> -1, s |-> Close(s, server)]
    ELSE IF SlotsOf(s, t, NoFd) # {}
         THEN LET i == Min(SlotsOf(s, t, NoFd))
              IN [ret |-> i,
                  s |-> [s EXCEPT !.inflight[t][i] =
                                    [client |-> client, server |-> server]]]
    ELSE [ret |-> -1, s |-> s]

(* thread_add_inflight_fd: store server for client; the slot or -1. *)
AddInflightFd(s, t, client, server) ==
    IF server = NoFd THEN [ret |-> -1, s |-> s]
    ELSE IF client = NoFd THEN [ret |-> -1, s |-> Close(s, server)]
    ELSE IF SlotsOf(s, t, client) # {}
         THEN LET i == Min(SlotsOf(s, t, client))
              IN [ret |-> i,
                  s |-> [Close(s, s.inflight[t][i].server)
                           EXCEPT !.inflight[t][i].server = server]]
    ELSE IF SlotsOf(s, t, NoFd) # {}
         THEN LET i == Min(SlotsOf(s, t, NoFd))
              IN [ret |-> i,
                  s |-> [s EXCEPT !.inflight[t][i] =
                                    [client |-> client, server |-> server]]]
    ELSE [ret |-> -1, s |-> s]

(* receive_fd (request.c): take one fd message off the process socket.    *)
(* The fd is closed when its thread is gone; otherwise it is handed to    *)
(* thread_add_inflight_fd, whose result is not looked at.  When no fd     *)
(* number is free, recvmsg cannot install the fd and the message is lost. *)
ReceiveOne(s) ==
    LET m == Head(s.sock)
        s1 == [s EXCEPT !.sock = Tail(@)]
    IN IF ~CanOpen(s1) THEN s1
       ELSE IF s1.state[m.t] # "running" THEN Close(OpenFd(s1), Lowest(s1))
       ELSE (AddInflightFd(OpenFd(s1), m.t, m.c, Lowest(s1))).s

(* Variant: only the slot's client number is reset. *)
PurgeClientOnly(s, t, i) ==
    [ret |-> s.inflight[t][i].server,
     s |-> [s EXCEPT !.inflight[t][i].client = NoFd]]

(* The slot's fd is handed out and the slot freed. *)
Purge(s, t, i) ==
    [ret |-> s.inflight[t][i].server,
     s |-> [s EXCEPT !.inflight[t][i] = FreeSlot]]

(* thread_get_inflight_fd, user-space build: look in the table, and read  *)
(* the socket while the fd is not there and a message is pending.         *)
RECURSIVE GetInflightFdUser(_, _, _)
GetInflightFdUser(s, t, client) ==
    IF client = NoFd THEN [ret |-> -1, s |-> s]
    ELSE IF SlotsOf(s, t, client) # {} THEN Purge(s, t, Min(SlotsOf(s, t, client)))
    ELSE IF s.sock = <<>> THEN [ret |-> -1, s |-> s]
    ELSE GetInflightFdUser(ReceiveOne(s), t, client)

(* thread_get_inflight_fd, CONFIG_UNIFIED_KERNEL build: look in the       *)
(* table; otherwise dup the client's fd, cache the dup, and return it.    *)
GetInflightFdUK(s, t, client) ==
    IF client = NoFd THEN [ret |-> -1, s |-> s]
    ELSE IF SlotsOf(s, t, client) # {} THEN Purge(s, t, Min(SlotsOf(s, t, client)))
    ELSE IF ~CanOpen(s) THEN [ret |-> -1, s |-> s]
    ELSE [ret |-> Lowest(s),
          s |-> (AddInflightFd(OpenFd(s), t, client, Lowest(s))).s]

ThreadGetInflightFd(s, t, client) ==
    IF UNIFIED_KERNEL THEN GetInflightFdUK(s, t, client)
    ELSE GetInflightFdUser(s, t, client)

(* Variant: the cached fds are closed but their slots kept. *)
CleanupThreadKeepSlots(s, t) ==
    LET owned == {s.fdobj[t][k] : k \in FdKinds} \ {NoFd}
        cached == {s.inflight[t][i].server : i \in Cached(s, t)}
    IN [s EXCEPT !.open = @ \ (owned \cup cached),
                 !.fdobj[t] = [k \in FdKinds |-> NoFd]]

(* The fd part of cleanup_thread: release the three fd objects and close  *)
(* every cached fd.                                                       *)
CleanupThread(s, t) ==
    LET owned == {s.fdobj[t][k] : k \in FdKinds} \ {NoFd}
        cached == {s.inflight[t][i].server : i \in Cached(s, t)}
    IN [s EXCEPT !.open = @ \ (owned \cup cached),
                 !.fdobj[t] = [k \in FdKinds |-> NoFd],
                 !.inflight[t] = [i \in Slots |-> FreeSlot]]

(* kill_thread, as far as fds go. *)
KillThread(s, t) ==
    IF s.state[t] = "terminated" THEN s
    ELSE [CleanupThread(s, t) EXCEPT !.state[t] = "terminated"]

-----------------------------------------------------------------------------
(* Handlers.                                                               *)

(* create_thread: refused while the process terminates; the user-space    *)
(* build wraps fd in the new thread's request fd object, the              *)
(* unified-kernel build has none.                                         *)
CreateThread(s, n, fd) ==
    IF terminating THEN s
    ELSE [s EXCEPT !.state[n] = "running",
                   !.fdobj[n].request = IF UNIFIED_KERNEL THEN NoFd ELSE fd]

(* alloc_handle for the new thread; when it fails the thread is killed. *)
AllocHandle(s, n, ok) ==
    IF s.state[n] = "running" /\ ~ok THEN KillThread(s, n) ELSE s

(* The rest of new_thread, given the result r of thread_get_inflight_fd. *)
NewThreadWith(r, n, handleOk) ==
    IF ~UNIFIED_KERNEL /\ r.ret = -1 THEN r.s
    ELSE AllocHandle(CreateThread(r.s, n, r.ret), n, handleOk)

NewThread(t, n, c, handleOk) ==
    /\ state[t] = "running"
    /\ state[n] = "none"
    /\ Commit(NewThreadWith(ThreadGetInflightFd(Srv, t, c), n, handleOk))
    /\ UNCHANGED terminating

(* The error label of init_thread. *)
InitThreadError(s, reply_fd, wait_fd) ==
    LET s1 == IF reply_fd # NoFd THEN Close(s, reply_fd) ELSE s
    IN IF wait_fd # NoFd THEN Close(s1, wait_fd) ELSE s1

(* init_thread after both fds are taken: refused when already initialised; *)
(* the user-space build wraps them in the reply and wait fd objects.  The  *)
(* teb and cpu checks that follow return without touching an fd.           *)
InitThreadWait(reply_fd, r2, t) ==
    IF r2.ret = -1 THEN InitThreadError(r2.s, reply_fd, NoFd)
    ELSE IF r2.s.fdobj[t].reply # NoFd THEN InitThreadError(r2.s, reply_fd, r2.ret)
    ELSE IF UNIFIED_KERNEL THEN r2.s
    ELSE [r2.s EXCEPT !.fdobj[t].reply = reply_fd, !.fdobj[t].wait = r2.ret]

InitThreadReply(r1, t, wait) ==
    IF r1.ret = -1 THEN r1.s
    ELSE InitThreadWait(r1.ret, ThreadGetInflightFd(r1.s, t, wait), t)

InitThread(t, reply, wait) ==
    /\ state[t] = "running"
    /\ reply # wait
    /\ Commit(InitThreadReply(ThreadGetInflightFd(Srv, t, reply), t, wait))
    /\ UNCHANGED terminating

(* kill_thread, from terminate_thread or a POLLHUP on the request fd. *)
Kill(t) ==
    /\ state[t] = "running"
    /\ Commit(KillThread(Srv, t))
    /\ UNCHANGED terminating

(* The process socket became readable: receive_fd. *)
ReceiveFd ==
    /\ ~UNIFIED_KERNEL
    /\ sock # <<>>
    /\ Commit(ReceiveOne(Srv))
    /\ UNCHANGED terminating

(* Environment: the client of t sends fd number c over the process        *)
(* socket (user-space build only; the unified kernel has no socket).      *)
SendFd(t, c) ==
    /\ ~UNIFIED_KERNEL
    /\ state[t] = "running"
    /\ Len(sock) < MaxPending
    /\ sock' = Append(sock, [t |-> t, c |-> c])
    /\ UNCHANGED <<state, fdobj, inflight, open, terminating>>

(* Environment: terminate_process (process.c) on behalf of t marks the    *)
(* process terminating and kills every other thread.                      *)
ProcessTerminates(t) ==
    /\ Terminates
    /\ ~terminating
    /\ state[t] = "running"
    /\ terminating' = TRUE
    /\ Commit(FoldSet(LAMBDA u, acc : KillThread(acc, u), Srv,
                      {u \in Threads \ {t} : state[u] = "running"}))

Init ==
    /\ state = [t \in Threads |-> IF t = FirstThread THEN "running" ELSE "none"]
    /\ open = IF UNIFIED_KERNEL THEN {} ELSE {Min(FdNums)}
    /\ fdobj = [t \in Threads |->
                 [k \in FdKinds |->
                   IF t = FirstThread /\ k = "request" /\ ~UNIFIED_KERNEL
                   THEN Min(FdNums) ELSE NoFd]]
    /\ inflight = [t \in Threads |-> [i \in Slots |-> FreeSlot]]
    /\ sock = <<>>
    /\ terminating = FALSE

Next ==
    \/ \E t, n \in Threads, c \in ClientFds, ok \in BOOLEAN : NewThread(t, n, c, ok)
    \/ \E t \in Threads, reply, wait \in ClientFds : InitThread(t, reply, wait)
    \/ \E t \in Threads : Kill(t)
    \/ ReceiveFd
    \/ \E t \in Threads, c \in ClientFds : SendFd(t, c)
    \/ \E t \in Threads : ProcessTerminates(t)

Spec == Init /\ [][Next]_vars

-----------------------------------------------------------------------------
(* Properties.                                                             *)

Fd == FdNums \cup {NoFd}

(* Types, and a table slot is free in both its fields or in neither, as   *)
(* thread_get_inflight_fd and cleanup_thread reset them together.         *)
TypeOK ==
    /\ state \in [Threads -> {"none", "running", "terminated"}]
    /\ fdobj \in [Threads -> [FdKinds -> Fd]]
    /\ inflight \in [Threads -> [Slots -> [client : ClientFds \cup {NoFd}, server : Fd]]]
    /\ open \subseteq FdNums
    /\ sock \in Seq([t : Threads, c : ClientFds])
    /\ terminating \in BOOLEAN
    /\ \A t \in Threads, i \in Slots :
         (inflight[t][i].client = NoFd) = (inflight[t][i].server = NoFd)

(* Who holds server fd f: a thread's fd object, or a used table slot. *)
Owners(f) ==
    {<<t, k>> \in Threads \X FdKinds : fdobj[t][k] = f}
    \cup {<<t, i>> \in Threads \X Slots : i \in Cached(Srv, t) /\ inflight[t][i].server = f}

(* An fd held by the table or an fd object is open, and held only once:   *)
(* thread_get_inflight_fd hands a slot's fd out only by freeing the slot, *)
(* thread_add_inflight_fd closes the fd it replaces, cleanup_thread frees *)
(* what it closes, and init_thread closes only fds it took.  Otherwise a  *)
(* later close hits a number reused by another owner.                     *)
FdOwnedOnce ==
    \A f \in FdNums : Owners(f) # {} => (f \in open /\ Cardinality(Owners(f)) = 1)

(* Every open server fd is held by the table or by an fd object: no       *)
(* handler drops an fd it received without closing it.                    *)
NoFdLeak == \A f \in open : Owners(f) # {}

(* Each thread's table behaves as the abstract cache of InflightCache:   *)
(* one entry per client number, at most MAX_INFLIGHT_FDS of them, updated *)
(* only by storing received fds in order, handing one out, or clearing.   *)
CacheOf == [t \in Threads |->
              {[c |-> inflight[t][i].client, f |-> inflight[t][i].server] :
                 i \in Cached(Srv, t)}]

Abs == INSTANCE InflightCache
         WITH Clients <- ClientFds, Files <- FdNums,
              Capacity <- MAX_INFLIGHT_FDS, MaxBatch <- MaxPending,
              cache <- CacheOf

CacheRefinement == Abs!Spec

=============================================================================
