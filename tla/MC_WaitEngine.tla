---------------------------- MODULE MC_WaitEngine ----------------------------
(***************************************************************************)
(* Instantiation of WaitEngine for TLC: two threads of one process, one    *)
(* auto-reset event, a user APC and a system APC.                          *)
(***************************************************************************)
EXTENDS WaitEngine

CONSTANTS t1, t2, e1, a1, a2

MC_Threads == {t1, t2}
MC_ThreadOrder == <<t1, t2>>
MC_Events == {e1}
MC_Apcs == {a1, a2}
MC_ApcType == [a \in MC_Apcs |-> IF a = a1 THEN "USER" ELSE "SYS"]
MC_NoApcType == [a \in {} |-> "USER"]

(* Requests of a running client.  timeout: TIMEOUT_INFINITE, 0 (poll) or *)
(* -1 (one tick from now); flags as SELECT_ALL/INTERRUPTIBLE/ALERTABLE.   *)
Req(objs, flags, timeout, signal) ==
    [objs |-> objs, flags |-> flags, timeout |-> timeout, signal |-> signal]

(* WaitForSingleObject(e1), alertable with a timeout, WaitForMultiple on  *)
(* the event and the other thread (all), and SignalObjectAndWait that     *)
(* signals e1 and waits on t2, plus a count over the limit.               *)
MC_Requests ==
    { Req(<<e1>>, {}, 1000, NoSignal),
      Req(<<e1, t2>>, {"ALERTABLE"}, -1, NoSignal),
      Req(<<t2, e1>>, {"ALL"}, 1000, NoSignal),
      Req(<<t2>>, {}, 1000, e1),
      Req(<<e1, e1, e1>>, {}, 0, NoSignal) }

(* The same waits without the signal step of select. *)
MC_PlainRequests == {r \in MC_Requests : r.signal = NoSignal}

(* Waits of the APC run: an interruptible alertable wait with a timeout  *)
(* (ntdll's alertable NtWaitForSingleObject) and a plain infinite wait.   *)
MC_ApcRequests ==
    { Req(<<e1>>, {"INTERRUPTIBLE", "ALERTABLE"}, -1, NoSignal),
      Req(<<e1>>, {}, 1000, NoSignal) }

(* The liveness run: a wait on the event that times out one tick later. *)
MC_TimedRequests == { Req(<<e1>>, {"INTERRUPTIBLE"}, -1, NoSignal) }

(* The signal handler's wait_suspend: interruptible, no handle, timeout 0. *)
MC_NestedRequests == { Req(<<>>, {"INTERRUPTIBLE"}, 0, NoSignal) }

(* A client that sends SignalObjectAndWait while a select is pending. *)
MC_NestedSignalRequests == MC_NestedRequests \cup { Req(<<e1>>, {}, -1, e1) }

=============================================================================
