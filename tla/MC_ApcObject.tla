---------------------------- MODULE MC_ApcObject ----------------------------
(* Instances of ApcObject for TLC: a caller process P1 with thread c1, a  *)
(* target process P2 with threads t1 and t2, an APC of each kind, and two *)
(* APCs of one async owner.  The functions are defined over whichever of  *)
(* these a cfg uses.                                                       *)
EXTENDS ApcObject

CONSTANTS P1, P2, c1, t1, t2, a0, a1, a2, a3, a4, o1

MC_ProcOf == [t \in Threads |-> IF t = c1 THEN P1 ELSE P2]

MC_Kind == [a \in Apcs |-> CASE a = a0 -> "NONE"
                             [] a = a1 -> "USER"
                             [] a = a2 -> "SYS"
                             [] OTHER  -> "ASYNC"]

MC_Owner == [a \in Apcs |-> IF a \in {a3, a4} THEN o1 ELSE NoOwner]
====
