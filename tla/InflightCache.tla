---------------------------- MODULE InflightCache ----------------------------
(***************************************************************************)
(* What each thread's in-flight fd table promises, without its slots: a   *)
(* map from a client fd number to the server fd received for it, holding  *)
(* at most Capacity numbers.  A step may store a batch of received fds,   *)
(* each replacing the entry for its number or adding one, and may then    *)
(* hand out and remove the entry for one number; a dying thread's map is  *)
(* emptied.  The batch is what one server step reads from the process     *)
(* socket.  InflightFds implements this specification (CacheRefinement).  *)
(***************************************************************************)
EXTENDS Naturals, FiniteSets

CONSTANTS
    Threads,   \* thread objects, each with its own map
    Clients,   \* client fd numbers, the keys
    Files,     \* server fds, the values
    Capacity,  \* the number of keys one map may hold
    MaxBatch   \* bound: pairs stored in one step

VARIABLE cache  \* [Threads -> SUBSET [c : Clients, f : Files]]

Pairs == [c : Clients, f : Files]

Keys(m) == {p.c : p \in m}

TypeOK == cache \in [Threads -> SUBSET Pairs]

Init == cache = [t \in Threads |-> {}]

(* A map holds at most one fd per number. *)
IsMap(m) == Cardinality(Keys(m)) = Cardinality(m)

(* Map m becomes m2 by storing a batch of received pairs: every number    *)
(* keeps an entry, at most MaxBatch entries are new or replaced, and the  *)
(* map stays within its capacity.                                         *)
Receive(m, m2) ==
    /\ IsMap(m2)
    /\ Keys(m) \subseteq Keys(m2)
    /\ Cardinality(m2) <= Capacity
    /\ Cardinality(m2 \ m) <= MaxBatch

(* ... by storing a batch, then handing out the entry of one number. *)
Take(m, m2) ==
    \E p \in Pairs : p.c \notin Keys(m2) /\ Receive(m, m2 \cup {p})

(* ... by forgetting every entry. *)
Clear(m, m2) == m2 = {}

(* In one step each thread's map is left alone or changes in one of the   *)
(* three ways; several threads may change in the same step.               *)
Next == \A t \in Threads :
          \/ cache'[t] = cache[t]
          \/ Receive(cache[t], cache'[t])
          \/ Take(cache[t], cache'[t])
          \/ Clear(cache[t], cache'[t])

Spec == Init /\ [][Next]_cache

=============================================================================
