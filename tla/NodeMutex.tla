----------------------------- MODULE NodeMutex -----------------------------
(***************************************************************************)
(* What module Controller takes a node's mutex to be: a variable that one  *)
(* worker at a time sets and only that worker clears.  When the process    *)
(* ends all mutexes are free.                                              *)
(***************************************************************************)
CONSTANTS Nodes, Workers, None

VARIABLE lock

MutexInit == lock = [n \in Nodes |-> None]

Acquire(w, n) ==
    /\ lock[n] = None
    /\ lock' = [lock EXCEPT ![n] = w]

Release(w, n) ==
    /\ lock[n] = w
    /\ lock' = [lock EXCEPT ![n] = None]

MutexNext ==
    \/ \E w \in Workers, n \in Nodes : Acquire(w, n) \/ Release(w, n)
    \/ lock' = [n \in Nodes |-> None]

MutexSpec == MutexInit /\ [][MutexNext]_lock
=============================================================================
