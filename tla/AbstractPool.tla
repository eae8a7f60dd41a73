---------------------------- MODULE AbstractPool ----------------------------
(***************************************************************************)
(* What a connection pool of QuickChat promises its callers, without locks,*)
(* condition variables or queues: a connection is either free or owned by  *)
(* exactly one user, a user owns at most one, a free connection is handed  *)
(* out only while the pool is open, and a connection leaves circulation    *)
(* only when the pool has been stopped (or, in a pool whose callers forget *)
(* connections, at any time: Leaky).                                       *)
(* The pools of RPConPool.h, RedisMgr.cpp and MysqlDao.cpp are shown to    *)
(* implement this module.                                                  *)
(***************************************************************************)
EXTENDS Naturals

CONSTANTS Users,      \* the threads that use the pool
          Conns,      \* the connections the constructor may open
          NoConn,     \* "owns nothing"
          Leaky       \* may a user forget a connection while the pool is open?

VARIABLES free,       \* connections in the pool
          owner,      \* user -> connection it owns, or NoConn
          stopped     \* the pool was closed

apVars == <<free, owner, stopped>>

Init == /\ free \subseteq Conns
        /\ owner = [u \in Users |-> NoConn]
        /\ stopped = FALSE

(* Hand a free connection to a user that owns none. *)
Acquire(u) == \E c \in free :
                /\ ~stopped
                /\ owner[u] = NoConn
                /\ free' = free \ {c}
                /\ owner' = [owner EXCEPT ![u] = c]
                /\ UNCHANGED stopped

(* The user gives its connection back. *)
Release(u) == /\ owner[u] # NoConn
              /\ free' = free \cup {owner[u]}
              /\ owner' = [owner EXCEPT ![u] = NoConn]
              /\ UNCHANGED stopped

(* The connection of a user leaves circulation. *)
Drop(u) == /\ stopped \/ Leaky
           /\ owner[u] # NoConn
           /\ owner' = [owner EXCEPT ![u] = NoConn]
           /\ UNCHANGED <<free, stopped>>

(* The pool closes; the connections it still holds may be destroyed now or *)
(* later.                                                                  *)
Stop == /\ stopped' = TRUE
        /\ free' \in {free, {}}
        /\ UNCHANGED owner

Next == \/ \E u \in Users : Acquire(u) \/ Release(u) \/ Drop(u)
        \/ Stop

Spec == Init /\ [][Next]_apVars
=============================================================================
