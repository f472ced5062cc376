--------------------------- MODULE ConnAllocator ---------------------------
(***************************************************************************)
(* What the pool of database connections promises to the threads of a      *)
(* VISHNU server: a connection handed out by getConnection is used by      *)
(* nobody else until it is released.  How a free connection is found is    *)
(* left to the implementation (module ConnPool).                           *)
(***************************************************************************)
EXTENDS Naturals

CONSTANTS Threads,   \* the threads that call process, getResult, escapeData...
          PoolSize   \* DbConfiguration::mdbPoolSize

Conns == 0 .. PoolSize - 1

VARIABLE inUse       \* inUse[t]: the connections thread t may talk through

Init == inUse = [t \in Threads |-> {}]

\* A connection nobody uses is given to t.
Grant(t) ==
  \E c \in Conns :
     /\ \A u \in Threads : c \notin inUse[u]
     /\ inUse' = [inUse EXCEPT ![t] = @ \cup {c}]

\* Thread t gives one of its connections back.
Release(t) ==
  \E c \in inUse[t] : inUse' = [inUse EXCEPT ![t] = @ \ {c}]

Next == \E t \in Threads : Grant(t) \/ Release(t)

Spec == Init /\ [][Next]_inUse
=============================================================================
