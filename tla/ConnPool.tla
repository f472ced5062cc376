------------------------------ MODULE ConnPool ------------------------------
(***************************************************************************)
(* The pool of database connections, POSTGREDatabase and MYSQLDatabase     *)
(* (the two getConnection and releaseConnection are the same code).  Each  *)
(* slot of the pool has a flag (mused) that threads read without any lock  *)
(* and a mutex (mmutex) they try to take when the flag is down.            *)
(*                                                                         *)
(* The steps are the accesses to shared memory: reading a flag, trylock,   *)
(* raising the flag, unlocking, lowering the flag.  sleep() changes no     *)
(* state and only delays a thread.  What a thread does with a connection   *)
(* is left open here: it may release it at once (process, getResult,       *)
(* escapeData), or keep it (startTransaction) and release it later or      *)
(* never.  PgTransactions and MySqlTransactions say which.                 *)
(***************************************************************************)
EXTENDS Integers

CONSTANTS Threads,   \* the threads of the server process
          PoolSize,  \* DbConfiguration::mdbPoolSize, never changed after start
          NoThread   \* an unlocked mutex

ASSUME PoolSizeAssumption == PoolSize \in Nat \ {0}
ASSUME NoThreadAssumption == NoThread \notin Threads

Slots == 0 .. PoolSize - 1

VARIABLES mused,   \* mpool[s].mused
          mmutex,  \* who locked mpool[s].mmutex
          pc,      \* where each thread is in getConnection/releaseConnection
          i,       \* the slot it looks at, then the slot it got
          kept     \* slots it locked in a call that returned without unlocking

poolVars == <<mused, mmutex, pc, i, kept>>

PC == {"idle", "scan", "try", "mark", "use", "clear"}

\* The flags, the mutexes, and where every thread is in getConnection and
\* releaseConnection.
TypeOK ==
  /\ mused \in [Slots -> BOOLEAN]
  /\ mmutex \in [Slots -> Threads \cup {NoThread}]
  /\ pc \in [Threads -> PC]
  /\ i \in [Threads -> Slots]
  /\ kept \in [Threads -> SUBSET Slots]

Init ==
  /\ mused = [s \in Slots |-> FALSE]
  /\ mmutex = [s \in Slots |-> NoThread]
  /\ pc = [t \in Threads |-> "idle"]
  /\ i = [t \in Threads |-> 0]
  /\ kept = [t \in Threads |-> {}]

-----------------------------------------------------------------------------
(* getConnection *)

Start(t) ==
  /\ pc[t] = "idle"
  /\ pc' = [pc EXCEPT ![t] = "scan"]
  /\ i' = [i EXCEPT ![t] = 0]
  /\ UNCHANGED <<mused, mmutex, kept>>

\* The flag is up: next slot, back to the first one after the last.
SeeUsed(t) ==
  /\ pc[t] = "scan"
  /\ mused[i[t]]
  /\ i' = [i EXCEPT ![t] = IF @ + 1 = PoolSize THEN 0 ELSE @ + 1]
  /\ UNCHANGED <<mused, mmutex, pc, kept>>

SeeUnused(t) ==
  /\ pc[t] = "scan"
  /\ ~mused[i[t]]
  /\ pc' = [pc EXCEPT ![t] = "try"]
  /\ UNCHANGED <<mused, mmutex, i, kept>>

\* Mutant of TryLock: the result of pthread_mutex_trylock is ignored.
TryLockIgnored(t) ==
  /\ pc[t] = "try"
  /\ mmutex' = [mmutex EXCEPT ![i[t]] = t]
  /\ pc' = [pc EXCEPT ![t] = "mark"]
  /\ UNCHANGED <<mused, i, kept>>

TryLock(t) ==
  /\ pc[t] = "try"
  /\ mmutex[i[t]] = NoThread
  /\ mmutex' = [mmutex EXCEPT ![i[t]] = t]
  /\ pc' = [pc EXCEPT ![t] = "mark"]
  /\ UNCHANGED <<mused, i, kept>>

\* sleep(2) and continue: the loop looks at the SAME slot again.
TryLockFails(t) ==
  /\ pc[t] = "try"
  /\ mmutex[i[t]] # NoThread
  /\ pc' = [pc EXCEPT ![t] = "scan"]
  /\ UNCHANGED <<mused, mmutex, i, kept>>

MarkUsed(t) ==
  /\ pc[t] = "mark"
  /\ mused' = [mused EXCEPT ![i[t]] = TRUE]
  /\ pc' = [pc EXCEPT ![t] = "use"]
  /\ UNCHANGED <<mmutex, i, kept>>

-----------------------------------------------------------------------------
(* releaseConnection: the mutex first, the flag afterwards *)

Unlock(t) ==
  /\ pc[t] = "use"
  /\ mmutex' = [mmutex EXCEPT ![i[t]] = NoThread]
  /\ pc' = [pc EXCEPT ![t] = "clear"]
  /\ UNCHANGED <<mused, i, kept>>

\* Mutant of ClearUsed: the flag stays up.
ClearUsedForgotten(t) ==
  /\ pc[t] = "clear"
  /\ pc' = [pc EXCEPT ![t] = "idle"]
  /\ UNCHANGED <<mused, mmutex, i, kept>>

ClearUsed(t) ==
  /\ pc[t] = "clear"
  /\ mused' = [mused EXCEPT ![i[t]] = FALSE]
  /\ pc' = [pc EXCEPT ![t] = "idle"]
  /\ UNCHANGED <<mmutex, i, kept>>

-----------------------------------------------------------------------------
(* A call that returns, or throws, with its connection still locked, and   *)
(* the later call that releases it.                                        *)

Keep(t) ==
  /\ pc[t] = "use"
  /\ kept' = [kept EXCEPT ![t] = @ \cup {i[t]}]
  /\ pc' = [pc EXCEPT ![t] = "idle"]
  /\ UNCHANGED <<mused, mmutex, i>>

\* Mutant of Resume: the slot can be released a second time.
ResumeAgain(t, s) ==
  /\ pc[t] = "idle"
  /\ s \in kept[t]
  /\ i' = [i EXCEPT ![t] = s]
  /\ pc' = [pc EXCEPT ![t] = "use"]
  /\ UNCHANGED <<mused, mmutex, kept>>

Resume(t, s) ==
  /\ pc[t] = "idle"
  /\ s \in kept[t]
  /\ kept' = [kept EXCEPT ![t] = @ \ {s}]
  /\ i' = [i EXCEPT ![t] = s]
  /\ pc' = [pc EXCEPT ![t] = "use"]
  /\ UNCHANGED <<mused, mmutex>>

-----------------------------------------------------------------------------
Acquiring(t) ==
  \/ SeeUsed(t) \/ SeeUnused(t) \/ TryLock(t) \/ TryLockFails(t) \/ MarkUsed(t)

Releasing(t) == Unlock(t) \/ ClearUsed(t)

Step(t) ==
  \/ Start(t)
  \/ Acquiring(t)
  \/ Releasing(t)
  \/ Keep(t)
  \/ \E s \in Slots : Resume(t, s)

Next == \E t \in Threads : Step(t)

Spec == Init /\ [][Next]_poolVars

-----------------------------------------------------------------------------
(* Properties *)

\* The slots whose connection thread t may talk through.
Held(t) == kept[t] \cup (IF pc[t] \in {"mark", "use"} THEN {i[t]} ELSE {})

\* A connection is never shared: although the flag mused is read without a
\* lock and lowered after the unlock, two threads never run statements on the
\* same PGconn/MYSQL handle (getConnection's mutex is what protects it).
Exclusive ==
  \A t, u \in Threads : t # u => Held(t) \cap Held(u) = {}

\* A thread that may talk through a connection has locked its mutex, and
\* every locked mutex belongs to such a thread: no early return of
\* getConnection or releaseConnection loses a lock.
MutexIffHeld ==
  \A s \in Slots, t \in Threads : mmutex[s] = t <=> s \in Held(t)

\* A slot whose flag is up is in use or is being released by a thread that
\* still has to lower the flag: late writes of two releases and acquisitions
\* of the same slot never leave the flag up on a connection nobody will
\* release, which getConnection would skip for ever.
FlagAccountedFor ==
  \A s \in Slots : mused[s] =>
     \E t \in Threads : s \in kept[t] \/ (i[t] = s /\ pc[t] \in {"use", "clear"})

\* A slot taken by a call is not one the same thread already kept.
KeptApart ==
  \A t \in Threads : pc[t] \in {"mark", "use"} => i[t] \notin kept[t]

\* The pool hands out connections the way ConnAllocator says.
Allocator == INSTANCE ConnAllocator WITH inUse <- [t \in Threads |-> Held(t)]
AllocatorSpec == Allocator!Spec
=============================================================================
