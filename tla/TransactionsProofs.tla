------------------------- MODULE TransactionsProofs -------------------------
(***************************************************************************)
(* Proofs about PgTransactions and MySqlTransactions, for any threads,     *)
(* calls, size of the pool, kinds of faults and number of errors.          *)
(*                                                                         *)
(* Both use the pool only through its operations, so that all that         *)
(* ConnPoolProofs proves of the pool holds of both.                        *)
(*                                                                         *)
(* PostgreSQL first.  The connection that a transaction id names stays     *)
(* among the kept ones; and as long as no statement has failed no session  *)
(* is aborted, nothing is rolled back, and what a call has written is      *)
(* committed or pending.                                                   *)
(***************************************************************************)
EXTENDS PgTransactions, MySqlTransactions, ConnPoolProofs

\* Every step of the calls is a step of the pool, or leaves it alone.
LEMMA PgStepIsPoolStep ==
  ASSUME TypeOK, [PgNext]_pgVars
  PROVE  [Next]_poolVars
<1>1. ASSUME NEW t \in Threads, PgStep(t)
      PROVE  Next
  <2>1. CASE \E c \in Calls : PgCall(t, c)
    BY <2>1 DEF PgCall, BeginCall, Next, Step
  <2>2. CASE PgGetConnection(t)
    BY <2>2 DEF PgGetConnection, Next, Step
  <2>3. CASE PgStartTransaction(t)
    BY <2>3 DEF PgStartTransaction, Next, Step
  <2>4. CASE NextStatement(t)
    BY <2>4 DEF NextStatement, Next, Step
  <2>5. CASE Execute(t) \/ ReleaseTid(t)
    BY <2>5 DEF Execute, ReleaseTid, Next, Step, Releasing
  <2>6. CASE PgTakeTid(t)
    <3>1. tid[t] \in Slots /\ Resume(t, tid[t])
      BY <2>6 DEF PgTakeTid, Resume, TypeOK
    <3>2. QED
      BY <3>1 DEF Next, Step
  <2>7. CASE Continue(t)
    BY <2>7 DEF Continue, Next, Step, Releasing
  <2>8. QED
    BY <1>1, <2>1, <2>2, <2>3, <2>4, <2>5, <2>6, <2>7 DEF PgStep
<1>2. CASE UNCHANGED pgVars
  BY <1>2 DEF pgVars
<1>3. QED
  BY <1>1, <1>2 DEF PgNext

LEMMA PgPoolInv == ASSUME PoolInv, [PgNext]_pgVars PROVE PoolInv'
BY PgStepIsPoolStep, PoolInvStep DEF PoolInv

\* The calls are a use of the pool: its theorems hold of them.
THEOREM PgUsesPool == PgSpec => Spec
<1>1. PgInit => Init /\ PoolInv
  <2>1. Init => PoolInv
    BY PoolSizeAssumption, NoThreadAssumption
    DEF Init, PoolInv, TypeOK, PC, Slots, MutexIffHeld, KeptApart, Held
  <2>2. QED
    BY <2>1 DEF PgInit, CallsInit
<1>2. PoolInv /\ [PgNext]_pgVars => PoolInv' /\ [Next]_poolVars
  BY PgPoolInv, PgStepIsPoolStep DEF PoolInv
<1>3. QED
  BY <1>1, <1>2, PTL DEF PgSpec, Spec

\* Two threads never talk through one connection, in a transaction or not.
THEOREM PgConnectionsAreExclusive == PgSpec => []Exclusive
BY PgUsesPool, ConnectionsAreExclusive, PTL

-----------------------------------------------------------------------------
(* The connection of a transaction *)

TidKept ==
  /\ tid \in [Threads -> Slots \cup {NoTid}]
  /\ \A t \in Threads : tid[t] # NoTid => tid[t] \in kept[t]

LEMMA TidKeptStep ==
  ASSUME PoolInv, TidKept, [PgNext]_pgVars
  PROVE  TidKept'
<1> USE DEF PoolInv, TypeOK, TidKept
<1>1. ASSUME NEW t \in Threads, PgStartTransaction(t)
      PROVE  TidKept'
  BY <1>1 DEF PgStartTransaction, Keep
<1>2. ASSUME NEW t \in Threads, PgTakeTid(t)
      PROVE  TidKept'
  BY <1>2 DEF PgTakeTid, Resume
<1>3. ASSUME NEW t \in Threads, PgStep(t), ~PgStartTransaction(t), ~PgTakeTid(t)
      PROVE  UNCHANGED <<tid, kept>>
  BY <1>3 DEF PgStep, PgCall, BeginCall, Start, PgGetConnection, Acquiring, SeeUsed, SeeUnused, TryLock, TryLockFails,
              MarkUsed, pgCallVars, NextStatement, Execute, Unlock, ReleaseTid, Continue, ClearUsed
<1>4. CASE UNCHANGED pgVars
  BY <1>4 DEF pgVars, poolVars, pgCallVars
<1>5. QED
  BY <1>1, <1>2, <1>3, <1>4 DEF PgNext

\* Nobody else is given the connection of a transaction before its end.
THEOREM PgTransactionsKeepConnections == PgSpec => []TransactionKeepsItsConnection
<1>1. PgInit => PoolInv /\ TidKept
  <2>1. Init => PoolInv
    BY PoolSizeAssumption, NoThreadAssumption
    DEF Init, PoolInv, TypeOK, PC, Slots, MutexIffHeld, KeptApart, Held
  <2>2. QED
    BY <2>1 DEF PgInit, CallsInit, TidKept
<1>2. PoolInv /\ TidKept /\ [PgNext]_pgVars => PoolInv' /\ TidKept'
  BY PgPoolInv, TidKeptStep
<1>3. PoolInv /\ TidKept => TransactionKeepsItsConnection
  <2>1. ASSUME PoolInv, TidKept, NEW t \in Threads, tid[t] # NoTid
        PROVE  mmutex[tid[t]] = t
    BY <2>1 DEF PoolInv, MutexIffHeld, TidKept, Held
  <2>2. QED
    BY <2>1 DEF TransactionKeepsItsConnection
<1>4. QED
  BY <1>1, <1>2, <1>3, PTL DEF PgSpec

-----------------------------------------------------------------------------
(* What was written *)

Visible(w) == w \in committed \/ \E s \in Slots : w \in pending[s]

\* The call of t has done its write.
HasWritten(t) ==
  stmt[t] \in {"commit", "return"} \/ (stmt[t] \in {"update", "insert"} /\ pc[t] = "clear")

\* What is true as long as no statement has failed.
NoErrorInv ==
  /\ session \in [Slots -> {"idle", "open"}]
  /\ pending \in [Slots -> SUBSET Writes]
  /\ \A s \in Slots : session[s] = "idle" => pending[s] = {}
  /\ stmt \in [Threads -> PgPlaces] /\ call \in [Threads -> Calls \cup {"none"}]
  /\ failed \in [Threads -> BOOLEAN]
  /\ \A t \in Threads :
       /\ failed[t] = FALSE /\ (stmt[t] # "none" => call[t] # "none")
       /\ stmt[t] \in {"none", "tid", "update", "begin", "insert", "commit", "return"}
       /\ pc[t] = "clear" => stmt[t] \in {"update", "begin", "insert", "commit", "return"}
       /\ HasWritten(t) => Visible(<<t, call[t]>>)
  /\ \A w \in returned : Visible(w)

PgInv == PoolInv /\ errors \in Nat /\ (errors = 0 => NoErrorInv)

LEMMA PgInvInit == PgInit => PgInv
<1>1. Init => PoolInv
  BY PoolSizeAssumption, NoThreadAssumption
  DEF Init, PoolInv, TypeOK, PC, Slots, MutexIffHeld, KeptApart, Held
<1>2. PgInit => NoErrorInv
  BY DEF PgInit, CallsInit, Init, NoErrorInv, PgPlaces, OnOk, HasWritten
<1>3. QED
  BY <1>1, <1>2 DEF PgInit, CallsInit, PgInv

LEMMA ErrorsGrow ==
  ASSUME errors \in Nat, [PgNext]_pgVars
  PROVE  errors' \in Nat /\ (errors' = 0 => errors = 0)
<1>1. errors' = errors \/ errors' = errors + 1
  BY DEF PgNext, PgStep, PgCall, BeginCall, PgGetConnection, PgStartTransaction, NextStatement, Execute, StmtFails,
         PgTakeTid, ReleaseTid, Continue, pgDbVars, pgVars
<1>2. QED
  BY <1>1

\* What was visible stays so when the writes of session s are kept or committed.
LEMMA ServerKeeps ==
  ASSUME NoErrorInv, NEW s \in Slots, NEW state \in {"idle", "open"}, NEW writes \in SUBSET Writes,
         NEW visible, pending[s] \subseteq writes \cup visible,
         state = "idle" => writes = {},
         Server(s, state, writes, visible)
  PROVE  /\ session' \in [Slots -> {"idle", "open"}] /\ pending' \in [Slots -> SUBSET Writes]
         /\ \A r \in Slots : session'[r] = "idle" => pending'[r] = {}
         /\ \A w : Visible(w) => Visible(w)'
         /\ \A w \in writes \cup visible : Visible(w)'
<1> USE DEF NoErrorInv, Server
<1>1. session' \in [Slots -> {"idle", "open"}] /\ pending' \in [Slots -> SUBSET Writes]
  OBVIOUS
<1>2. /\ session'[s] = state /\ pending'[s] = writes
      /\ \A r \in Slots \ {s} : session'[r] = session[r] /\ pending'[r] = pending[r]
  OBVIOUS
<1>3. committed' = committed \cup visible
  OBVIOUS
<1> HIDE DEF Server
<1>4. QED
  BY <1>1, <1>2, <1>3 DEF Visible

\* A statement that succeeds: its write is visible, and so is all that was.
LEMMA StatementSucceeds ==
  ASSUME PoolInv, NoErrorInv, NEW t \in Threads, stmt[t] \in Statements, StmtOk(t, i[t]),
         call[t] \in Calls
  PROVE  /\ session' \in [Slots -> {"idle", "open"}] /\ pending' \in [Slots -> SUBSET Writes]
         /\ \A r \in Slots : session'[r] = "idle" => pending'[r] = {}
         /\ \A w : Visible(w) => Visible(w)'
         /\ stmt[t] \in {"update", "insert"} => \A v \in {<<t, call[t]>>} : Visible(v)'
<1> DEFINE s == i[t]
           w == <<t, call[t]>>
<1>1. s \in Slots /\ w \in Writes
  BY DEF PoolInv, TypeOK, Writes
<1>2. /\ session[s] \in {"idle", "open"} /\ pending[s] \in SUBSET Writes
      /\ session[s] = "idle" => pending[s] = {}
  BY <1>1 DEF NoErrorInv
<1> HIDE DEF s, w
<1>3. CASE stmt[t] \in {"update", "insert"}
  <2>1. WriteOk(s, w)
    BY <1>3 DEF StmtOk, s, w
  <2>2. CASE session[s] = "idle" /\ Server(s, "idle", {}, {w})
    BY <1>1, <1>2, <2>2, ServerKeeps DEF w
  <2>3. CASE session[s] = "open" /\ Server(s, "open", pending[s] \cup {w}, {})
    <3>1. pending[s] \cup {w} \in SUBSET Writes
      BY <1>1, <1>2
    <3>2. /\ session' \in [Slots -> {"idle", "open"}] /\ pending' \in [Slots -> SUBSET Writes]
          /\ \A r \in Slots : session'[r] = "idle" => pending'[r] = {}
          /\ \A v : Visible(v) => Visible(v)'
          /\ \A v \in pending[s] \cup {w} : Visible(v)'
      BY <1>1, <2>3, <3>1, ServerKeeps
    <3>3. QED
      BY <3>2 DEF w
  <2>4. QED
    BY <2>1, <2>2, <2>3 DEF WriteOk
<1>4. CASE stmt[t] = "begin"
  <2>1. Server(s, "open", pending[s], {})
    BY <1>4 DEF StmtOk, BeginOk, s
  <2>2. QED
    BY <1>1, <1>2, <1>4, <2>1, ServerKeeps
<1>5. CASE stmt[t] = "commit"
  <2>1. Server(s, "idle", {}, IF session[s] = "open" THEN pending[s] ELSE {})
    BY <1>5 DEF StmtOk, CommitOk, s
  <2>2. QED
    BY <1>1, <1>2, <1>5, <2>1, ServerKeeps
<1>6. QED
  BY <1>3, <1>4, <1>5 DEF NoErrorInv, Statements, OnError

\* A step of t that sends nothing to the server.
LEMMA SilentStep ==
  ASSUME PoolInv, NoErrorInv, NEW t \in Threads, UNCHANGED <<pgDbVars, failed>>,
         \A w \in returned' : Visible(w),
         \A u \in Threads \ {t} : stmt'[u] = stmt[u] /\ pc'[u] = pc[u] /\ call'[u] = call[u],
         stmt' \in [Threads -> PgPlaces], call' \in [Threads -> Calls \cup {"none"}],
         stmt'[t] \in {"none", "tid", "update", "begin", "insert", "commit", "return"},
         stmt'[t] # "none" => call'[t] # "none",
         pc'[t] = "clear" => stmt'[t] \in {"update", "begin", "insert", "commit", "return"},
         HasWritten(t)' => HasWritten(t) /\ call'[t] = call[t]
  PROVE  NoErrorInv'
<1>1. \A u \in Threads \ {t} : HasWritten(u)' <=> HasWritten(u)
  BY DEF HasWritten
<1>2. \A w : Visible(w)' <=> Visible(w)
  BY DEF pgDbVars, Visible
<1>3. /\ session' \in [Slots -> {"idle", "open"}]
      /\ pending' \in [Slots -> SUBSET Writes]
      /\ \A s \in Slots : session'[s] = "idle" => pending'[s] = {}
      /\ failed' \in [Threads -> BOOLEAN]
      /\ \A w \in returned' : Visible(w)'
  BY <1>2 DEF NoErrorInv, pgDbVars
<1>4. ASSUME NEW u \in Threads
      PROVE  /\ failed'[u] = FALSE /\ (stmt'[u] # "none" => call'[u] # "none")
             /\ stmt'[u] \in {"none", "tid", "update", "begin", "insert", "commit", "return"}
             /\ pc'[u] = "clear" => stmt'[u] \in {"update", "begin", "insert", "commit", "return"}
             /\ HasWritten(u)' => Visible(<<u, call[u]>>)' /\ call'[u] = call[u]
  <2>1. CASE u = t
    BY <1>2, <2>1 DEF NoErrorInv
  <2>2. CASE u # t
    BY <1>1, <1>2, <2>2 DEF NoErrorInv
  <2>3. QED
    BY <2>1, <2>2
<1>5. ASSUME NEW u \in Threads, HasWritten(u)' PROVE Visible(<<u, call[u]>>)'
  BY <1>4, <1>5
<1>6. QED
  BY <1>3, <1>4, <1>5 DEF NoErrorInv

\* PQexec, when no statement has failed.
LEMMA ExecuteStep ==
  ASSUME PoolInv, NoErrorInv, errors = 0, errors' = 0, NEW t \in Threads, Execute(t)
  PROVE  NoErrorInv'
<1>1. i[t] \in Slots /\ session[i[t]] \in {"idle", "open"}
  BY DEF PoolInv, TypeOK, NoErrorInv
<1>2. ~StmtFails(t, i[t])
  BY <1>1 DEF StmtFails, pgDbVars
<1>3. /\ StmtOk(t, i[t]) /\ failed' = [failed EXCEPT ![t] = FALSE]
      /\ stmt[t] \in Statements /\ UNCHANGED <<call, stmt, returned>>
      /\ pc' = [pc EXCEPT ![t] = "clear"]
  BY <1>2 DEF Execute, Unlock
<1>4. /\ call[t] \in Calls
      /\ stmt[t] \in {"update", "begin", "insert", "commit"}
  BY <1>3 DEF NoErrorInv, Statements, OnError
<1>5. /\ session' \in [Slots -> {"idle", "open"}] /\ pending' \in [Slots -> SUBSET Writes]
      /\ \A r \in Slots : session'[r] = "idle" => pending'[r] = {}
      /\ \A w : Visible(w) => Visible(w)'
      /\ stmt[t] \in {"update", "insert"} => \A v \in {<<t, call[t]>>} : Visible(v)'
  BY <1>3, <1>4, StatementSucceeds
<1>6. ASSUME NEW u \in Threads
      PROVE  /\ failed'[u] = FALSE
             /\ pc'[u] = "clear" => stmt[u] \in {"update", "begin", "insert", "commit", "return"}
             /\ HasWritten(u)' => Visible(<<u, call[u]>>)'
  <2>1. CASE u = t
    <3>1. failed'[u] = FALSE /\ (HasWritten(u)' => stmt[t] \in {"update", "insert"} \/ HasWritten(t))
      BY <1>3, <1>4, <2>1 DEF NoErrorInv, HasWritten
    <3>2. HasWritten(t) => Visible(<<t, call[t]>>)
      BY DEF NoErrorInv
    <3>3. HasWritten(u)' => Visible(<<u, call[u]>>)'
      BY <1>3, <1>5, <2>1, <3>1, <3>2
    <3>4. QED
      BY <1>4, <2>1, <3>1, <3>3
  <2>2. CASE u # t
    <3>1. pc'[u] = pc[u] /\ failed'[u] = failed[u] /\ (HasWritten(u)' <=> HasWritten(u))
      BY <1>3, <2>2 DEF PoolInv, TypeOK, NoErrorInv, HasWritten
    <3>2. HasWritten(u)' => Visible(<<u, call[u]>>)'
      BY <1>3, <1>5, <3>1 DEF NoErrorInv
    <3>3. QED
      BY <3>1, <3>2 DEF NoErrorInv
  <2>3. QED
    BY <2>1, <2>2
<1>7. \A w \in returned' : Visible(w)'
  BY <1>3, <1>5 DEF NoErrorInv
<1>8. failed' \in [Threads -> BOOLEAN]
  BY <1>3 DEF NoErrorInv
<1>9. ASSUME NEW u \in Threads, HasWritten(u)' PROVE Visible(<<u, call[u]>>)'
  BY <1>6, <1>9
<1>10. QED
  BY <1>3, <1>5, <1>6, <1>7, <1>8, <1>9 DEF NoErrorInv

\* The end of a statement that succeeded.
LEMMA ContinueStep ==
  ASSUME PoolInv, NoErrorInv, NEW t \in Threads, Continue(t)
  PROVE  NoErrorInv'
<1> DEFINE next == OnOk[stmt[t]]
<1>1. /\ pc[t] = "clear" /\ pc' = [pc EXCEPT ![t] = "idle"]
      /\ failed[t] = FALSE /\ UNCHANGED <<failed, pgDbVars>>
      /\ stmt[t] \in {"update", "begin", "insert", "commit", "return"}
      /\ call[t] \in Calls
  BY DEF Continue, ClearUsed, NoErrorInv
<1>2. /\ stmt' = [stmt EXCEPT ![t] = next]
      /\ call' = IF next = "none" THEN [call EXCEPT ![t] = "none"] ELSE call
      /\ returned' = IF next = "none" THEN returned \cup {<<t, call[t]>>} ELSE returned
  BY <1>1 DEF Continue, GoTo
<1>3. /\ stmt[t] = "update" => next = "none"
      /\ stmt[t] = "begin" => next = "insert"
      /\ stmt[t] = "insert" => next = "commit"
      /\ stmt[t] = "commit" => next = "return"
      /\ stmt[t] = "return" => next = "none"
  BY DEF OnOk
<1>4. next \in {"none", "insert", "commit", "return"} /\ next \in PgPlaces
  BY <1>1, <1>3 DEF PgPlaces, OnOk
<1> HIDE DEF next
<1>5. stmt'[t] = next /\ pc'[t] = "idle"
  BY <1>1, <1>2 DEF NoErrorInv, PoolInv, TypeOK
<1>6. \A u \in Threads \ {t} : stmt'[u] = stmt[u] /\ pc'[u] = pc[u] /\ call'[u] = call[u]
  BY <1>1, <1>2 DEF NoErrorInv, PoolInv, TypeOK
<1>7. \A w \in returned' : Visible(w)
  BY <1>1, <1>2, <1>3 DEF NoErrorInv, HasWritten
<1>8. stmt' \in [Threads -> PgPlaces] /\ call' \in [Threads -> Calls \cup {"none"}]
  BY <1>2, <1>4 DEF NoErrorInv
<1>9. HasWritten(t)' => HasWritten(t) /\ call'[t] = call[t]
  BY <1>1, <1>2, <1>3, <1>5 DEF HasWritten
<1>10. stmt'[t] # "none" => call'[t] # "none"
  BY <1>1, <1>2, <1>5 DEF Calls
<1>11. QED
  BY <1>1, <1>4, <1>5, <1>6, <1>7, <1>8, <1>9, <1>10, SilentStep

\* The other steps of a call: it starts, acquires or releases a connection.
LEMMA PoolOnlyStep ==
  ASSUME PoolInv, NoErrorInv, NEW t \in Threads,
         \/ \E c \in Calls : PgCall(t, c)
         \/ PgGetConnection(t) \/ PgStartTransaction(t) \/ NextStatement(t)
         \/ PgTakeTid(t) \/ ReleaseTid(t)
  PROVE  NoErrorInv'
<1> USE DEF PoolInv, TypeOK
<1>1. CASE \E c \in Calls : PgCall(t, c)
  <2>1. PICK c \in Calls : PgCall(t, c)
    BY <1>1
  <2>2. /\ call' = [call EXCEPT ![t] = c]
        /\ stmt' = [stmt EXCEPT ![t] = IF c = "process" THEN "update" ELSE "tid"]
        /\ pc' = [pc EXCEPT ![t] = "scan"]
        /\ UNCHANGED <<failed, returned, pgDbVars>>
    BY <2>1 DEF PgCall, BeginCall, Start, GoTo, pgDbVars
  <2>3. stmt' \in [Threads -> PgPlaces] /\ call' \in [Threads -> Calls \cup {"none"}]
    BY <2>2 DEF NoErrorInv, PgPlaces, OnOk
  <2>4. stmt'[t] \in {"update", "tid"} /\ pc'[t] = "scan" /\ call'[t] # "none"
    BY <2>2 DEF NoErrorInv, Calls
  <2>5. ~HasWritten(t)'
    BY <2>4 DEF HasWritten
  <2>6. \A u \in Threads \ {t} : stmt'[u] = stmt[u] /\ pc'[u] = pc[u] /\ call'[u] = call[u]
    BY <2>2 DEF NoErrorInv
  <2>7. \A w \in returned' : Visible(w)
    BY <2>2 DEF NoErrorInv
  <2> HIDE DEF PoolInv, TypeOK
  <2>8. QED
    BY <2>2, <2>3, <2>4, <2>5, <2>6, <2>7, SilentStep
<1>2. CASE PgStartTransaction(t)
  <2>1. /\ stmt' = [stmt EXCEPT ![t] = "begin"] /\ pc' = [pc EXCEPT ![t] = "idle"]
        /\ stmt[t] = "tid" /\ UNCHANGED <<call, failed, returned, pgDbVars>>
    BY <1>2 DEF PgStartTransaction, Keep, GoTo
  <2>2. /\ stmt' \in [Threads -> PgPlaces] /\ call' \in [Threads -> Calls \cup {"none"}]
        /\ stmt'[t] = "begin" /\ pc'[t] = "idle" /\ call'[t] # "none"
    BY <2>1 DEF NoErrorInv, PgPlaces, OnOk
  <2>3. ~HasWritten(t)'
    BY <2>2 DEF HasWritten
  <2>4. \A u \in Threads \ {t} : stmt'[u] = stmt[u] /\ pc'[u] = pc[u] /\ call'[u] = call[u]
    BY <2>1 DEF NoErrorInv
  <2>5. \A w \in returned' : Visible(w)
    BY <2>1 DEF NoErrorInv
  <2> HIDE DEF PoolInv, TypeOK
  <2>6. QED
    BY <2>1, <2>2, <2>3, <2>4, <2>5, SilentStep
<1>3. CASE PgGetConnection(t) \/ NextStatement(t) \/ PgTakeTid(t) \/ ReleaseTid(t)
  <2>1. UNCHANGED <<call, stmt, failed, returned, pgDbVars>>
    BY <1>3 DEF PgGetConnection, NextStatement, PgTakeTid, ReleaseTid, pgCallVars
  <2>2. /\ \A u \in Threads \ {t} : pc'[u] = pc[u]
        /\ pc'[t] = "clear" => stmt[t] \in {"return", "throw"}
    BY <1>3 DEF PgGetConnection, NextStatement, PgTakeTid, ReleaseTid, Acquiring, SeeUsed, SeeUnused,
                TryLock, TryLockFails, MarkUsed, Start, Resume, Unlock
  <2>3. HasWritten(t)' => HasWritten(t)
    BY <2>1, <2>2 DEF HasWritten
  <2>4. \A w \in returned' : Visible(w)
    BY <2>1 DEF NoErrorInv
  <2>5. pc'[t] = "clear" => stmt[t] = "return"
    BY <2>2 DEF NoErrorInv
  <2>6. /\ stmt' \in [Threads -> PgPlaces] /\ call' \in [Threads -> Calls \cup {"none"}]
        /\ stmt'[t] \in {"none", "tid", "update", "begin", "insert", "commit", "return"}
        /\ stmt'[t] # "none" => call'[t] # "none"
    BY <2>1 DEF NoErrorInv
  <2> HIDE DEF PoolInv, TypeOK
  <2>7. QED
    BY <2>1, <2>2, <2>3, <2>4, <2>5, <2>6, SilentStep
<1>4. QED
  BY <1>1, <1>2, <1>3

LEMMA NoErrorStep ==
  ASSUME PgInv, errors = 0, errors' = 0, [PgNext]_pgVars
  PROVE  NoErrorInv'
<1>1. PoolInv /\ NoErrorInv
  BY DEF PgInv
<1>2. ASSUME NEW t \in Threads, PgStep(t) PROVE NoErrorInv'
  BY <1>1, <1>2, ExecuteStep, ContinueStep, PoolOnlyStep DEF PgStep
<1>3. CASE UNCHANGED pgVars
  BY <1>1, <1>3 DEF pgVars, poolVars, pgCallVars, pgDbVars, NoErrorInv, HasWritten, Visible
<1>4. QED
  BY <1>2, <1>3 DEF PgNext

\* As long as no statement fails, what a call that returned has written is
\* committed or pending in some session.
THEOREM PgReturnedNotLost == PgSpec => []ReturnedNotLost
<1>1. PgInv /\ [PgNext]_pgVars => PgInv'
  <2>1. ASSUME PgInv, [PgNext]_pgVars PROVE PgInv'
    <3>1. PoolInv'
      BY <2>1, PgPoolInv DEF PgInv
    <3>2. errors' \in Nat /\ (errors' = 0 => errors = 0)
      BY <2>1, ErrorsGrow DEF PgInv
    <3>3. QED
      BY <2>1, <3>1, <3>2, NoErrorStep DEF PgInv
  <2>2. QED
    BY <2>1
<1>2. PgInv => ReturnedNotLost
  BY DEF PgInv, NoErrorInv, ReturnedNotLost, Visible
<1>3. QED
  BY <1>1, <1>2, PgInvInit, PTL DEF PgSpec

-----------------------------------------------------------------------------
(***************************************************************************)
(* MySQL: where a thread is in the pool follows from where it is in its    *)
(* call, which gives what a thread talks through and what it keeps.  As    *)
(* long as only statements and connections fail, a session is open only    *)
(* for a running transaction, which has exactly its own writes pending.    *)
(***************************************************************************)

\* Every step of the calls is a step of the pool, or leaves it alone.
LEMMA MyStepIsPoolStep ==
  ASSUME MyTypeOK, [MyNext]_myVars
  PROVE  [Next]_poolVars
<1>1. ASSUME NEW t \in Threads, MyStep(t)
      PROVE  Next \/ UNCHANGED poolVars
  <2>1. CASE \E c \in Calls : MyCall(t, c)
    BY <2>1 DEF MyCall, BeginCall, Next, Step
  <2>2. CASE MyGetConnection(t)
    BY <2>2 DEF MyGetConnection, Next, Step
  <2>3. CASE ProcessThrows(t) \/ MyStartTransaction(t)
    BY <2>3 DEF ProcessThrows, ThrowLocked, MyStartTransaction, Next, Step
  <2>4. CASE \/ ProcessOk(t) \/ RetryThrows(t) \/ StartTransactionThrows(t)
             \/ EndTransaction(t) \/ EndTransactionThrows(t)
             \/ CancelTransaction(t) \/ CancelTransactionFails(t)
    BY <2>4 DEF ProcessOk, RetryThrows, StartTransactionThrows, EndTransaction, EndTransactionThrows,
                CancelTransaction, CancelTransactionFails, ThenRelease, Next, Step, Releasing
  <2>5. CASE MyTakeTid(t)
    <3>1. tid[t] \in Slots /\ Resume(t, tid[t])
      BY <2>5 DEF MyTakeTid, Resume, MyTypeOK, TypeOK
    <3>2. QED
      BY <3>1 DEF Next, Step
  <2>6. CASE ClearLate(t) \/ Release(t)
    BY <2>6 DEF ClearLate, Release, Next, Step, Releasing
  <2>7. CASE GenerateId(t) \/ LateAutocommit(t)
    BY <2>7 DEF GenerateId, LateAutocommit
  <2>8. QED
    BY <1>1, <2>1, <2>2, <2>3, <2>4, <2>5, <2>6, <2>7 DEF MyStep
<1>2. CASE UNCHANGED myVars
  BY <1>2 DEF myVars
<1>3. QED
  BY <1>1, <1>2 DEF MyNext

Acquires == {"scan", "try", "mark", "use"}

\* Thread t runs a transaction, on the connection tid[t].
InTransaction(t) == stmt[t] \in {"insert", "end", "cancel"}

\* Where the thread is in the pool follows from where it is in its call; the
\* connection of its transaction is kept, or in use again at its end.
Place(t) ==
  /\ call[t] = "none" <=> stmt[t] = "none"
  /\ stmt[t] \in {"none", "insert"} => pc[t] = "idle"
  /\ stmt[t] = "update" => call[t] = "process" /\ pc[t] \in Acquires
  /\ stmt[t] = "start" => call[t] = "newId" /\ pc[t] \in Acquires
  /\ stmt[t] = "release" => pc[t] = "clear"
  /\ stmt[t] = "late" => call[t] = "newId" /\ pc[t] \in {"clear", "idle"}
                           /\ tid[t] \in Slots /\ "rollback" \in failures
  /\ InTransaction(t) =>
       /\ call[t] = "newId" /\ tid[t] \in Slots
       /\ \/ pc[t] = "idle" /\ tid[t] \in kept[t]
          \/ pc[t] = "use" /\ i[t] = tid[t]

\* A thread whose plain statements have not thrown keeps only the connection
\* of its transaction.
KeptFor(t) ==
  \/ <<t, "process">> \in thrown
  \/ kept[t] \subseteq (IF InTransaction(t) THEN {tid[t]} ELSE {})

\* A call is made once, and has one outcome.
Once(t) ==
  \A c \in Calls :
    /\ c \in todo[t] \/ call[t] = c => <<t, c>> \notin returned \cup thrown
    /\ call[t] = c => c \notin todo[t]
    /\ <<t, c>> \notin returned \cap thrown

ControlInv == MyTypeOK /\ \A t \in Threads : Place(t) /\ KeptFor(t) /\ Once(t)


LEMMA SessionTyped ==
  ASSUME MyTypeOK, NEW s \in Slots, NEW mode \in BOOLEAN, NEW writes \in SUBSET Writes,
         NEW visible \in SUBSET Writes, Session(s, mode, writes, visible)
  PROVE  /\ autocommit' \in [Slots -> BOOLEAN] /\ pending' \in [Slots -> SUBSET Writes]
         /\ committed' \in SUBSET Writes
BY DEF MyTypeOK, Session

\* Whose step it is: nothing of the other threads changes.
LEMMA OthersUntouched ==
  ASSUME MyTypeOK, NEW t \in Threads, MyStep(t), NEW u \in Threads \ {t}
  PROVE  /\ todo'[u] = todo[u] /\ call'[u] = call[u] /\ stmt'[u] = stmt[u] /\ ok'[u] = ok[u]
         /\ tid'[u] = tid[u] /\ pc'[u] = pc[u] /\ i'[u] = i[u] /\ kept'[u] = kept[u]
         /\ \A c : <<u, c>> \in returned' <=> <<u, c>> \in returned
         /\ \A c : <<u, c>> \in thrown' <=> <<u, c>> \in thrown
<1> USE DEF MyTypeOK, TypeOK
<1>1. CASE (\E c \in Calls : MyCall(t, c)) \/ MyGetConnection(t)
  BY <1>1 DEF MyCall, BeginCall, GoTo, Start, WillReturn, MyGetConnection, myCallVars, Acquiring, SeeUsed,
              SeeUnused, TryLock, TryLockFails, MarkUsed
<1>2. CASE ProcessOk(t) \/ RetryThrows(t) \/ StartTransactionThrows(t)
  BY <1>2 DEF ProcessOk, RetryThrows, StartTransactionThrows, ThenRelease, Unlock, GoTo, WillReturn, WillThrow
<1>3. CASE ProcessThrows(t)
  BY <1>3 DEF ProcessThrows, ThrowLocked, Keep, GoTo
<1>4. CASE MyStartTransaction(t)
  BY <1>4 DEF MyStartTransaction, Keep, GoTo
<1>5. CASE EndTransaction(t) \/ EndTransactionThrows(t) \/ CancelTransaction(t) \/ CancelTransactionFails(t)
  BY <1>5 DEF EndTransaction, EndTransactionThrows, CancelTransaction, CancelTransactionFails, ThenRelease,
              Unlock, GoTo, WillReturn, WillThrow
<1>6. CASE GenerateId(t) \/ MyTakeTid(t)
  BY <1>6 DEF GenerateId, MyTakeTid, Resume, GoTo, poolVars, myCallVars
<1>7. CASE ClearLate(t) \/ LateAutocommit(t) \/ Release(t)
  BY <1>7 DEF ClearLate, LateAutocommit, Release, EndCall, ClearUsed, GoTo, poolVars, myCallVars
<1>8. QED
  BY <1>1, <1>2, <1>3, <1>4, <1>5, <1>6, <1>7 DEF MyStep

\* The variables of the calls keep their types.
LEMMA CallsTyped ==
  ASSUME ControlInv, NEW t \in Threads, MyStep(t)
  PROVE  /\ todo' \in [Threads -> SUBSET Calls] /\ call' \in [Threads -> Calls \cup {"none"}]
         /\ stmt' \in [Threads -> MyPlaces] /\ ok' \in [Threads -> BOOLEAN]
         /\ tid' \in [Threads -> Slots \cup {NoTid}]
         /\ returned' \in SUBSET Writes /\ thrown' \in SUBSET Writes
<1> USE DEF ControlInv, MyTypeOK, TypeOK, MyPlaces, Calls, Writes, GoTo, WillReturn, WillThrow
<1>1. CASE (\E c \in Calls : MyCall(t, c)) \/ MyGetConnection(t)
  <2>1. ASSUME NEW c \in Calls, MyCall(t, c)
        PROVE  /\ todo' \in [Threads -> SUBSET Calls] /\ call' \in [Threads -> Calls \cup {"none"}]
               /\ stmt' \in [Threads -> MyPlaces] /\ ok' \in [Threads -> BOOLEAN]
               /\ UNCHANGED <<tid, returned, thrown>>
    <3>1. /\ todo' = [todo EXCEPT ![t] = @ \ {c}] /\ call' = [call EXCEPT ![t] = c]
          /\ ok' = [ok EXCEPT ![t] = TRUE] /\ UNCHANGED <<tid, returned, thrown>>
      BY <2>1 DEF MyCall, BeginCall
    <3>2. PICK place \in MyPlaces : stmt' = [stmt EXCEPT ![t] = place]
      BY <2>1 DEF MyCall, BeginCall
    <3>3. QED
      BY <3>1, <3>2
  <2>2. CASE MyGetConnection(t)
    BY <2>2 DEF MyGetConnection, myCallVars
  <2>3. CASE \E c \in Calls : MyCall(t, c)
    BY <2>1, <2>3
  <2>4. QED
    BY <1>1, <2>2, <2>3
<1>2. CASE ProcessOk(t) \/ RetryThrows(t) \/ StartTransactionThrows(t)
  BY <1>2 DEF ProcessOk, RetryThrows, StartTransactionThrows, ThenRelease
<1>3. CASE ProcessThrows(t)
  BY <1>3 DEF ProcessThrows, ThrowLocked, Place
<1>4. CASE MyStartTransaction(t)
  BY <1>4 DEF MyStartTransaction
<1>5. CASE EndTransaction(t) \/ EndTransactionThrows(t) \/ CancelTransaction(t) \/ CancelTransactionFails(t)
  <2>1. CASE EndTransaction(t) \/ EndTransactionThrows(t)
    BY <2>1 DEF EndTransaction, EndTransactionThrows, ThenRelease
  <2>2. CASE CancelTransaction(t) \/ CancelTransactionFails(t)
    BY <2>2 DEF CancelTransaction, CancelTransactionFails, ThenRelease
  <2>3. QED
    BY <1>5, <2>1, <2>2
<1>6. CASE GenerateId(t) \/ MyTakeTid(t)
  BY <1>6 DEF GenerateId, MyTakeTid, myCallVars
<1>7. CASE ClearLate(t) \/ LateAutocommit(t) \/ Release(t)
  BY <1>7 DEF ClearLate, LateAutocommit, Release, EndCall, myCallVars, Place
<1>8. QED
  BY <1>1, <1>2, <1>3, <1>4, <1>5, <1>6, <1>7 DEF MyStep

\* So do those of the server.
LEMMA ServerTyped ==
  ASSUME ControlInv, NEW t \in Threads, MyStep(t)
  PROVE  /\ autocommit' \in [Slots -> BOOLEAN] /\ pending' \in [Slots -> SUBSET Writes]
         /\ committed' \in SUBSET Writes
<1> DEFINE Typed == /\ autocommit' \in [Slots -> BOOLEAN] /\ pending' \in [Slots -> SUBSET Writes]
                    /\ committed' \in SUBSET Writes
<1>1. /\ MyTypeOK /\ i[t] \in Slots
      /\ \A s \in Slots : autocommit[s] \in BOOLEAN /\ pending[s] \in SUBSET Writes
  BY DEF ControlInv, MyTypeOK, TypeOK
<1>2. /\ stmt[t] \in {"update", "insert"} => <<t, call[t]>> \in Writes
      /\ stmt[t] \in {"insert", "late"} => tid[t] \in Slots
  BY DEF ControlInv, Place, InTransaction, Writes, Calls
<1>3. ASSUME NEW s \in Slots, NEW w \in Writes, Write(s, w) PROVE Typed
  <2>1. {w} \in SUBSET Writes /\ pending[s] \cup {w} \in SUBSET Writes /\ {} \in SUBSET Writes
    BY <1>1
  <2>2. QED
    BY <1>1, <1>3, <2>1, SessionTyped DEF Write
<1>4. CASE UNCHANGED myDbVars
  BY <1>1, <1>4 DEF myDbVars, MyTypeOK
<1>5. ASSUME NEW s \in Slots, AutocommitOn(s) \/ Rollback(s) \/ Session(s, FALSE, pending[s], {})
                \/ Session(s, FALSE, {}, pending[s]) \/ Session(s, TRUE, {}, {}) PROVE Typed
  <2>1. pending[s] \in SUBSET Writes /\ autocommit[s] \in BOOLEAN /\ {} \in SUBSET Writes
    BY <1>1
  <2>2. QED
    BY <1>1, <1>5, <2>1, SessionTyped DEF AutocommitOn, Rollback
<1>6. ASSUME NEW visible, Reopened(t, visible), stmt[t] = "update" PROVE Typed
  <2>1. visible \in SUBSET Writes
    BY <1>2, <1>6 DEF Reopened
  <2>2. QED
    BY <1>1, <1>6, <2>1, SessionTyped DEF Reopened
<1>7. CASE ProcessOk(t) \/ ProcessThrows(t) \/ RetryThrows(t)
  BY <1>1, <1>2, <1>3, <1>4, <1>6, <1>7 DEF ProcessOk, ProcessThrows, RetryThrows
<1>8. CASE EndTransaction(t) \/ EndTransactionThrows(t) \/ CancelTransaction(t) \/ CancelTransactionFails(t)
  BY <1>1, <1>4, <1>5, <1>8 DEF EndTransaction, EndTransactionThrows, CancelTransaction, CancelTransactionFails
<1>9. CASE GenerateId(t) \/ LateAutocommit(t)
  BY <1>2, <1>3, <1>4, <1>5, <1>9 DEF GenerateId, LateAutocommit
<1>10. CASE MyStartTransaction(t)
  BY <1>1, <1>5, <1>10 DEF MyStartTransaction
<1>11. CASE \/ \E c \in Calls : MyCall(t, c)
            \/ MyGetConnection(t) \/ StartTransactionThrows(t)
            \/ MyTakeTid(t) \/ ClearLate(t) \/ Release(t)
  BY <1>4, <1>11 DEF MyCall, BeginCall, MyGetConnection, StartTransactionThrows, MyTakeTid, ClearLate, Release, myDbVars
<1>12. QED
  BY <1>7, <1>8, <1>9, <1>10, <1>11 DEF MyStep

\* The kinds of operations that have failed are only added to.
LEMMA FaultsGrow ==
  ASSUME MyTypeOK, [MyNext]_myVars
  PROVE  errors' \in 0 .. MaxErrors /\ failures' \in SUBSET Faults /\ failures \subseteq failures'
<1>1. ASSUME NEW kinds, NEW n \in {1, 2}, Fail(kinds, n)
      PROVE  errors' \in 0 .. MaxErrors /\ failures' \in SUBSET Faults /\ failures \subseteq failures'
  BY <1>1, MaxErrorsAssumption DEF Fail, MyTypeOK
<1>2. CASE UNCHANGED faultVars
  BY <1>2 DEF faultVars, MyTypeOK
<1>3. ASSUME NEW t \in Threads, MyStep(t)
      PROVE  UNCHANGED faultVars \/ \E n \in {1, 2} : \E kinds \in SUBSET Faults : Fail(kinds, n)
  <2>1. \A kinds, n : Fail(kinds, n) => kinds \in SUBSET Faults
    BY DEF Fail
  <2>2. CASE ProcessOk(t) \/ ProcessThrows(t) \/ RetryThrows(t) \/ StartTransactionThrows(t) \/ GenerateId(t)
    BY <2>1, <2>2 DEF ProcessOk, ProcessThrows, RetryThrows, StartTransactionThrows, GenerateId
  <2>3. CASE EndTransaction(t) \/ EndTransactionThrows(t) \/ CancelTransaction(t) \/ CancelTransactionFails(t)
    BY <2>1, <2>3 DEF EndTransaction, EndTransactionThrows, CancelTransaction, CancelTransactionFails
  <2>4. CASE \/ \E c \in Calls : MyCall(t, c)
             \/ MyGetConnection(t) \/ MyStartTransaction(t) \/ MyTakeTid(t)
             \/ ClearLate(t) \/ LateAutocommit(t) \/ Release(t)
    BY <2>4 DEF MyCall, BeginCall, MyGetConnection, MyStartTransaction, MyTakeTid, ClearLate, LateAutocommit,
                Release, faultVars
  <2>5. QED
    BY <1>3, <2>2, <2>3, <2>4 DEF MyStep
<1>4. CASE UNCHANGED myVars
  BY <1>2, <1>4 DEF myVars, faultVars
<1>5. QED
  BY <1>1, <1>2, <1>3, <1>4 DEF MyNext

\* What is true of the thread whose step it is: its place.
LEMMA PlaceStep ==
  ASSUME PoolInv, ControlInv, NEW t \in Threads, MyStep(t)
  PROVE  Place(t)'
<1> USE DEF ControlInv, MyTypeOK, TypeOK, Place, InTransaction, Acquires, GoTo
<1>1. CASE \E c \in Calls : MyCall(t, c)
  <2>1. PICK c \in Calls : MyCall(t, c)
    BY <1>1
  <2>2. /\ call'[t] = c /\ pc'[t] = "scan"
        /\ stmt'[t] = IF c = "process" THEN "update" ELSE "start"
    BY <2>1 DEF MyCall, BeginCall, Start
  <2>3. QED
    BY <2>2 DEF Calls
<1>2. CASE MyGetConnection(t)
  BY <1>2 DEF MyGetConnection, myCallVars, myDbVars, faultVars, Acquiring, SeeUsed, SeeUnused, TryLock,
              TryLockFails, MarkUsed
<1>3. CASE ProcessOk(t) \/ RetryThrows(t) \/ StartTransactionThrows(t)
  BY <1>3 DEF ProcessOk, RetryThrows, StartTransactionThrows, ThenRelease, Unlock
<1>4. CASE ProcessThrows(t)
  BY <1>4 DEF ProcessThrows, ThrowLocked, Keep
<1>5. CASE MyStartTransaction(t)
  BY <1>5 DEF MyStartTransaction, Keep
<1>6. CASE EndTransaction(t) \/ EndTransactionThrows(t) \/ CancelTransaction(t)
  BY <1>6 DEF EndTransaction, EndTransactionThrows, CancelTransaction, ThenRelease, Unlock
<1>7. CASE CancelTransactionFails(t)
  BY <1>7 DEF CancelTransactionFails, Unlock, Fail
<1>8. CASE GenerateId(t) \/ MyTakeTid(t)
  BY <1>8 DEF GenerateId, MyTakeTid, Resume, poolVars, myCallVars
<1>9. CASE ClearLate(t) \/ LateAutocommit(t) \/ Release(t)
  BY <1>9 DEF ClearLate, LateAutocommit, Release, EndCall, ClearUsed, poolVars, myCallVars, faultVars
<1>10. QED
  BY <1>1, <1>2, <1>3, <1>4, <1>5, <1>6, <1>7, <1>8, <1>9 DEF MyStep

\* The connections it keeps.
LEMMA KeptStep ==
  ASSUME PoolInv, ControlInv, NEW t \in Threads, MyStep(t)
  PROVE  KeptFor(t)'
<1> USE DEF ControlInv, MyTypeOK, TypeOK, KeptFor, InTransaction, GoTo
<1>1. thrown \subseteq thrown'
  BY DEF MyStep, MyCall, MyGetConnection, myCallVars, ProcessOk, RetryThrows, StartTransactionThrows,
         ThenRelease, ProcessThrows, ThrowLocked, MyStartTransaction, EndTransaction, EndTransactionThrows,
         CancelTransaction, CancelTransactionFails, GenerateId, MyTakeTid, ClearLate, LateAutocommit,
         Release, EndCall
<1>2. CASE (\E c \in Calls : MyCall(t, c)) \/ MyGetConnection(t)
  BY <1>1, <1>2 DEF MyCall, BeginCall, Start, MyGetConnection, myCallVars, Acquiring, SeeUsed, SeeUnused,
                    TryLock, TryLockFails, MarkUsed, Place
<1>3. CASE ProcessOk(t) \/ RetryThrows(t) \/ StartTransactionThrows(t)
  BY <1>1, <1>3 DEF ProcessOk, RetryThrows, StartTransactionThrows, ThenRelease, Unlock
<1>4. CASE ProcessThrows(t)
  BY <1>4 DEF ProcessThrows, ThrowLocked, Place
<1>5. CASE MyStartTransaction(t)
  BY <1>1, <1>5 DEF MyStartTransaction, Keep
<1>6. CASE EndTransaction(t) \/ EndTransactionThrows(t) \/ CancelTransaction(t) \/ CancelTransactionFails(t)
  <2>1. pc[t] = "use" /\ kept' = kept /\ stmt[t] \in {"end", "cancel"}
    BY <1>6 DEF EndTransaction, EndTransactionThrows, CancelTransaction, CancelTransactionFails,
                ThenRelease, Unlock
  <2>2. i[t] = tid[t] /\ i[t] \notin kept[t]
    BY <2>1 DEF Place, PoolInv, KeptApart
  <2>3. QED
    BY <1>1, <2>1, <2>2
<1>7. CASE GenerateId(t) \/ MyTakeTid(t)
  BY <1>1, <1>7 DEF GenerateId, MyTakeTid, Resume, poolVars, myCallVars
<1>8. CASE ClearLate(t) \/ LateAutocommit(t) \/ Release(t)
  BY <1>1, <1>8 DEF ClearLate, LateAutocommit, Release, EndCall, ClearUsed, poolVars, myCallVars
<1>9. QED
  BY <1>2, <1>3, <1>4, <1>5, <1>6, <1>7, <1>8 DEF MyStep

\* The outcomes of its calls.
LEMMA OnceStep ==
  ASSUME ControlInv, NEW t \in Threads, MyStep(t)
  PROVE  Once(t)'
<1> USE DEF ControlInv, MyTypeOK, TypeOK, Once, GoTo
<1>1. CASE \E c \in Calls : MyCall(t, c)
  <2>1. PICK c \in Calls : MyCall(t, c)
    BY <1>1
  <2>2. /\ call'[t] = c /\ todo'[t] = todo[t] \ {c} /\ c \in todo[t]
        /\ returned' = returned /\ thrown' = thrown
    BY <2>1 DEF MyCall, BeginCall
  <2>3. QED
    BY <2>2
<1>2. CASE MyGetConnection(t) \/ ProcessOk(t) \/ RetryThrows(t) \/ StartTransactionThrows(t)
           \/ MyStartTransaction(t) \/ EndTransaction(t) \/ EndTransactionThrows(t) \/ CancelTransaction(t)
           \/ CancelTransactionFails(t) \/ GenerateId(t) \/ MyTakeTid(t) \/ ClearLate(t)
  <2>1. UNCHANGED <<todo, call, returned, thrown>>
    BY <1>2 DEF MyGetConnection, myCallVars, ProcessOk, RetryThrows, StartTransactionThrows, ThenRelease,
         MyStartTransaction, EndTransaction, EndTransactionThrows, CancelTransaction, CancelTransactionFails,
         GenerateId, MyTakeTid, ClearLate
  <2>2. QED
    BY <2>1
<1>3. CASE ProcessThrows(t) \/ LateAutocommit(t) \/ Release(t)
  <2>1. /\ call'[t] = "none" /\ todo' = todo /\ call[t] \in Calls
        /\ \/ returned' = returned \cup {<<t, call[t]>>} /\ thrown' = thrown
           \/ thrown' = thrown \cup {<<t, call[t]>>} /\ returned' = returned
    BY <1>3 DEF ProcessThrows, ThrowLocked, LateAutocommit, Release, EndCall, Place
  <2>2. "none" \notin Calls
    BY DEF Calls
  <2>3. QED
    BY <2>1, <2>2
<1>4. QED
  BY <1>1, <1>2, <1>3 DEF MyStep

LEMMA ControlInvStep ==
  ASSUME PoolInv, ControlInv, [MyNext]_myVars
  PROVE  ControlInv'
<1>1. TypeOK' /\ MyTypeOK
  BY MyStepIsPoolStep, StepTypeOK DEF ControlInv, MyTypeOK
<1>2. errors' \in 0 .. MaxErrors /\ failures' \in SUBSET Faults /\ failures \subseteq failures'
  BY <1>1, FaultsGrow
<1>3. ASSUME NEW t \in Threads, MyStep(t) PROVE ControlInv'
  <2>1. MyTypeOK'
    BY <1>1, <1>2, <1>3, CallsTyped, ServerTyped DEF MyTypeOK
  <2>2. Place(t)' /\ KeptFor(t)' /\ Once(t)'
    BY <1>3, PlaceStep, KeptStep, OnceStep
  <2>3. ASSUME NEW u \in Threads \ {t} PROVE Place(u)' /\ KeptFor(u)' /\ Once(u)'
    BY <1>1, <1>2, <1>3, OthersUntouched DEF ControlInv, Place, KeptFor, Once, InTransaction
  <2>4. QED
    BY <2>1, <2>2, <2>3 DEF ControlInv
<1>4. CASE UNCHANGED myVars
  BY <1>1, <1>2, <1>4 DEF myVars, poolVars, myCallVars, myDbVars, ControlInv, MyTypeOK, Place, KeptFor, Once,
                     InTransaction
<1>5. QED
  BY <1>3, <1>4 DEF MyNext

LEMMA MyInvariantInit == MyInit => PoolInv /\ ControlInv
<1>1. Init => PoolInv
  BY PoolSizeAssumption, NoThreadAssumption
  DEF Init, PoolInv, TypeOK, PC, Slots, MutexIffHeld, KeptApart, Held
<1>2. ASSUME MyInit PROVE ControlInv
  BY <1>1, <1>2, TodoAssumption, MaxErrorsAssumption
  DEF MyInit, CallsInit, Init, PoolInv, ControlInv, MyTypeOK, MyPlaces, Writes, Place, KeptFor, Once,
      InTransaction, Calls
<1>3. QED
  BY <1>1, <1>2 DEF MyInit, CallsInit

LEMMA MyControl == MySpec => [](PoolInv /\ ControlInv)
<1>1. PoolInv /\ ControlInv /\ [MyNext]_myVars => PoolInv' /\ ControlInv'
  BY MyStepIsPoolStep, PoolInvStep, ControlInvStep DEF ControlInv
<1>2. QED
  BY <1>1, MyInvariantInit, PTL DEF MySpec

\* Every variable of the MySQL calls keeps its type.
THEOREM MyTypeCorrect == MySpec => []MyTypeOK
<1>1. ControlInv => MyTypeOK
  BY DEF ControlInv
<1>2. QED
  BY <1>1, MyControl, PTL

\* The calls are a use of the pool: its theorems hold of them.
THEOREM MyUsesPool == MySpec => Spec
<1>1. MyInit => Init
  BY DEF MyInit, CallsInit
<1>2. ControlInv /\ [MyNext]_myVars => [Next]_poolVars
  BY MyStepIsPoolStep DEF ControlInv
<1>3. QED
  BY <1>1, <1>2, MyControl, PTL DEF MySpec, Spec

\* A thread only talks through connections it has locked, also in a transaction
\* and in releasing one, except after a rollback that failed.
THEOREM MyTalksOnlyToItsOwn == MySpec => []TalksOnlyToItsOwn
<1>1. ControlInv => TalksOnlyToItsOwn
  BY DEF ControlInv, Place, InTransaction, TalksOnlyToItsOwn, Held
<1>2. QED
  BY <1>1, MyControl, PTL

\* Between calls a thread has no connection locked, unless a plain statement of
\* its threw.
THEOREM MyNothingLeftLocked == MySpec => []NothingLeftLocked
<1>1. ControlInv => NothingLeftLocked
  BY DEF ControlInv, Place, KeptFor, InTransaction, NothingLeftLocked, Held
<1>2. QED
  BY <1>1, MyControl, PTL

-----------------------------------------------------------------------------
(* MySQL: the outcome of the calls, as long as no commit, rollback or      *)
(* change of mode fails                                                    *)

\* The session of a connection that is in no transaction.
Quiet(s) == autocommit[s] = TRUE /\ pending[s] = {}

\* A session that is not quiet is that of a running transaction.
SessionsOwned ==
  \A s \in Slots : Quiet(s) \/ \E t \in Threads : InTransaction(t) /\ tid[t] = s

\* The session of a running transaction.
TransactionOpen(t) ==
  LET w == <<t, "newId">>
  IN  /\ autocommit[tid[t]] = FALSE
      /\ pending[tid[t]] \subseteq {w}
      /\ stmt[t] = "insert" => pending[tid[t]] = {}
      /\ stmt[t] = "end" => pending[tid[t]] = {w}

\* What the call of t, or an earlier one, has committed.
Outcome(t) ==
  /\ stmt[t] = "release" /\ ok[t] => <<t, call[t]>> \in committed
  /\ <<t, "newId">> \in committed =>
       \/ <<t, "newId">> \in returned
       \/ stmt[t] = "release" /\ call[t] = "newId" /\ ok[t]

OutcomeInv ==
  /\ SessionsOwned
  /\ \A t \in Threads : (InTransaction(t) => TransactionOpen(t)) /\ Outcome(t)
  /\ returned \subseteq committed

MyInv == OnlyStatementsFailed => OutcomeInv

LEMMA FailedKinds ==
  ASSUME OnlyStatementsFailed'
  PROVE  /\ \A n : ~Fail({"commit"}, n) /\ ~Fail({"rollback"}, n) /\ ~Fail({"autocommit"}, n)
         /\ \A n : ~Fail({"commit", "rollback"}, n)
<1>1. \A kinds, n : Fail(kinds, n) => kinds \subseteq {"sql", "lost"}
  BY DEF OnlyStatementsFailed, Fail
<1>2. "commit" \notin {"sql", "lost"} /\ "rollback" \notin {"sql", "lost"} /\ "autocommit" \notin {"sql", "lost"}
  OBVIOUS
<1>3. QED
  BY <1>1, <1>2

\* The connection of a transaction is held by its thread.
LEMMA TransactionHeld ==
  ASSUME ControlInv, NEW t \in Threads, InTransaction(t)
  PROVE  tid[t] \in Slots /\ tid[t] \in Held(t) /\ (pc[t] = "use" => i[t] = tid[t])
BY DEF ControlInv, Place, Held, MyTypeOK, TypeOK, InTransaction

\* Nobody else's transaction is on a connection that thread t holds.
LEMMA TransactionsApart ==
  ASSUME PoolInv, ControlInv, NEW t \in Threads, NEW s \in Slots, s \in Held(t),
         NEW u \in Threads \ {t}, InTransaction(u)
  PROVE  tid[u] # s
BY TransactionHeld DEF PoolInv, MutexIffHeld

LEMMA SessionCloses ==
  ASSUME MyTypeOK, NEW s \in Slots, NEW writes, NEW visible, Session(s, TRUE, writes, visible)
  PROVE  /\ autocommit'[s] = TRUE /\ pending'[s] = writes
         /\ \A r \in Slots \ {s} : autocommit'[r] = autocommit[r] /\ pending'[r] = pending[r]
         /\ committed' = committed \cup visible
BY DEF MyTypeOK, Session

LEMMA SessionOpens ==
  ASSUME MyTypeOK, NEW s \in Slots, NEW writes, NEW visible, Session(s, FALSE, writes, visible)
  PROVE  /\ autocommit'[s] = FALSE /\ pending'[s] = writes
         /\ \A r \in Slots \ {s} : autocommit'[r] = autocommit[r] /\ pending'[r] = pending[r]
         /\ committed' = committed \cup visible
BY DEF MyTypeOK, Session

\* A step of t that sends the server nothing and neither begins nor ends its
\* transaction.
LEMMA NoSessionStep ==
  ASSUME ControlInv, OutcomeInv, NEW t \in Threads, MyStep(t), UNCHANGED myDbVars,
         InTransaction(t)' <=> InTransaction(t),
         InTransaction(t) => stmt'[t] = stmt[t] /\ tid'[t] = tid[t],
         Outcome(t)', returned' \subseteq committed
  PROVE  OutcomeInv'
<1>1. \A u \in Threads \ {t} :
         /\ call'[u] = call[u] /\ stmt'[u] = stmt[u] /\ ok'[u] = ok[u] /\ tid'[u] = tid[u]
         /\ \A c : <<u, c>> \in returned' <=> <<u, c>> \in returned
  BY OthersUntouched DEF ControlInv
<1>2. \A u \in Threads \ {t} : (InTransaction(u) => TransactionOpen(u))' /\ Outcome(u)'
  <2>1. ASSUME NEW u \in Threads \ {t} PROVE (InTransaction(u) => TransactionOpen(u))'
    BY <1>1, <2>1 DEF OutcomeInv, InTransaction, TransactionOpen, myDbVars
  <2>2. ASSUME NEW u \in Threads \ {t} PROVE Outcome(u)'
    BY <1>1, <2>2 DEF OutcomeInv, Outcome, myDbVars
  <2>3. QED
    BY <2>1, <2>2
<1>3. \A u \in Threads : InTransaction(u)' <=> InTransaction(u)
  BY <1>1 DEF InTransaction
<1>4. \A u \in Threads : InTransaction(u) => tid'[u] = tid[u]
  BY <1>1
<1>5. SessionsOwned'
  BY <1>3, <1>4 DEF OutcomeInv, SessionsOwned, Quiet, myDbVars
<1>6. (InTransaction(t) => TransactionOpen(t))'
  BY DEF OutcomeInv, TransactionOpen, myDbVars
<1>7. QED
  BY <1>2, <1>5, <1>6 DEF OutcomeInv, myDbVars

\* A step of t on the session of a connection it holds.
LEMMA OwnSessionStep ==
  ASSUME PoolInv, ControlInv, OutcomeInv, NEW t \in Threads, MyStep(t),
         NEW s \in Slots, s \in Held(t), InTransaction(t) => tid[t] = s,
         \A r \in Slots \ {s} : autocommit'[r] = autocommit[r] /\ pending'[r] = pending[r],
         committed \subseteq committed', committed' \subseteq committed \cup ({t} \X Calls),
         \/ InTransaction(t)' /\ tid'[t] = s /\ TransactionOpen(t)'
         \/ ~InTransaction(t)' /\ Quiet(s)',
         Outcome(t)', returned' \subseteq committed'
  PROVE  OutcomeInv'
<1>1. \A u \in Threads \ {t} :
         /\ call'[u] = call[u] /\ stmt'[u] = stmt[u] /\ ok'[u] = ok[u] /\ tid'[u] = tid[u]
         /\ \A c : <<u, c>> \in returned' <=> <<u, c>> \in returned
         /\ \A c : <<u, c>> \in committed' <=> <<u, c>> \in committed
  BY OthersUntouched DEF ControlInv
<1>2. \A u \in Threads \ {t} : InTransaction(u)' <=> InTransaction(u)
  BY <1>1 DEF InTransaction
<1>3. \A u \in Threads \ {t} : InTransaction(u) => tid[u] \in Slots \ {s}
  BY TransactionsApart, TransactionHeld
<1>4. ASSUME NEW u \in Threads \ {t} PROVE (InTransaction(u) => TransactionOpen(u))'
  BY <1>1, <1>2, <1>3 DEF OutcomeInv, TransactionOpen
<1>5. ASSUME NEW u \in Threads \ {t} PROVE Outcome(u)'
  BY <1>1 DEF OutcomeInv, Outcome
<1>6. ASSUME NEW r \in Slots PROVE (Quiet(r) \/ \E u \in Threads : InTransaction(u) /\ tid[u] = r)'
  <2>1. CASE r = s
    BY <2>1
  <2>2. CASE r # s /\ Quiet(r)
    BY <2>2 DEF Quiet
  <2>3. CASE r # s /\ \E u \in Threads : InTransaction(u) /\ tid[u] = r
    BY <1>1, <1>2, <2>3
  <2>4. QED
    BY <2>1, <2>2, <2>3 DEF OutcomeInv, SessionsOwned
<1>7. SessionsOwned'
  BY <1>6 DEF SessionsOwned
<1>8. QED
  BY <1>4, <1>5, <1>7 DEF OutcomeInv

\* A connection in use for a plain statement, or for one that begins a
\* transaction, is in no transaction yet.
LEMMA QuietInUse ==
  ASSUME PoolInv, ControlInv, OutcomeInv, NEW t \in Threads, pc[t] = "use", ~InTransaction(t)
  PROVE  i[t] \in Slots /\ i[t] \in Held(t) /\ Quiet(i[t])
<1>1. i[t] \in Slots /\ i[t] \in Held(t)
  BY DEF PoolInv, TypeOK, Held
<1>2. QED
  BY <1>1, TransactionsApart DEF OutcomeInv, SessionsOwned

\* process without a transaction.
LEMMA ProcessOutcome ==
  ASSUME PoolInv, ControlInv, OutcomeInv, NEW t \in Threads, MyStep(t),
         ProcessOk(t) \/ ProcessThrows(t) \/ RetryThrows(t)
  PROVE  OutcomeInv' /\ committed' \in {committed, committed \cup {<<t, "process">>}}
<1> DEFINE w == <<t, "process">>
<1>1. /\ MyTypeOK /\ stmt[t] = "update" /\ call[t] = "process" /\ pc[t] = "use" /\ ~InTransaction(t)
  BY DEF ControlInv, Place, InTransaction, ProcessOk, ProcessThrows, RetryThrows, ThenRelease, ThrowLocked,
         Unlock, Keep
<1>2. PICK s \in Slots : s = i[t] /\ s \in Held(t) /\ Quiet(s)
  BY <1>1, QuietInUse
<1>3. /\ stmt'[t] \in {"release", "none"} /\ returned' = returned
      /\ stmt'[t] = "release" => call'[t] = "process"
  BY <1>1 DEF MyTypeOK, ProcessOk, ProcessThrows, RetryThrows, ThenRelease, ThrowLocked, GoTo
<1>4. \/ UNCHANGED myDbVars /\ stmt'[t] = "none"
      \/ \E visible \in SUBSET {w} :
           /\ Session(s, TRUE, {}, visible)
           /\ visible = {w} \/ stmt'[t] = "none" \/ ok'[t] = FALSE
  <2>1. CASE ProcessOk(t)
    <3>1. Session(s, TRUE, {}, {w})
      BY <1>1, <1>2, <2>1 DEF ProcessOk, Write, Reopened, Quiet
    <3>2. QED
      BY <3>1
  <2>2. CASE ProcessThrows(t)
    <3>1. stmt'[t] = "none"
      BY <1>1, <2>2 DEF ProcessThrows, ThrowLocked, GoTo, MyTypeOK
    <3>2. UNCHANGED myDbVars \/ \E visible \in SUBSET {w} : Session(s, TRUE, {}, visible)
      BY <1>1, <1>2, <2>2 DEF ProcessThrows, Reopened
    <3>3. QED
      BY <3>1, <3>2
  <2>3. CASE RetryThrows(t)
    <3>1. ok'[t] = FALSE
      BY <1>1, <2>3 DEF RetryThrows, WillThrow, MyTypeOK
    <3>2. \E visible \in SUBSET {w} : Session(s, TRUE, {}, visible)
      BY <1>1, <1>2, <2>3 DEF RetryThrows, Reopened
    <3>3. QED
      BY <3>1, <3>2
  <2>4. QED
    BY <2>1, <2>2, <2>3
<1>5. /\ autocommit'[s] = TRUE /\ pending'[s] = {}
      /\ \A r \in Slots \ {s} : autocommit'[r] = autocommit[r] /\ pending'[r] = pending[r]
      /\ committed \subseteq committed' /\ committed' \subseteq committed \cup {w}
      /\ w \in committed' \/ stmt'[t] = "none" \/ ok'[t] = FALSE
  <2>1. CASE UNCHANGED myDbVars /\ stmt'[t] = "none"
    BY <1>2, <2>1 DEF Quiet, myDbVars
  <2>2. ASSUME NEW visible \in SUBSET {w}, Session(s, TRUE, {}, visible)
        PROVE  /\ autocommit'[s] = TRUE /\ pending'[s] = {}
               /\ \A r \in Slots \ {s} : autocommit'[r] = autocommit[r] /\ pending'[r] = pending[r]
               /\ committed' = committed \cup visible
    BY <1>1, <2>2, SessionCloses
  <2>3. QED
    BY <1>4, <2>1, <2>2
<1>6. ~InTransaction(t)'
  BY <1>3 DEF InTransaction
<1>7. Outcome(t)'
  <2>1. <<t, "newId">> \in committed' => <<t, "newId">> \in returned'
    BY <1>1, <1>3, <1>5 DEF OutcomeInv, Outcome
  <2>2. QED
    BY <1>3, <1>5, <2>1 DEF Outcome
<1>8. returned' \subseteq committed' /\ w \in {t} \X Calls
  BY <1>3, <1>5 DEF OutcomeInv, Calls
<1>9. Quiet(s)' /\ committed' \subseteq committed \cup ({t} \X Calls)
  BY <1>5, <1>8 DEF Quiet
<1>10. OutcomeInv'
  BY <1>1, <1>2, <1>5, <1>6, <1>7, <1>8, <1>9, OwnSessionStep
<1>11. QED
  BY <1>5, <1>10

\* The steps of a transaction that change its session.
LEMMA TransactionOutcome ==
  ASSUME PoolInv, ControlInv, OutcomeInv, NEW t \in Threads, MyStep(t), OnlyStatementsFailed',
         MyStartTransaction(t) \/ GenerateId(t) \/ EndTransaction(t) \/ CancelTransaction(t)
  PROVE  /\ OutcomeInv'
         /\ committed' = IF stmt[t] = "end" THEN committed \cup {<<t, "newId">>} ELSE committed
<1> DEFINE w == <<t, "newId">>
<1>1. MyTypeOK /\ call[t] = "newId" /\ w \in {t} \X Calls
  BY DEF ControlInv, Place, InTransaction, MyStartTransaction, GenerateId, EndTransaction, CancelTransaction, Calls
<1>2. stmt[t] # "release" /\ returned \subseteq committed /\ (w \in committed => w \in returned)
  BY DEF OutcomeInv, Outcome, MyStartTransaction, GenerateId, EndTransaction, CancelTransaction
<1>3. CASE MyStartTransaction(t)
  <2>1. /\ stmt[t] = "start" /\ pc[t] = "use" /\ Session(i[t], FALSE, pending[i[t]], {})
        /\ tid'[t] = i[t] /\ stmt'[t] = "insert" /\ returned' = returned
    BY <1>1, <1>3 DEF MyStartTransaction, Keep, GoTo, MyTypeOK
  <2>2. PICK s \in Slots : s = i[t] /\ s \in Held(t) /\ Quiet(s) /\ ~InTransaction(t)
    BY <2>1, QuietInUse DEF InTransaction
  <2>3. /\ autocommit'[s] = FALSE /\ pending'[s] = {} /\ committed' = committed
        /\ \A r \in Slots \ {s} : autocommit'[r] = autocommit[r] /\ pending'[r] = pending[r]
    <3>1. pending[s] = {} /\ Session(s, FALSE, {}, {})
      BY <2>1, <2>2 DEF Quiet
    <3>2. /\ autocommit'[s] = FALSE /\ pending'[s] = {} /\ committed' = committed \cup {}
          /\ \A r \in Slots \ {s} : autocommit'[r] = autocommit[r] /\ pending'[r] = pending[r]
      BY <1>1, <3>1, SessionOpens
    <3>3. QED
      BY <3>2
  <2>4. InTransaction(t)' /\ tid'[t] = s /\ TransactionOpen(t)' /\ Outcome(t)'
    BY <1>2, <2>1, <2>2, <2>3 DEF InTransaction, TransactionOpen, Outcome
  <2>5. OutcomeInv'
    BY <1>2, <2>1, <2>2, <2>3, <2>4, OwnSessionStep
  <2>6. QED
    BY <2>1, <2>3, <2>5
<1>4. CASE GenerateId(t)
  <2>1. /\ stmt[t] = "insert" /\ InTransaction(t) /\ tid' = tid /\ returned' = returned
        /\ \/ Write(tid[t], w) /\ stmt'[t] = "end"
           \/ (Write(tid[t], w) \/ UNCHANGED myDbVars) /\ stmt'[t] = "cancel"
    BY <1>1, <1>4 DEF GenerateId, GoTo, MyTypeOK, InTransaction
  <2>2. PICK s \in Slots : s = tid[t] /\ s \in Held(t) /\ autocommit[s] = FALSE /\ pending[s] = {}
    BY <2>1, TransactionHeld DEF OutcomeInv, TransactionOpen
  <2>3. /\ autocommit'[s] = FALSE /\ committed' = committed
        /\ pending'[s] = {w} \/ (pending'[s] = {} /\ stmt'[t] = "cancel")
        /\ \A r \in Slots \ {s} : autocommit'[r] = autocommit[r] /\ pending'[r] = pending[r]
    <3>1. CASE Write(s, w)
      <4>1. pending[s] \cup {w} = {w}
        BY <2>2
      <4>2. Session(s, FALSE, {w}, {})
        BY <2>2, <3>1, <4>1 DEF Write
      <4>3. /\ autocommit'[s] = FALSE /\ pending'[s] = {w} /\ committed' = committed \cup {}
            /\ \A r \in Slots \ {s} : autocommit'[r] = autocommit[r] /\ pending'[r] = pending[r]
        BY <1>1, <4>2, SessionOpens
      <4>4. QED
        BY <4>3
    <3>2. CASE UNCHANGED myDbVars /\ stmt'[t] = "cancel"
      BY <2>2, <3>2 DEF myDbVars
    <3>3. QED
      BY <2>1, <2>2, <3>1, <3>2
  <2>4. InTransaction(t)' /\ tid'[t] = s /\ TransactionOpen(t)' /\ Outcome(t)'
    BY <1>2, <2>1, <2>2, <2>3 DEF InTransaction, TransactionOpen, Outcome
  <2>5. OutcomeInv'
    BY <1>2, <2>1, <2>2, <2>3, <2>4, OwnSessionStep
  <2>6. QED
    BY <2>1, <2>3, <2>5
<1>5. CASE EndTransaction(t) \/ CancelTransaction(t)
  <2>1. /\ stmt[t] \in {"end", "cancel"} /\ InTransaction(t) /\ pc[t] = "use"
        /\ stmt'[t] = "release" /\ call'[t] = "newId" /\ returned' = returned
    BY <1>1, <1>5 DEF EndTransaction, CancelTransaction, ThenRelease, Unlock, GoTo, MyTypeOK, InTransaction
  <2>2. PICK s \in Slots : s = i[t] /\ s \in Held(t) /\ tid[t] = s
    BY <2>1, TransactionHeld
  <2>3. /\ stmt[t] = "end" => pending[s] = {w} /\ ok'[t] = TRUE /\ Session(s, TRUE, {}, pending[s])
        /\ stmt[t] = "cancel" => ok'[t] = FALSE /\ Session(s, TRUE, {}, {})
    <3>1. CASE EndTransaction(t)
      BY <1>1, <2>1, <2>2, <3>1 DEF EndTransaction, AutocommitOn, WillReturn, MyTypeOK, OutcomeInv,
                                    TransactionOpen
    <3>2. CASE CancelTransaction(t)
      BY <1>1, <2>2, <3>2, FailedKinds DEF CancelTransaction, WillThrow, MyTypeOK
    <3>3. QED
      BY <1>5, <3>1, <3>2
  <2>4. /\ autocommit'[s] = TRUE /\ pending'[s] = {}
        /\ committed' = IF stmt[t] = "end" THEN committed \cup {w} ELSE committed
        /\ \A r \in Slots \ {s} : autocommit'[r] = autocommit[r] /\ pending'[r] = pending[r]
    <3>1. CASE stmt[t] = "end"
      <4>1. Session(s, TRUE, {}, {w})
        BY <2>3, <3>1
      <4>2. QED
        BY <1>1, <3>1, <4>1, SessionCloses
    <3>2. CASE stmt[t] = "cancel"
      <4>1. Session(s, TRUE, {}, {})
        BY <2>3, <3>2
      <4>2. /\ autocommit'[s] = TRUE /\ pending'[s] = {} /\ committed' = committed \cup {}
            /\ \A r \in Slots \ {s} : autocommit'[r] = autocommit[r] /\ pending'[r] = pending[r]
        BY <1>1, <4>1, SessionCloses
      <4>3. QED
        BY <3>2, <4>2
    <3>3. QED
      BY <2>1, <3>1, <3>2
  <2>5. ~InTransaction(t)' /\ Quiet(s)'
    BY <2>1, <2>4 DEF InTransaction, Quiet
  <2>6. Outcome(t)'
    BY <1>2, <2>1, <2>3, <2>4 DEF Outcome
  <2>7. OutcomeInv'
    BY <1>1, <1>2, <2>1, <2>2, <2>4, <2>5, <2>6, OwnSessionStep
  <2>8. QED
    BY <2>4, <2>7
<1>6. QED
  BY <1>3, <1>4, <1>5

\* The steps that leave all sessions alone.
LEMMA OtherOutcome ==
  ASSUME PoolInv, ControlInv, OutcomeInv, NEW t \in Threads, MyStep(t),
         (\E c \in Calls : MyCall(t, c)) \/ MyGetConnection(t) \/ MyTakeTid(t) \/ Release(t)
  PROVE  OutcomeInv'
<1>1. MyTypeOK /\ Place(t)
  BY DEF ControlInv
<1>2. CASE \E c \in Calls : MyCall(t, c)
  <2>1. PICK c \in Calls : MyCall(t, c)
    BY <1>2
  <2>2. /\ stmt[t] = "none" /\ stmt'[t] \in {"update", "start"} /\ returned' = returned /\ UNCHANGED myDbVars
    BY <1>1, <2>1 DEF MyCall, BeginCall, GoTo, MyTypeOK, Place, myDbVars
  <2>3. ~InTransaction(t) /\ ~InTransaction(t)'
    BY <2>2 DEF InTransaction
  <2>4. Outcome(t)'
    BY <2>2 DEF OutcomeInv, Outcome, myDbVars
  <2>5. QED
    BY <2>2, <2>3, <2>4, NoSessionStep DEF OutcomeInv
<1>3. CASE MyGetConnection(t) \/ MyTakeTid(t)
  <2>1. UNCHANGED <<myCallVars, myDbVars>>
    BY <1>3 DEF MyGetConnection, MyTakeTid
  <2>2. Outcome(t)' /\ (InTransaction(t)' <=> InTransaction(t))
    BY <2>1 DEF OutcomeInv, Outcome, InTransaction, myCallVars, myDbVars
  <2>3. QED
    BY <2>1, <2>2, NoSessionStep DEF OutcomeInv, myCallVars
<1>4. CASE Release(t)
  <2>1. /\ stmt[t] = "release" /\ stmt'[t] = "none" /\ UNCHANGED myDbVars
        /\ returned' = IF ok[t] THEN returned \cup {<<t, call[t]>>} ELSE returned
    BY <1>1, <1>4 DEF Release, EndCall, GoTo, MyTypeOK
  <2>2. ~InTransaction(t) /\ ~InTransaction(t)'
    BY <2>1 DEF InTransaction
  <2>3. Outcome(t)' /\ returned' \subseteq committed
    BY <2>1 DEF OutcomeInv, Outcome, myDbVars
  <2>4. QED
    BY <2>1, <2>2, <2>3, NoSessionStep
<1>5. QED
  BY <1>2, <1>3, <1>4

LEMMA MyInvStep ==
  ASSUME PoolInv, ControlInv, MyInv, [MyNext]_myVars
  PROVE  MyInv'
<1>1. SUFFICES ASSUME OnlyStatementsFailed' PROVE OutcomeInv'
  BY DEF MyInv
<1>2. OnlyStatementsFailed /\ OutcomeInv
  BY <1>1, FaultsGrow DEF ControlInv, OnlyStatementsFailed, MyInv
<1>3. ASSUME NEW t \in Threads, MyStep(t) PROVE OutcomeInv'
  <2>1. ~(StartTransactionThrows(t) \/ EndTransactionThrows(t) \/ CancelTransactionFails(t))
    BY <1>1, FailedKinds DEF StartTransactionThrows, EndTransactionThrows, CancelTransactionFails
  <2>2. stmt[t] # "late"
    BY <1>2 DEF ControlInv, Place, OnlyStatementsFailed
  <2>3. ~(ClearLate(t) \/ LateAutocommit(t))
    BY <2>2 DEF ClearLate, LateAutocommit
  <2>4. QED
    BY <1>1, <1>2, <1>3, <2>1, <2>3, ProcessOutcome, TransactionOutcome, OtherOutcome DEF MyStep
<1>4. CASE UNCHANGED myVars
  BY <1>2, <1>4 DEF myVars, myCallVars, myDbVars, OutcomeInv, SessionsOwned, Quiet, InTransaction,
                    TransactionOpen, Outcome
<1>5. QED
  BY <1>3, <1>4 DEF MyNext

LEMMA MyInvInit == MyInit => MyInv
BY DEF MyInit, CallsInit, MyInv, OutcomeInv, SessionsOwned, Quiet, InTransaction, Outcome

\* As long as only statements and connections fail, a call that returned has
\* committed its write, and a getVishnuCounter that threw has left nothing.
THEOREM MyAllOrNothing == MySpec => []AllOrNothing
<1>1. MyInit => MyInv
  BY MyInvInit
<1>2. PoolInv /\ ControlInv /\ MyInv /\ [MyNext]_myVars => MyInv'
  BY MyInvStep
<1>3. PoolInv /\ ControlInv /\ MyInv => AllOrNothing
  <2>1. SUFFICES ASSUME ControlInv, OutcomeInv PROVE AllOrNothing
    BY DEF MyInv, AllOrNothing
  <2>2. ASSUME NEW t \in Threads, <<t, "newId">> \in thrown
        PROVE  <<t, "newId">> \notin committed /\ call[t] # "newId"
    <3>1. "newId" \in Calls
      BY DEF Calls
    <3>2. call[t] # "newId" /\ <<t, "newId">> \notin returned
      BY <2>1, <2>2, <3>1 DEF ControlInv, Once
    <3>3. QED
      BY <2>1, <3>2 DEF OutcomeInv, Outcome
  <2>3. ASSUME NEW t \in Threads, <<t, "newId">> \in thrown, NEW s \in Slots
        PROVE  <<t, "newId">> \notin pending[s]
    <3>1. CASE Quiet(s)
      BY <3>1 DEF Quiet
    <3>2. CASE \E u \in Threads : InTransaction(u) /\ tid[u] = s
      <4>1. PICK u \in Threads : InTransaction(u) /\ tid[u] = s
        BY <3>2
      <4>2. pending[s] \subseteq {<<u, "newId">>} /\ call[u] = "newId"
        BY <2>1, <4>1 DEF OutcomeInv, TransactionOpen, ControlInv, Place
      <4>3. QED
        BY <2>2, <2>3, <4>2
    <3>3. QED
      BY <2>1, <3>1, <3>2 DEF OutcomeInv, SessionsOwned
  <2>4. QED
    BY <2>1, <2>2, <2>3 DEF AllOrNothing, OutcomeInv
<1>4. QED
  BY <1>1, <1>2, <1>3, MyControl, PTL DEF MySpec

-----------------------------------------------------------------------------
(* MySQL: calls are atomic.  A plain statement lands where it is made, a     *)
(* creation where its transaction is committed, and nothing else lands.      *)

LEMMA BeginsACall ==
  ASSUME MyTypeOK, NEW t \in Threads, NEW c \in Calls, MyCall(t, c)
  PROVE  /\ InProgress' = InProgress \cup {<<t, c>>}
         /\ \A d \in Calls : <<t, d>> \notin InProgress
         /\ UNCHANGED <<committed, returned, thrown>>
<1>1. call[t] = "none" /\ call' = [call EXCEPT ![t] = c] /\ c # "none"
  BY DEF MyCall, BeginCall, Calls
<1>2. \A u \in Threads : call'[u] = IF u = t THEN c ELSE call[u]
  BY <1>1 DEF MyTypeOK
<1>3. InProgress' = InProgress \cup {<<t, c>>}
  BY <1>1, <1>2 DEF InProgress
<1>4. \A d \in Calls : <<t, d>> \notin InProgress
  BY <1>1 DEF InProgress
<1>5. QED
  BY <1>3, <1>4 DEF MyCall, BeginCall

LEMMA EndsACall ==
  ASSUME MyTypeOK, NEW t \in Threads, call[t] # "none", call' = [call EXCEPT ![t] = "none"]
  PROVE  /\ <<t, call[t]>> \in InProgress
         /\ InProgress' = InProgress \ {<<t, call[t]>>}
<1>1. \A u \in Threads : call'[u] = IF u = t THEN "none" ELSE call[u]
  BY DEF MyTypeOK
<1>2. QED
  BY <1>1 DEF InProgress

\* A plain statement.
LEMMA ProcessIsAtomic ==
  ASSUME PoolInv, ControlInv, OutcomeInv, UNCHANGED OnlyStatementsFailed, NEW t \in Threads, MyStep(t),
         ProcessOk(t) \/ ProcessThrows(t) \/ RetryThrows(t)
  PROVE  \/ Atomic!Land(t, "process") \/ Atomic!Throw(t, "process")
         \/ UNCHANGED <<OnlyStatementsFailed, InProgress, committed, returned, thrown>>
<1>1. MyTypeOK /\ call[t] = "process"
  BY DEF ControlInv, Place, ProcessOk, ProcessThrows, RetryThrows
<1>2. committed' \in {committed, committed \cup {<<t, "process">>}}
  BY ProcessOutcome
<1>3. CASE ProcessOk(t) \/ RetryThrows(t)
  <2>1. UNCHANGED <<call, returned, thrown>>
    BY <1>3 DEF ProcessOk, RetryThrows, ThenRelease
  <2>2. UNCHANGED InProgress /\ <<t, "process">> \in InProgress
    BY <1>1, <2>1 DEF InProgress
  <2>3. QED
    BY <1>2, <2>1, <2>2 DEF Atomic!Land
<1>4. CASE ProcessThrows(t)
  <2>1. /\ call' = [call EXCEPT ![t] = "none"]
        /\ thrown' = thrown \cup {<<t, "process">>} /\ UNCHANGED returned
    BY <1>1, <1>4 DEF ProcessThrows, ThrowLocked
  <2>2. /\ <<t, "process">> \in InProgress
        /\ InProgress' = InProgress \ {<<t, "process">>}
    BY <1>1, <2>1, EndsACall
  <2>3. QED
    BY <1>2, <2>1, <2>2 DEF Atomic!Throw
<1>5. QED
  BY <1>3, <1>4

\* The steps of a transaction.
LEMMA TransactionIsAtomic ==
  ASSUME PoolInv, ControlInv, OutcomeInv, OnlyStatementsFailed', UNCHANGED OnlyStatementsFailed,
         NEW t \in Threads, MyStep(t),
         MyStartTransaction(t) \/ GenerateId(t) \/ EndTransaction(t) \/ CancelTransaction(t)
  PROVE  \/ Atomic!Land(t, "newId")
         \/ UNCHANGED <<OnlyStatementsFailed, InProgress, committed, returned, thrown>>
<1>1. call[t] = "newId" /\ UNCHANGED <<call, returned, thrown>>
  BY DEF ControlInv, Place, InTransaction, MyStartTransaction, GenerateId, EndTransaction, CancelTransaction,
         ThenRelease
<1>2. UNCHANGED InProgress /\ <<t, "newId">> \in InProgress
  BY <1>1 DEF InProgress
<1>3. committed' \in {committed, committed \cup {<<t, "newId">>}}
  BY TransactionOutcome
<1>4. QED
  BY <1>1, <1>2, <1>3 DEF Atomic!Land

\* A call that gives its connection back returns, or throws, and by then it is
\* decided what it has written.
LEMMA ReleaseIsAtomic ==
  ASSUME ControlInv, OutcomeInv, UNCHANGED OnlyStatementsFailed, NEW t \in Threads, Release(t)
  PROVE  \E c \in Calls : Atomic!Return(t, c) \/ Atomic!Throw(t, c)
<1> DEFINE c == call[t]
<1>1. /\ MyTypeOK /\ stmt[t] = "release" /\ c \in Calls /\ c # "none"
      /\ call' = [call EXCEPT ![t] = "none"] /\ UNCHANGED committed
      /\ returned' = IF ok[t] THEN returned \cup {<<t, c>>} ELSE returned
      /\ thrown' = IF ok[t] THEN thrown ELSE thrown \cup {<<t, c>>}
  BY DEF ControlInv, MyTypeOK, Place, Release, EndCall, myDbVars
<1>2. <<t, c>> \in InProgress /\ InProgress' = InProgress \ {<<t, c>>}
  BY <1>1, EndsACall
<1>3. CASE ok[t]
  <2>1. <<t, c>> \in committed
    BY <1>1, <1>3 DEF OutcomeInv, Outcome
  <2>2. Atomic!Return(t, c)
    BY <1>1, <1>2, <1>3, <2>1 DEF Atomic!Return
  <2>3. QED
    BY <1>1, <2>2
<1>4. CASE ~ok[t]
  <2>1. c \in {"newId"} => <<t, c>> \notin committed'
    <3>1. <<t, c>> \notin returned
      BY <1>1 DEF ControlInv, Once
    <3>2. QED
      BY <1>1, <1>4, <3>1 DEF OutcomeInv, Outcome
  <2>2. Atomic!Throw(t, c)
    BY <1>1, <1>2, <1>4, <2>1 DEF Atomic!Throw
  <2>3. QED
    BY <1>1, <2>2
<1>5. QED
  BY <1>3, <1>4

LEMMA StepIsAtomicStep ==
  ASSUME PoolInv, ControlInv, MyInv, [MyNext]_myVars
  PROVE  [Atomic!Next]_<<OnlyStatementsFailed, InProgress, committed, returned, thrown>>
<1>1. CASE ~OnlyStatementsFailed'
  <2>1. OnlyStatementsFailed' = FALSE
    BY <1>1 DEF OnlyStatementsFailed
  <2>2. QED
    BY <2>1 DEF Atomic!Next
<1>2. CASE OnlyStatementsFailed'
  <2>1. OnlyStatementsFailed /\ OutcomeInv /\ UNCHANGED OnlyStatementsFailed
    BY <1>2, FaultsGrow DEF ControlInv, OnlyStatementsFailed, MyInv
  <2>2. ASSUME NEW t \in Threads, MyStep(t)
        PROVE  \/ \E c \in Calls : \/ Atomic!Begin(t, c) \/ Atomic!Land(t, c)
                                   \/ Atomic!Return(t, c) \/ Atomic!Throw(t, c)
               \/ UNCHANGED <<OnlyStatementsFailed, InProgress, committed, returned, thrown>>
    <3>1. ~(StartTransactionThrows(t) \/ EndTransactionThrows(t) \/ CancelTransactionFails(t))
      BY <1>2, FailedKinds DEF StartTransactionThrows, EndTransactionThrows, CancelTransactionFails
    <3>2. stmt[t] # "late"
      BY <2>1 DEF ControlInv, Place, OnlyStatementsFailed
    <3>3. ~(ClearLate(t) \/ LateAutocommit(t))
      BY <3>2 DEF ClearLate, LateAutocommit
    <3>4. ASSUME NEW c \in Calls, MyCall(t, c)
          PROVE  Atomic!Begin(t, c)
      <4>1. <<t, c>> \notin returned \cup thrown
        BY <3>4 DEF MyCall, BeginCall, ControlInv, Once
      <4>2. QED
        BY <2>1, <3>4, <4>1, BeginsACall DEF ControlInv, Atomic!Begin
    <3>5. CASE MyGetConnection(t) \/ MyTakeTid(t)
      BY <2>1, <3>5 DEF MyGetConnection, MyTakeTid, myCallVars, myDbVars, InProgress
    <3>6. "process" \in Calls /\ "newId" \in Calls
      BY DEF Calls
    <3>7. QED
      BY <1>2, <2>1, <2>2, <3>1, <3>3, <3>4, <3>5, <3>6, ProcessIsAtomic, TransactionIsAtomic,
         ReleaseIsAtomic DEF MyStep
  <2>3. CASE UNCHANGED myVars
    BY <2>1, <2>3 DEF myVars, myCallVars, myDbVars, InProgress
  <2>4. QED
    BY <2>2, <2>3 DEF MyNext, Atomic!Next
<1>3. QED
  BY <1>1, <1>2

\* As long as only statements and connections fail, a call of a thread is atomic
\* for all others: this is why a statement is one step elsewhere
\* (MYSQLDatabase::process, startTransaction, endTransaction).
THEOREM MyCallsAreAtomic == MySpec => AtomicCallsSpec
<1>1. MyInit => Atomic!Init /\ MyInv
  <2>1. MyInit => Atomic!Init
    BY DEF MyInit, CallsInit, Atomic!Init, InProgress, OnlyStatementsFailed
  <2>2. QED
    BY <2>1, MyInvInit
<1>2. PoolInv /\ ControlInv /\ MyInv /\ [MyNext]_myVars => MyInv'
  BY MyInvStep
<1>3. PoolInv /\ ControlInv /\ MyInv /\ [MyNext]_myVars
        => [Atomic!Next]_<<OnlyStatementsFailed, InProgress, committed, returned, thrown>>
  BY StepIsAtomicStep
<1>4. QED
  BY <1>1, <1>2, <1>3, MyControl, PTL DEF MySpec, AtomicCallsSpec, Atomic!Spec, Atomic!atomicVars
=============================================================================
