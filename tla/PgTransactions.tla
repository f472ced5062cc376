--------------------------- MODULE PgTransactions ---------------------------
(***************************************************************************)
(* POSTGREDatabase::process, getResult, start/end/cancelTransaction and    *)
(* generateId.                                                             *)
(*                                                                         *)
(* process and getResult ignore their transacId argument: every statement, *)
(* BEGIN and COMMIT included, runs on whichever connection getConnection   *)
(* returns, while the connection startTransaction took stays locked and    *)
(* idle.  A statement and the unlock that follows it are one step: nobody  *)
(* else can use the connection between the two.                            *)
(***************************************************************************)
EXTENDS Transactions

\* Mutants of OnOk: the transaction is cancelled after a successful INSERT;
\* endTransaction does not release the connection.
OnOkCancels == [update |-> "none", begin |-> "insert", insert |-> "rollback",
                commit |-> "return", rollback |-> "return",
                return |-> "none", throw |-> "none"]

\* What a call does after a statement that succeeded, or that threw.
OnOk == [update |-> "none", begin |-> "insert", insert |-> "commit",
         commit |-> "return", rollback |-> "throw",
         return |-> "none", throw |-> "none"]
OnError == [update |-> "none", begin |-> "none", insert |-> "rollback",
            commit |-> "none", rollback |-> "none"]
Statements == DOMAIN OnError            \* these reach the server
PgPlaces == DOMAIN OnOk \cup {"none", "tid"}

VARIABLES failed,     \* did the last statement of each thread throw
          session     \* transaction state of the server session of each slot

pgCallVars == <<todo, call, stmt, failed, tid, returned>>
pgDbVars == <<session, pending, committed, errors>>
pgVars == <<poolVars, pgCallVars, pgDbVars>>

PgInit ==
  /\ CallsInit
  /\ failed = [t \in Threads |-> FALSE]
  /\ session = [s \in Slots |-> "idle"]

-----------------------------------------------------------------------------
(* PostgreSQL, on the session of slot s *)

Server(s, state, writes, visible) ==
  /\ session' = [session EXCEPT ![s] = state]
  /\ pending' = [pending EXCEPT ![s] = writes]
  /\ committed' = committed \cup visible

\* Without an open transaction a write commits by itself.
WriteOk(s, w) ==
  \/ session[s] = "idle" /\ Server(s, "idle", {}, {w})
  \/ session[s] = "open" /\ Server(s, "open", pending[s] \cup {w}, {})

\* BEGIN inside a transaction is a warning.
BeginOk(s) ==
  /\ session[s] \in {"idle", "open"}
  /\ Server(s, "open", pending[s], {})

\* COMMIT outside a transaction is a warning, of an aborted one a rollback.
CommitOk(s) ==
  /\ session[s] # "lost"
  /\ Server(s, "idle", {}, IF session[s] = "open" THEN pending[s] ELSE {})

RollbackOk(s) == session[s] # "lost" /\ Server(s, "idle", {}, {})

StmtOk(t, s) ==
  \/ stmt[t] \in {"update", "insert"} /\ WriteOk(s, <<t, call[t]>>)
  \/ stmt[t] = "begin" /\ BeginOk(s)
  \/ stmt[t] = "commit" /\ CommitOk(s)
  \/ stmt[t] = "rollback" /\ RollbackOk(s)

\* An aborted transaction refuses every statement but its end; a connection
\* that broke is never reopened; otherwise an error uses up the bound.
StmtFails(t, s) ==
  \/ /\ \/ session[s] = "lost"
        \/ session[s] = "aborted" /\ stmt[t] \in {"update", "insert", "begin"}
     /\ UNCHANGED pgDbVars
  \/ /\ session[s] \in {"idle", "open"}
     /\ stmt[t] \in {"update", "insert"}
     /\ errors < MaxErrors
     /\ errors' = errors + 1
     /\ Server(s, IF session[s] = "open" THEN "aborted" ELSE "idle", {}, {})
  \/ /\ session[s] # "lost"
     /\ errors < MaxErrors
     /\ errors' = errors + 1
     /\ Server(s, "lost", {}, {})

-----------------------------------------------------------------------------
(* The calls *)

PgCall(t, c) == BeginCall(t, c, "tid") /\ UNCHANGED <<failed, session>>

PgGetConnection(t) == Acquiring(t) /\ UNCHANGED <<pgCallVars, pgDbVars>>

\* Mutant of PgStartTransaction: the connection is released before BEGIN.
PgStartTransactionReleases(t) ==
  /\ stmt[t] = "tid"
  /\ Unlock(t)
  /\ tid' = [tid EXCEPT ![t] = i[t]]
  /\ GoTo(t, "begin")
  /\ UNCHANGED <<todo, call, failed, returned, pgDbVars>>

\* startTransaction keeps the connection and sends BEGIN through process.
PgStartTransaction(t) ==
  /\ stmt[t] = "tid"
  /\ Keep(t)
  /\ tid' = [tid EXCEPT ![t] = i[t]]
  /\ GoTo(t, "begin")
  /\ UNCHANGED <<todo, call, failed, returned, pgDbVars>>

NextStatement(t) ==
  /\ stmt[t] \in Statements \ {"update"}
  /\ Start(t)
  /\ UNCHANGED <<pgCallVars, pgDbVars>>

\* PQexec and the unlock of releaseConnection.
Execute(t) ==
  /\ stmt[t] \in Statements
  /\ Unlock(t)
  /\ \/ /\ StmtOk(t, i[t])
        /\ failed' = [failed EXCEPT ![t] = FALSE]
        /\ UNCHANGED errors
     \/ /\ StmtFails(t, i[t])
        /\ failed' = [failed EXCEPT ![t] = TRUE]
  /\ UNCHANGED <<todo, call, stmt, tid, returned>>

\* endTransaction and cancelTransaction release the connection of tid.
PgTakeTid(t) ==
  /\ stmt[t] \in {"return", "throw"}
  /\ Resume(t, tid[t])
  /\ tid' = [tid EXCEPT ![t] = NoTid]
  /\ UNCHANGED <<todo, call, stmt, failed, returned, pgDbVars>>

ReleaseTid(t) ==
  /\ stmt[t] \in {"return", "throw"}
  /\ Unlock(t)
  /\ UNCHANGED <<pgCallVars, pgDbVars>>

\* The rest of releaseConnection and what the caller does next.  An error of
\* BEGIN, COMMIT or ROLLBACK leaves the call without releasing tid.
Continue(t) ==
  LET next == IF failed[t] THEN OnError[stmt[t]] ELSE OnOk[stmt[t]]
  IN  /\ ClearUsed(t)
      /\ GoTo(t, next)
      /\ call' = IF next = "none" THEN [call EXCEPT ![t] = "none"] ELSE call
      /\ returned' = IF next = "none" /\ ~failed[t] /\ stmt[t] # "throw"
                       THEN returned \cup {<<t, call[t]>>} ELSE returned
      /\ UNCHANGED <<todo, failed, tid, pgDbVars>>

PgStep(t) ==
  \/ \E c \in Calls : PgCall(t, c)
  \/ PgGetConnection(t)
  \/ PgStartTransaction(t)
  \/ NextStatement(t)
  \/ Execute(t)
  \/ PgTakeTid(t)
  \/ ReleaseTid(t)
  \/ Continue(t)

PgNext == \E t \in Threads : PgStep(t)

PgSpec == PgInit /\ [][PgNext]_pgVars

-----------------------------------------------------------------------------
(* Properties *)

\* Database.hpp:25, "transacId the id of the transaction if one is used":
\* a statement sent without a transaction is in no transaction.
PlainWritesCommit ==
  \A t \in Threads :
     <<t, "process">> \in returned => <<t, "process">> \in committed

\* A write whose call returned is committed, or still sits in a transaction
\* that some other statement's connection was left in, as long as no statement
\* fails.
ReturnedNotLost ==
  errors = 0 => \A w \in returned : w \in committed \/ \E s \in Slots : w \in pending[s]

\* The connection of a transaction stays locked until its end: nobody else
\* is given the slot named by the transaction id.
TransactionKeepsItsConnection ==
  \A t \in Threads : tid[t] # NoTid => mmutex[tid[t]] = t
=============================================================================
