------------------------- MODULE MySqlTransactions -------------------------
(***************************************************************************)
(* MYSQLDatabase::process, getResult, start/end/cancelTransaction and      *)
(* generateId.                                                             *)
(*                                                                         *)
(* Unlike PostgreSQL's, the statements of a transaction run on the         *)
(* connection the transaction id names; a transaction is a connection in   *)
(* autocommit=false.  The operations between two pool operations of a      *)
(* thread touch only the connection it holds, so they are one step.        *)
(*                                                                         *)
(* A statement whose connection is lost may have been executed before it   *)
(* is sent again, or before the call throws; a write is in committed or    *)
(* not, so a second execution does not show.                               *)
(***************************************************************************)
EXTENDS Transactions

CONSTANT Faults   \* the operations of the server that may fail

ASSUME FaultsAssumption ==
  Faults \subseteq {"sql", "lost", "commit", "rollback", "autocommit"}

\* Where a call is: "release" and "late" are followed by the end of the call.
MyPlaces == {"none", "update", "start", "insert", "end", "cancel", "release", "late"}

VARIABLES ok,          \* will the call of each thread return (or throw)
          autocommit,  \* mode of the server session of each slot
          thrown,      \* calls that threw
          failures     \* the kinds of operations that have failed

myCallVars == <<todo, call, stmt, ok, tid, returned, thrown>>
myDbVars == <<autocommit, pending, committed>>
faultVars == <<errors, failures>>
myVars == <<poolVars, myCallVars, myDbVars, faultVars>>

\* The pool, the calls of the threads, and the sessions of the server; a
\* transaction id is a slot.
MyTypeOK ==
  /\ TypeOK
  /\ todo \in [Threads -> SUBSET Calls]
  /\ call \in [Threads -> Calls \cup {"none"}]
  /\ stmt \in [Threads -> MyPlaces]
  /\ ok \in [Threads -> BOOLEAN]
  /\ tid \in [Threads -> Slots \cup {NoTid}]
  /\ autocommit \in [Slots -> BOOLEAN]
  /\ pending \in [Slots -> SUBSET Writes]
  /\ committed \in SUBSET Writes
  /\ returned \in SUBSET Writes
  /\ thrown \in SUBSET Writes
  /\ errors \in 0 .. MaxErrors
  /\ failures \in SUBSET Faults

MyInit ==
  /\ CallsInit
  /\ ok = [t \in Threads |-> FALSE]
  /\ autocommit = [s \in Slots |-> TRUE]
  /\ thrown = {}
  /\ failures = {}

-----------------------------------------------------------------------------
(* MySQL, on the session of slot s *)

Session(s, mode, writes, visible) ==
  /\ autocommit' = [autocommit EXCEPT ![s] = mode]
  /\ pending' = [pending EXCEPT ![s] = writes]
  /\ committed' = committed \cup visible

Write(s, w) ==
  IF autocommit[s] THEN Session(s, TRUE, {}, {w})
                   ELSE Session(s, FALSE, pending[s] \cup {w}, {})

\* Turning autocommit on commits what is pending.
AutocommitOn(s) == Session(s, TRUE, {}, pending[s])

Rollback(s) == Session(s, autocommit[s], {}, {})

\* n operations of these kinds fail.
Fail(kinds, n) ==
  /\ kinds \subseteq Faults
  /\ errors + n <= MaxErrors
  /\ errors' = errors + n
  /\ failures' = failures \cup kinds

-----------------------------------------------------------------------------
(* The calls *)

WillReturn(t) == ok' = [ok EXCEPT ![t] = TRUE]
WillThrow(t) == ok' = [ok EXCEPT ![t] = FALSE]

MyCall(t, c) ==
  /\ BeginCall(t, c, "start")
  /\ WillReturn(t)
  /\ UNCHANGED <<thrown, autocommit, failures>>

MyGetConnection(t) == Acquiring(t) /\ UNCHANGED <<myCallVars, myDbVars, faultVars>>

\* The end of a call that gives its connection back first.
ThenRelease(t) ==
  /\ Unlock(t)
  /\ GoTo(t, "release")
  /\ UNCHANGED <<todo, call, returned, thrown>>

\* A call that ends in the same step without giving its connection back.
ThrowLocked(t) ==
  /\ Keep(t)
  /\ GoTo(t, "none")
  /\ call' = [call EXCEPT ![t] = "none"]
  /\ thrown' = thrown \cup {<<t, call[t]>>}
  /\ UNCHANGED <<todo, ok, returned>>

\* When the server has gone away the connection is reopened; whether the
\* statement that was under way had been executed is unknown.
Reopened(t, visible) ==
  /\ visible \subseteq {<<t, call[t]>>}
  /\ Session(i[t], TRUE, {}, visible)

\* process without a transaction: a lost statement is sent again.
ProcessOk(t) ==
  /\ stmt[t] = "update"
  /\ ThenRelease(t)
  /\ \/ /\ Write(i[t], <<t, call[t]>>)
        /\ UNCHANGED faultVars
     \/ /\ Fail({"lost"}, 1)
        /\ Reopened(t, {<<t, call[t]>>})
  /\ WillReturn(t)
  /\ UNCHANGED tid

\* An SQL error, or a connection that cannot be reopened, throws at once; only
\* an error of the second attempt releases the connection.
ProcessThrows(t) ==
  /\ stmt[t] = "update"
  /\ ThrowLocked(t)
  /\ \/ Fail({"sql"}, 1) /\ UNCHANGED myDbVars
     \/ Fail({"lost"}, 2) /\ \E visible \in SUBSET Writes : Reopened(t, visible)
  /\ UNCHANGED tid

RetryThrows(t) ==
  /\ stmt[t] = "update"
  /\ ThenRelease(t)
  /\ Fail({"lost", "sql"}, 2)
  /\ \E visible \in SUBSET Writes : Reopened(t, visible)
  /\ WillThrow(t)
  /\ UNCHANGED tid

\* Mutant of MyStartTransaction: the connection is released.
MyStartTransactionReleases(t) ==
  /\ stmt[t] = "start"
  /\ Unlock(t)
  /\ Session(i[t], FALSE, pending[i[t]], {})
  /\ tid' = [tid EXCEPT ![t] = i[t]]
  /\ GoTo(t, "insert")
  /\ UNCHANGED <<todo, call, ok, returned, thrown, faultVars>>

MyStartTransaction(t) ==
  /\ stmt[t] = "start"
  /\ Keep(t)
  /\ Session(i[t], FALSE, pending[i[t]], {})
  /\ tid' = [tid EXCEPT ![t] = i[t]]
  /\ GoTo(t, "insert")
  /\ UNCHANGED <<todo, call, ok, returned, thrown, faultVars>>

\* Mutant of StartTransactionThrows: the connection is not released.
StartTransactionThrowsLocked(t) ==
  /\ stmt[t] = "start"
  /\ ThrowLocked(t)
  /\ Fail({"autocommit"}, 1)
  /\ UNCHANGED <<tid, myDbVars>>

StartTransactionThrows(t) ==
  /\ stmt[t] = "start"
  /\ ThenRelease(t)
  /\ Fail({"autocommit"}, 1)
  /\ WillThrow(t)
  /\ UNCHANGED <<tid, myDbVars>>

\* Mutant of GenerateId: an error ends the transaction instead of cancelling it.
GenerateIdEnds(t) ==
  /\ stmt[t] = "insert"
  /\ \/ /\ Write(tid[t], <<t, call[t]>>)
        /\ GoTo(t, "end")
        /\ UNCHANGED <<ok, faultVars>>
     \/ /\ Fail({"sql"}, 1)
        /\ Write(tid[t], <<t, call[t]>>) \/ UNCHANGED myDbVars
        /\ GoTo(t, "end")
        /\ WillThrow(t)
  /\ UNCHANGED <<poolVars, todo, call, tid, returned, thrown>>

\* generateId: the INSERT and the SELECT LAST_INSERT_ID() on connection tid.
\* An error of the SELECT leaves the row of the INSERT pending.
GenerateId(t) ==
  /\ stmt[t] = "insert"
  /\ \/ /\ Write(tid[t], <<t, call[t]>>)
        /\ GoTo(t, "end")
        /\ UNCHANGED faultVars
     \/ /\ Fail({"sql"}, 1)
        /\ Write(tid[t], <<t, call[t]>>) \/ UNCHANGED myDbVars
        /\ GoTo(t, "cancel")
  /\ UNCHANGED <<poolVars, todo, call, ok, tid, returned, thrown>>

\* Both ends of a transaction work on the connection of the id and release it.
MyTakeTid(t) ==
  /\ stmt[t] \in {"end", "cancel"}
  /\ Resume(t, tid[t])
  /\ UNCHANGED <<myCallVars, myDbVars, faultVars>>

EndTransaction(t) ==
  /\ stmt[t] = "end"
  /\ ThenRelease(t)
  /\ tid' = [tid EXCEPT ![t] = NoTid]
  /\ AutocommitOn(i[t])
  /\ WillReturn(t)
  /\ UNCHANGED faultVars

\* Mutant of EndTransactionThrows: the connection is not released.
EndTransactionThrowsLocked(t) ==
  /\ stmt[t] = "end"
  /\ ThrowLocked(t)
  /\ tid' = [tid EXCEPT ![t] = NoTid]
  /\ \/ Fail({"commit"}, 1) /\ Rollback(i[t])
     \/ Fail({"commit", "rollback"}, 2) /\ UNCHANGED myDbVars
     \/ Fail({"autocommit"}, 1) /\ Session(i[t], FALSE, {}, pending[i[t]])

\* A failed commit is rolled back, and a failed rollback leaves the writes
\* pending; in every failed case autocommit stays off.
EndTransactionThrows(t) ==
  /\ stmt[t] = "end"
  /\ ThenRelease(t)
  /\ tid' = [tid EXCEPT ![t] = NoTid]
  /\ WillThrow(t)
  /\ \/ Fail({"commit"}, 1) /\ Rollback(i[t])
     \/ Fail({"commit", "rollback"}, 2) /\ UNCHANGED myDbVars
     \/ Fail({"autocommit"}, 1) /\ Session(i[t], FALSE, {}, pending[i[t]])

\* The result of the last mysql_autocommit is ignored.
CancelTransaction(t) ==
  /\ stmt[t] = "cancel"
  /\ ThenRelease(t)
  /\ tid' = [tid EXCEPT ![t] = NoTid]
  /\ WillThrow(t)
  /\ \/ Session(i[t], TRUE, {}, {}) /\ UNCHANGED faultVars
     \/ Fail({"autocommit"}, 1) /\ Rollback(i[t])

\* When the rollback fails the connection is released first and autocommit
\* turned on afterwards, on a connection that may be somebody else's by then.
CancelTransactionFails(t) ==
  /\ stmt[t] = "cancel"
  /\ Fail({"rollback"}, 1)
  /\ Unlock(t)
  /\ GoTo(t, "late")
  /\ WillThrow(t)
  /\ UNCHANGED <<todo, call, tid, returned, thrown, myDbVars>>

ClearLate(t) ==
  /\ stmt[t] = "late"
  /\ ClearUsed(t)
  /\ UNCHANGED <<myCallVars, myDbVars, faultVars>>

EndCall(t) ==
  /\ GoTo(t, "none")
  /\ call' = [call EXCEPT ![t] = "none"]
  /\ returned' = IF ok[t] THEN returned \cup {<<t, call[t]>>} ELSE returned
  /\ thrown' = IF ok[t] THEN thrown ELSE thrown \cup {<<t, call[t]>>}
  /\ UNCHANGED <<todo, ok>>

LateAutocommit(t) ==
  /\ stmt[t] = "late"
  /\ pc[t] = "idle"
  /\ EndCall(t)
  /\ AutocommitOn(tid[t])
  /\ tid' = [tid EXCEPT ![t] = NoTid]
  /\ UNCHANGED <<poolVars, faultVars>>

Release(t) ==
  /\ stmt[t] = "release"
  /\ ClearUsed(t)
  /\ EndCall(t)
  /\ UNCHANGED <<tid, myDbVars, faultVars>>

MyStep(t) ==
  \/ \E c \in Calls : MyCall(t, c)
  \/ MyGetConnection(t)
  \/ ProcessOk(t) \/ ProcessThrows(t) \/ RetryThrows(t)
  \/ MyStartTransaction(t) \/ StartTransactionThrows(t)
  \/ GenerateId(t)
  \/ MyTakeTid(t)
  \/ EndTransaction(t) \/ EndTransactionThrows(t)
  \/ CancelTransaction(t) \/ CancelTransactionFails(t)
  \/ ClearLate(t) \/ LateAutocommit(t)
  \/ Release(t)

MyNext == \E t \in Threads : MyStep(t)

MySpec == MyInit /\ [][MyNext]_myVars

\* Threads run: each one takes its next step as long as it has one.
MyFairSpec == MySpec /\ \A t \in Threads : WF_myVars(MyStep(t))

-----------------------------------------------------------------------------
(* Properties *)

\* What calls rely on: no commit, rollback or change of mode has failed.
OnlyStatementsFailed == failures \subseteq {"sql", "lost"}

\* A call that returned without an exception did its write for good.  A
\* getVishnuCounter that threw left nothing behind: neither its row nor a
\* pending write that the next user of the connection would commit.  (Whether a
\* plain UPDATE that threw was executed before the connection was lost is
\* unknown to its caller.)  Statements and connections may fail in between; a
\* commit, a rollback or a change of mode that fails leaves the connection in
\* autocommit=false, and then nothing is promised.
AllOrNothing ==
  OnlyStatementsFailed =>
    /\ returned \subseteq committed
    /\ \A t \in Threads : <<t, "newId">> \in thrown =>
          /\ <<t, "newId">> \notin committed
          /\ \A s \in Slots : <<t, "newId">> \notin pending[s]

\* As long as only statements and connections fail, calls are atomic, as
\* AtomicCalls says: what one thread leaves on a connection is never committed by
\* the call of another, and no write lands after its call has ended.
InProgress == {<<t, call[t]>> : t \in {u \in Threads : call[u] # "none"}}
Atomic == INSTANCE AtomicCalls WITH
  Creations <- {"newId"}, reliable <- OnlyStatementsFailed, inProgress <- InProgress
AtomicCallsSpec == Atomic!Spec

\* A thread only talks through connections it has locked, also in a
\* transaction, whose statements never call getConnection: the client library
\* does not allow two threads on one MYSQL handle.  The one exception is the
\* mode that cancelTransaction changes after a rollback that failed.
TalksOnlyToItsOwn ==
  \A t \in Threads :
     /\ stmt[t] \in {"insert", "end", "cancel"} => tid[t] \in Held(t)
     /\ stmt[t] = "late" => "rollback" \in failures
     /\ pc[t] = "use" => i[t] \in Held(t)

\* The connections that failed plain statements have taken out of the pool for
\* good: process throws with its connection locked.  What a thread keeps besides
\* is the connection of its running transaction.
Lost ==
  {s \in Slots : \E t \in Threads :
     /\ s \in kept[t] /\ <<t, "process">> \in thrown
     /\ ~(stmt[t] \in {"insert", "end", "cancel"} /\ tid[t] = s)}

\* MYSQLDatabase.cpp:237, getConnection "will block until a connection is
\* free", and one becomes free: every call ends, whatever the other threads do
\* and whatever fails, unless all connections have been lost, or one whose flag
\* a late release has lowered: getConnection tries its mutex again and again
\* and never looks at the next slot.
EveryCallEnds ==
  \/ <>[](\A t \in Threads : call[t] = "none" /\ todo[t] = {})
  \/ <>(Lost = Slots \/ \E s \in Lost : ~mused[s])

\* Between calls a thread keeps no connection locked, however many operations
\* of its transaction failed one after the other; only a plain statement that
\* threw may leave one.
NothingLeftLocked ==
  \A t \in Threads :
    call[t] = "none" => Held(t) = {} \/ <<t, "process">> \in thrown
=============================================================================
