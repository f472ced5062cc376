# VISHNU in TLA+

Specifications, model-checking configurations and machine-checked proofs for
VISHNU, a distributed resource manager: users open sessions on a server,
submit jobs to the batch schedulers of machines and move files between them.
Paths below are relative to the root of the repository, and lines are those of
the commit the modules were written against.

Contents:
[the system](#1-the-system) ·
[the plan](#2-the-plan) ·
[the modules](#3-the-modules) ·
[the runs](#4-the-runs) ·
[fairness and deadlock](#5-fairness-and-deadlock) ·
[proofs](#6-proofs) ·
[where the code departs from its documents](#7-where-the-code-departs-from-its-documents) ·
[limits](#8-limits)

## 1. The system

A **client** (command line, API or binding) serializes a call and sends it with
`diet_call` over ZeroMQ, to the servers its configuration names and then to the
**dispatcher**, which keeps a directory of servers and relays. A **server**
(`xmssed`) is two processes: the parent runs a pool of worker threads that
execute the services of UMS (users and sessions), TMS (jobs) and FMS (files);
the forked child runs `MonitorXMS`, an endless loop over the sessions, jobs and
transfers. The two processes, and all the servers, share nothing but a
**database** (PostgreSQL or MySQL). Jobs run in a **batch scheduler**; commands
on other machines run through **ssh**. Almost every request is a sequence of SQL
statements in autocommit mode: what happens between two of them is where the
system is hard.

### Components

**Connection pool and transactions** (`core/src/database`).
State: an array of slots, each with a flag `mused` read without a lock, a mutex
and a server session with its transaction mode. Operations: `getConnection`,
`releaseConnection`, `process`, `getResult`, `startTransaction`,
`endTransaction`, `cancelTransaction`, `generateId`. Used by every thread of
server and monitor. Hard: the flag is read and lowered outside the mutex; calls
throw with a connection in hand; commit, rollback and the autocommit mode fail
one by one. Correct if: a connection is used by one thread; none is lost; a call
that returned has committed; a call that threw left nothing.

**Sessions and their monitor** (`UMS/src/server/SessionServer.cpp`,
`CommandServer.cpp`, `UserServer.cpp`, `XMS/src/MonitorXMS.cpp`,
`XMS/src/internalApiUMS.cpp`). State: tables `users`, `vsession`, `command`.
Operations: connect (also for another user), change and reset a password, use a
session, close it, lock, unlock and delete a user; the monitor closes idle
sessions. Hard: checks and the writes they guard are separate statements;
several requests use one session; the monitor acts on an old SELECT; each statement
may fail, and the monitor then exits, or the server ends between two of them. Correct
if: a closed session is never active again; the history agrees with what callers
were told; a lock that succeeded leaves no session; idle sessions are closed in the end.

**Jobs and their monitor** (`TMS/src/server/JobServer.cpp`,
`JobOutputServer.cpp`, `MonitorXMS.cpp`). State: table `job`, and the scheduler's
own state. Operations: submit, cancel one or many, fetch outputs, poll.
Hard: the row and the scheduler are two sources of truth, updated one after the
other by three parties; the server forks for each submission; errors and crashes
fall in between. Correct if: what the row says is true of the scheduler; a final
status is final; ends are noticed; only owners and administrators cancel.

**File transfers and their monitor** (`FMS/src/server/FileTransferServer.cpp`,
`FileTransferCommand.cpp`, `FMS/src/client/RemoteFileProxy.cpp`,
`MonitorXMS.cpp`). State: table `filetransfer`, files, threads that run `scp` or
`rsync`. Operations: cp, mv, acp, amv, stop, a client's own transfer and its
report; the monitor fails transfers whose process is gone. Hard: thread, stop
request and monitor write one status; the exit status of a command is lost; an
exception in a thread ends the server. Correct if: a completed transfer reported
no problem; an answer is the truth; nothing stays in progress; a file survives
its move.

**Remote calls, dispatcher, directory** (`communication/`). State: the
dispatcher's `Annuary`, its workers, requests and answers on their way.
Operations: call with timeout and retries (lazy pirate), elect and relay,
subscribe, heartbeat. Hard: answers are lost or late; a retry repeats what was
done; servers and dispatcher end and come back; heartbeats work on a copy of the
directory. Correct if: success is only told of a call that had success; the
number of executions is bounded; calls end; the directory follows the servers.

**Identifiers** (`core/src/utils/utilServer.cpp`). State: the tables of the objects
and their auto-increment counters. `getVishnuCounter` inserts a placeholder,
`reserveObjectId` looks for a free identifier, appending the key until it finds
one, and writes it into the row; its mutex is a local variable. Hard: the search,
the write and the count that follows are separate statements. Correct if: two
creations answered "done" never gave one identifier, and a creator gets one in the
end.

**Users, machines, accounts, works** (`UMS/src/server/UserServer.cpp`,
`MachineServer.cpp`, `LocalAccountServer.cpp`, `AuthSystemServer.cpp`,
`AuthAccountServer.cpp`, `TMS/src/server/WorkServer.cpp`). Rows with a status; a
check, then an INSERT or UPDATE; deleting a machine or user is several UPDATEs.
Correct if: an account and a login are unique; nothing active hangs on something
deleted; a failed creation leaves no usable row.

**Posix batch daemon** (`TMS/src/server/tms-posix.cpp`, `PosixServer.cpp`,
`TmsPosixClient.cpp`). A process that forks jobs, reaps them in a signal handler,
kills them at their wall-clock limit and answers submit, cancel and state
requests over a local socket. Correct if: a job past its limit dies, a job said
to be over is dead, a cancelled one stays cancelled.

**Thread pool and queue** (`communication/utils.hpp`, `utils.cpp`). A blocking
queue and workers that pop from it; the destructor joins them while they wait.

The rest keeps no state of its own or only passes text on: TLS front ends, the
command registry, proxies and command lines, authenticators, the back ends of
each batch system, option parsers, script conversion, ssh execution, the Query
and Export classes, generated data classes, configuration, bindings, vendored
code. `PROJECT.json` lists each with the reason it is left out.

### Interactions

| From | To | By | Where it is modelled |
|---|---|---|---|
| client | server, dispatcher | request and answer over ZeroMQ | `Dispatch` |
| server | dispatcher | subscription | `Dispatch` |
| dispatcher | server | relay, heartbeat | `Dispatch` |
| threads of a server | database | pool of connections | `ConnPool` and the two `...Transactions` |
| services and monitor | each other | rows of the database, statement by statement | `Sessions`, `Jobs`, `Transfers`, `Accounts` |
| every `add` of an object | its identifier | `getObjectId` | `Ids`, which `Accounts` extends |
| services and monitor | batch scheduler | submit, cancel, state | `Jobs` |
| transfer threads | machines | a command through ssh | `Transfers` |
| client | server | report of its own transfer | `Transfers` |

`Sessions`, `Jobs`, `Transfers`, `Ids` and `Accounts` take one SQL statement as a step.
That a call of the database is atomic and lands by itself, or not at all, is what
`AtomicCalls` states and `MySqlTransactions` implements, and what `PgTransactions` shows
*not* to hold for PostgreSQL while an identifier is drawn (section 7).

## 2. The plan

| | Module | Builds on | State |
|---|---|---|---|
| 1 | `ConnAllocator` (abstract), `ConnPool` | | refinement checked and proved |
| 2 | `AtomicCalls` (abstract), `Transactions`, and on it `PgTransactions`, `MySqlTransactions` | extend `ConnPool`, use it by its operations | checked; that both implement `ConnPool`'s `Spec`, that the MySQL calls implement `AtomicCalls`, and their invariants, proved |
| 3 | `Sessions` | | checked, its invariants and `ClosedForGood` proved |
| 4 | `BatchSystem` (abstract), `Jobs` | | checked, the refinement, its invariants and `EndedIsFinal` proved |
| 5 | `Transfers` | | checked, its invariants and `ErrorIsFinal` proved |
| 6 | `RemoteCall` (abstract), `Dispatch` | | checked; the refinement, `SuccessIsExecuted` and `ExecutionsBounded` proved |
| 7 | `Ids`: `getVishnuCounter`, `reserveObjectId`, `getObjectId` by several servers | the contract of 2 (a counter value is drawn once, or the call throws) | checked, `UniqueIds` proved |
| 8 | `Accounts`: users, machines, authentication systems, accounts on both | extends `Ids` | checked, its invariants proved |
| 9 | `PosixDaemon`: requests, signals, time limits | implements the `BatchSystem` of 4 | checked, the refinement and its invariants proved |
| 10 | the thread pool | | not modelled: only its tests use it |

Four small modules are abstract specifications: `ConnAllocator` (a pool of
connections), `AtomicCalls` (what services rely on when they call the database),
`RemoteCall` (what a caller of `diet_call` may count on) and `BatchSystem` (a scheduler,
and what VISHNU may learn of its jobs). Every safety property that a run checks is
proved, and so is every refinement; liveness is model-checked.

## 3. The modules

### ConnAllocator, ConnPool

`ConnPool` has one step per access to shared memory of `getConnection`
(`POSTGREDatabase.cpp:177`, `MYSQLDatabase.cpp:239`, the same code) and
`releaseConnection`. `mused` and `mmutex` are the fields of the slots; `pc` and
`i` are where a thread is and the slot it looks at; `kept` are the slots a thread
locked in a call that returned (or threw) without unlocking them. `SeeUsed` /
`SeeUnused` read the flag, `TryLock` / `TryLockFails` are `pthread_mutex_trylock`,
`MarkUsed`, `Unlock` and `ClearUsed` the three writes. `Keep` and `Resume` leave
open what callers do. `ConnAllocator` is the promise: a free connection is
granted, and is nobody else's until it is released; the mapping is
`inUse[t] <- Held(t)`.

### Transactions, PgTransactions, MySqlTransactions

Threads make two kinds of calls: `process` of a plain UPDATE, and
`getVishnuCounter` (`utilServer.cpp:253`), the only caller of transactions:
`startTransaction`, `generateId`, then `endTransaction` or `cancelTransaction`.
`Transactions` has what the databases share: the calls, where each thread is in
its own (`call`, `stmt`, `tid`), and what the server keeps (`pending`, `committed`).
It extends `ConnPool`, and the two others conjoin the pool's actions with theirs, so
their calls use the pool as `ConnPool` says (`PgUsesPool`, `MyUsesPool`). What differs
bears the prefix `Pg` or `My`.

In PostgreSQL every statement, BEGIN and COMMIT too, runs on whichever connection
`getConnection` returns, because `process` ignores the transaction id
(`POSTGREDatabase.cpp:25`). `session`, `pending` and `committed` model the server:
whether a session is in a transaction, aborted or lost, its uncommitted writes,
and what everybody reads. `OnOk` and `OnError` are the order of the statements of
a call, after success and after an exception.

In MySQL the transaction id is the slot and its statements run there; a
transaction is `autocommit = FALSE`. Each way a call can fail is an action of its
own (`ProcessThrows`, `RetryThrows`, `StartTransactionThrows`, ...) because they
differ in what they release. `Faults` says which operations of the server may
fail.

`AtomicCalls` has no connections at all: a call begins, its write lands at one moment or
never, and it returns (then the write has landed) or throws (then a creation has
written nothing). The mapping takes `inProgress` from where the threads are, and
`committed`, `returned` and `thrown` as they are; `reliable` becomes FALSE, and
anything may follow, when a commit, a rollback or a change of mode has failed: section
7 says what happens then.

### Ids, Accounts

`Ids` are the requests that create a user, a machine, an authentication system or a
work, or take the identifier of a job. A row is named by the request that inserted
it; `key`, `id`, `status` and `content` are its columns, `content` being who filled
those that matter to nobody here. An identifier is a name with the counters that
`reserveObjectId` appended (`gen` is its `idGenerated`). `GetVishnuCounter`,
`CheckObjectId` (once per round of the loop) and `ReserveObjectId` are
`getObjectId`, `CountRows`, `FillRows` and `Finish` the rest of each `add`. The
statuses of the placeholders differ from table to table, and NULL is unlike
everything in SQL: `PlaceholderStatus` and `OnlyOne` are where that matters.

`Accounts` extends it with the requests about objects that exist: `LookUpObject`,
`CheckNotLocked`, `WriteStatus` and `DeleteAccounts` update and delete users,
machines and authentication systems; `FindHolder`, `FindNumbers`, `CheckAccount`,
`CheckLogin` and `WriteAccount` are the three operations of `LocalAccountServer` and
of `AuthAccountServer`. `StatementFails` ends any request before its next
statement, and undoes nothing. `before` remembers which requests had been
answered when a request began: many properties hold of requests that did not
overlap only, and say so.

### Sessions

`users`, `vsession` and `command` are the tables, `expired` what the monitor has
selected, `proc` the requests and the monitor. The life of a request that names a
session: `ReceiveKey`, `InitUser` (`UserServer::init`), `Exist`, `Execute` or one
of `LockUser`, `UnlockUser`, `DeleteUser`, `ResetPassword` or `GetState` and
`CloseSession`, then `SessionServer::finish`: `Check` or `CheckFailed`,
`SaveConnection`, `RecordCommand`. Requests with a password: `ReceivePassword`,
`Authenticate`, `RecordSession` or `ChangePassword`. The monitor runs the code of
`close` too, so it is a process with the same actions. Times are abstracted to
`idle`: used longer ago than the timeout.

`server` is the server process, and `faults` counts what has failed. A statement that
fails (`StatementFails`, and inside a step that stands for several statements
`FinishOrThrow`) throws, and the exception goes where the code catches it (`Throw`,
`FailsForGood`): most services go on to `finish(CMDFAILED)`. `SelectFails` is the
monitor's SELECT: on `ERRCODE_DBERR` the monitor calls `exit(1)`
(`MonitorXMS.cpp:178`), and `xmssed`, which reaps it, starts no other. With MySQL an
SQL error may instead leave the monitor waiting for ever for its only connection
(`Fails`; the pool of the monitor has one slot, and `MYSQLDatabase.cpp:53` throws with
it locked). Both are `pc = "gone"`. `Crash` ends the server and its requests at
any step, `MonitorEnds` is the loop of `run` that ends after it, `Restart` the
administrator who starts both again. `half` marks a lock that has executed the first of
its two statements and not the second.

### Jobs

`job` is the table, `batch` the scheduler, `proc` the requests and the monitor.
`Reserve`, `Submit`, `Record`, `RecordFailure`, `Crash` are `submitJob`;
`CancelJob` (rights and SELECT), `CancelBatch`, `CancelUpdate` are `cancelJob`;
`GetOutput`, `MarkDownloaded` are `getCompletedJobsOutput`; `SelectJobs`,
`GetJobState`, `UpdateStatus`, `Sleep` are `MonitorXMS::checkJobs`. The statuses
keep the numbers of `job_status_t`, because the code compares them with `<`.
`Faults` names what may go wrong: `database` (a statement fails), `refused` (the
scheduler throws), `fork` (PosixServer returns -1 and no job), `ignored` (cancel
returns an error code nobody reads), `unreachable`, `crash`.

`BatchSystem` is a scheduler as seen through VISHNU: a job lives once (`Later`), and
joins those that VISHNU takes for over (`over`) only when it has ended or was told
to end. `sound` says until when the second half is promised. `Jobs` maps `over` to the
rows whose status is `COMPLETED` or above, and `sound` to the absence of failures;
`PosixDaemon` maps a job's life to its process and SIGTERM (`Life`), `over` to what
its clients were told, and `sound` to the absence of a signal at a wrong moment.

### Transfers

`row` is the table, `file` source and destination of each transfer, `req` the
request, `thread` the thread that runs the commands, `stop` the requests to stop,
`todo` what the monitor selected, `up` whether the server runs. `TransferFile` and
`Launch` are `addTransferThread`, `WaitThread` the answer of cp and mv, `Copy`,
`SaveStatus`, `Remove`, `RemoveFailed` the thread, `FinalizeTransfer` the client,
`StopThread` the stop, `SelectFiles` and `CheckFile` the monitor. What a command
*did* and what it *said* are independent in `Copy`, because `exec` reads neither
the exit status nor the standard error. `ProcessId` is -1: nothing in the code
writes another value.

### PosixDaemon

`process` are the jobs' processes, `board`, `ChildSigs`, `AlarmSig` and `terminated`
the variables of `tms-posix.cpp`, `alarm` the pending alarm, `req` the daemon's one
request buffer, `client` the calls of `reqSend`, `told` what `getJobState` and
`cancel` made VISHNU believe. The daemon is one thread: `Block`, `Accept`, one
action per request, then `CheckJobs`, `ClearChildSigs` and `TimeStatement`; `End`
when `checkJobs` finds the board empty. `ProcessEnds` and `AlarmRings` are the
signal handlers and may come between any two of these steps. Reading and answering
a request is one step, because a signal during it only sets a flag; a signal
*before* the request has come is `Interrupt`, which leaves `pc = "interrupted"` and
the previous request in the buffer. A process is gone when it has ended (the
handler reaps it), so `kill(pid, 0)` is `Alive`; process ids are not used again.

### Dispatch

`client` are callers in `diet_call`, `requests` and `replies` the messages on their
way, `work` the requests the dispatcher's workers relay, `annuary` the directory,
`watch` the copy `bayWatch` pings, `late` subscriptions of servers that ended
after they sent them. Requests have no identifier in the code; attempts are named
here so that an answer reaches only a socket that is still open (`Delivered`).
Undelivered requests to a server that is down are dropped when the socket is
closed, with linger 0. `Elect` takes the first server that has the service, or is
configured (`Elected`, `HasService`),
`ForwardTimeOut` hands the request back as its own answer ("echo"), because
`ServiceWorker` ignores the return code.

`RemoteCall` leaves all that out: a caller begins, the call is executed any number of
times up to a bound, also after the caller has been answered, and the caller
hears once, of success only when an execution had success. `Heard` is what a caller
knows, and the bound is `AllTurns`, the times the code may send a call.

## 4. The runs

Every run but the four of section 7 passes. The bounds are in the `.cfg` files;
the number of distinct states says how much the bounds leave.

| Run | Instance | Distinct states |
|---|---|---|
| `pg_threads` | 2 threads making both calls, 3 slots, at most 1 error | 813,498 |
| `pg_plain_write` | 2 threads, one creating and one updating, 3 slots, no error | violation |
| `mysql_faults` | 3 threads that create an object, one of which also updates a row, 2 slots, at most 2 failures of the five kinds (SQL error, lost connection, commit, rollback, mode change), fairness | 417,061 |
| `objects` | 3 requests, of one of four groups of operations, on 4 objects and 2 accounts, at most 1 failing statement, fairness | 915,963 |
| `sessions` | 2 requests of any kind, 1 open session, an administrator and a user, 2 server threads, 1 failing statement or end of the server, fairness | 899,954 |
| `session_close_running` | 2 requests (command, close) on 1 session | violation |
| `session_lock_all` | 1 request (connect, lock), 2 open sessions | violation |
| `jobs` | 2 jobs, 1 cancellation, 1 request for outputs, monitor, 1 failure of any kind, fairness | 1,242,779 |
| `transfers` | 2 transfers of four kinds, 1 stop, monitor, 2 database errors or crashes, fairness | 1,277,998 |
| `transfers_move` | the same without failures | violation |
| `posix_daemon` | 2 jobs, 1 with a time limit, 1 user, the monitor, at most 1 signal at a wrong moment, fairness | 158,669 |
| `dispatch` | 1 caller, 2 servers, 1 configured, 2 tries, 1 dispatcher worker, 1 end of a process, fairness | 992,545 |

**pg_threads.** `Exclusive` and `FlagAccountedFor` say that the unprotected flag
costs neither exclusion nor a slot, `AllocatorSpec` that the pool is the allocator;
`ReturnedNotLost` and `TransactionKeepsItsConnection` what the transactions still
guarantee. `ReturnedNotLost` is claimed of behaviours without an error only: with
one, a transaction may be left behind. Three slots for two threads
let a transaction's slot, its BEGIN's and another thread's be different ones.

**mysql_faults.** `AtomicCallsSpec`: a call that returned has committed, a creation that
threw has not, and no write lands outside its own call, so none is left pending for the
next user of the connection to commit. `TalksOnlyToItsOwn` covers the statements that
never call `getConnection`. Two slots for three threads make them wait for each other
and for a creation that fails, which is what `NothingLeftLocked` and `EveryCallEnds`
(the comment at `MYSQLDatabase.cpp:237`) are about. Two failures reach a failing
rollback after a failing statement. An SQL error of `process` does lose a connection
(section 7); both properties name that case and claim everything else.

**objects.** `UniqueIds`: two creations answered "done" have different identifiers,
none of them taken before, and each object is what its request described;
`FailedIsUnusable`: what a failed creation leaves behind cannot be used;
`AccountsAreOnce`: one account per user and place, one user per login;
`DeletionIsComplete`: after a deletion nothing live hangs on what was deleted.
`EveryRequestEnds` is about the loop of `reserveObjectId`. Each property names its
exceptions, which are what the code does (section 7); they are about two or three
requests, so three requests of every combination of a group reach them. The names
are chosen so that one is taken, one is what the counter makes of a taken one,
and one is empty.

**sessions.** `ClosedForGood`: no interleaving reopens a session. `HistoryIsTrue`:
the table `command` lists as successes exactly the services that were answered
success. `CloseCloses`: a close answered success has closed, unless the user was
deleted or has a new password. `LockedUserHasNoSession` is about the sessions that
were open before the requests (one that authenticates before the lock inserts its
session after it): once a lock has been answered with success none of them is active,
and a locked user has an active one only where a lock has stopped, or is now, between its
two statements. That exception is what the code does (section 7). `IdleSessionsClose`:
the monitor ends idle sessions, unless their users are locked, deleted or waiting for
a new password, and unless the monitor is gone. All are claimed through failing
statements and ends of the server. Two requests are enough for every race of two
statements; the monitor is a third process. One fault lets any one statement fail, also
the second of a lock, or the server end between any two. The sessions of the run have the
close policy "on timeout": one with another policy is never idle, and its requests and
those of a session that is used in time do the same. `NamedInOrder` only keeps TLC from
looking at two requests under each other's names.

**jobs.** `SchedulerSpec` and `CancelKills` compare rows and answers with the
scheduler, `EndedIsFinal` says which late writes may still change a final status,
`OwnersCancel` relates the selected rows to the rights of the caller, and
`EveryEndIsSeen` is the monitor's duty. `CancelKills`, and what `SchedulerSpec` says of
the rows, are claimed until something fails; the failures are there for the others.

**transfers.** `CompletedIsTrue`, `AnswerIsTrue` and `ErrorIsFinal` hold although
thread, monitor, client and stop request write one row. Two failures allow an
error in a thread (which ends the server) and another after the restart.

**posix_daemon.** `AliveIsOnBoard`: whatever signals, requests and ends of jobs
come in whatever order, a job that was not told to end is on the board and has a
daemon. `SchedulerSpec`, `LimitIsEnforced` and `EndIsTold` relate
the processes to what VISHNU has been told; they are claimed until a signal comes at
one of the two moments of section 7. Two jobs let one end, or be killed, while the
daemon deals with the other.

**dispatch.** `SuccessIsExecuted` holds through retries, relays and echoes;
`ExecutionsBounded` gives the number of times a call may be executed, which is more than
once. Both follow from `RemoteCallSpec`, which is proved and not among the properties of
the run: TLC finds it true of this instance too, in a quarter more time. The code tries
three times and has five workers; two tries and one worker keep the run small and still
have a first, a last and a repeated try, and a worker that is busy. `LiveServerIsKnown`
and `DeadServerIsForgotten` are about the directory. One server is in the client's
configuration and the other only known to the dispatcher, so both ways to a server
occur. The dispatcher's own configuration is empty here; the theorems hold for any.

Every property has a mutant in `PROJECT.json`: a definition of the module changed
the way a plausible error in that code would change it, under which the run
finds the property violated. The mutated forms stand next to the originals.

## 5. Fairness and deadlock

- `Accounts!FairSpec`: a request that a server carries out takes its next step.
- `MyFairSpec`: each thread takes its next step while it has one. Threads are
  scheduled by the operating system, and no step waits for anything but a slot.
- `Sessions!FairSpec`: requests in progress go on, and so does the monitor while it is
  there. That it stays is not assumed: it may leave with its first failing SELECT, or
  be stopped by a failing statement, and `IdleSessionsClose` excepts that. Nobody owes a
  new request, and nobody starts the server again.
- `Jobs!FairSpec`: the monitor only. It loops as long as its server runs
  (`MonitorXMS.cpp`, `run`); jobs need not end, and requests need not go on.
- `Transfers!FairSpec`: the monitor, and `Restart`: a server that ended is started
  again by hand; without that nothing would mark its transfers. A command run
  through ssh has no timeout and owes nothing.
- The monitor of `Jobs` and `Transfers` survives a failing statement: `checkJobs` and
  `checkFile` catch the exceptions of the database. Their liveness assumes that
  nothing else ends it: in a server that runs UMS too, `checkSession` is in the same
  process and may exit (`MonitorXMS.cpp:181`), and with MySQL an SQL error may stop it
  on its only connection. Ends and transfers then wait for the next start of the
  server.
- `Dispatch!FairSpec`: a caller that polls is answered or times out; a server that
  runs subscribes again and again (`keepRegistered`); the dispatcher runs
  `bayWatch`. Servers owe no answer, and requests need not be taken.

- `PosixDaemon!FairSpec`: the daemon's next step and a pending alarm; each client
  that waits is accepted in the end (strong fairness: other clients come in between,
  but the listening queue is first in, first out); the monitor asks about every job
  again and again, as `Jobs` has it. Jobs need not end.

All other fairness is weak. Deadlock is checked in the runs of `Jobs`, `Transfers` and
`Dispatch`, where the monitor or the heartbeat always has a step, and in the two small
runs of `Sessions`. It is off in `sessions`, where the monitor may be gone once the
requests have all been made, and in the runs of the two `...Transactions` modules and
of `Accounts`: they make a given set of calls and stop, and in PostgreSQL the code
really can come to a standstill (section 7). It is off in `posix_daemon`, whose daemon
waits for requests once the jobs of the instance have all been used.

## 6. Proofs

TLAPS checks the theorems below for every number of threads, slots, requests,
users, servers, retries and so on, from the assumptions stated next to the
constants (`PoolSizeAssumption`, `NamesAssumption`, ...); TLC evaluates those
assumptions in the runs.

**`ConnPoolProofs`.** `TypeOK` is inductive by itself (`TypeCorrect`). Exclusion is
not: it rests on *who* holds a mutex. `PoolInv == TypeOK /\ MutexIffHeld /\
KeptApart` is inductive (`PoolInvariant`). `MutexIffHeld` makes each lock the
property of one thread, hence `ConnectionsAreExclusive`; `KeptApart` (a slot in use
is not also one this thread kept) is needed because unlocking a slot that is also
kept would leave `Held` without a lock. `FlagsAreAccountedFor` adds the flag:
whoever raises it is in `use` or `clear`, or keeps the slot, until it is lowered;
only a thread that holds the mutex raises it. `PoolImplementsAllocator` maps `MarkUsed`
and all the steps that keep `Held` to stuttering, `TryLock` to `Grant` and `Unlock`
to `Release`.

**`TransactionsProofs`.** Every step of the calls is a step of the pool or leaves
it alone (`PgUsesPool`, `MyUsesPool`), so `Exclusive` and all else above holds of the
calls of both databases.

*PostgreSQL.* `TidKept` (the slot a transaction id names is among those its thread
kept) makes `TransactionKeepsItsConnection` a consequence of `MutexIffHeld`.
`PgReturnedNotLost` needs to know where the writes are *before* a call returns:
`NoErrorInv` says that, as long as no statement has failed, no session is aborted,
an idle session has nothing pending, and a thread that is past its write finds
it committed or pending (`HasWritten`); `ServerKeeps` is the lemma that no
successful statement loses a visible write.

*MySQL.* None of the three properties is inductive, because where a thread is in the
pool, which connections it keeps and which statement it is at are three variables
that only the order of the code ties together. `ControlInv` says how: `Place` (the
statement determines the place in the pool and who has the connection of the
transaction), `KeptFor` (a thread keeps nothing but that connection, unless a plain
statement of its own has thrown) and `Once` (a call has one outcome). With
`PoolInv` it gives `MyTalksOnlyToItsOwn` and `MyNothingLeftLocked` under every kind of
failure. `MyAllOrNothing` adds `MyInv`, claimed like the property until a commit, a
rollback or a change of mode fails: a session is out of autocommit only while a
thread runs a transaction on it (`SessionsOwned`), whose pending writes are that
thread's (`TransactionOpen`), and a creation is committed only if its call has
returned or is about to (`Outcome`).

`MyCallsAreAtomic` needs all of it for a single step: each action of the calls is
`Begin`, `Land`, `Return` or `Throw` of `AtomicCalls`, or changes nothing that shows. A
plain statement lands at once, and commits its own write alone, because its session is in
autocommit mode and has nothing pending (`ProcessIsAtomic`, from `SessionsOwned`); in a
transaction only the COMMIT lands, and what is pending by then is the write of its own
call (`TransactionIsAtomic`, from `TransactionOpen`); the step that gives the connection
back decides nothing any more (`ReleaseIsAtomic`, from `Outcome`).

**`AccountsProofs`.** All of it is proved of `Accounts`, so with every operation going
on next to every other. `AccountsAssumption` says of the constants that the accounts
there from the beginning respect `AccountsAreOnce`, that operations name kinds that
exist, and that an update locks or activates: `checkEntityStatus`
(`UMS/src/client/utilsClient.cpp:66`) lets no other status through to a server.
Nearly every lemma is about one step of one request; `StepOf` is the frame that says what
that leaves to the others (`StepIsOneRequests`), and `SettledStays` and
`OverlapStays` are the two facts that survive every step: a row that has its
identifier keeps it, and whether two requests overlap is decided when both have begun.

- `IdentifiersAreUnique`: `IdsInv` follows a creation through its loop: the row is in
  the table from the beginning (`RowKnown`); for kinds with a counter, the counter
  comes first in the identifier, and is nobody else's (`KeysFirst`); past the loop
  the identifier is none that was there when the request began (`NewToTheTable`);
  past the count it is nobody else's who has passed the count (`OnlyOnePasses`),
  because a machine's row is counted whatever its status; a row is filled by its own
  request or by one of the same name (`FilledByOne`). Users are counted by their
  status, so for them the last two only hold of creations that do not overlap.
- `FailedCreationsAreUnusable`: `FailedInv` adds what a row looks like until it has its
  identifier (`Placeholders`), that whoever has filled a row has its name and overlaps
  with its creation (`Contents`), and how a row came into use (`InUse`). That the
  filler overlaps is `NewToTheTable` again: a creation that began later would have
  found the row.
- `AccountsExistOnce`: `OnceInv` says of a request that adds an account what its earlier
  SELECTs are still worth: the rows it has found are settled and have the names
  asked for (`FoundOnes`), and accounts that contradict what it saw were
  added by requests it overlaps with, or got their login from an update
  (`OneAccountEach`, `LoginsLookedUp`). A step adds an account, or keeps holder and user of
  all of them (`AccountWritten`), which leaves two cases to each invariant.
- `DeletionsAreComplete`: `NamesInv` follows the *name* that is deleted, because the
  UPDATEs name the identifier and not the key: some row has it (`NameTaken`), nobody
  who begins after the deletion is given it or finds it (`NamesNotReused`,
  `NobodyLater`), and its rows stay deleted unless a request excuses that
  (`StaysDeleted`, `Excuse`). `DeletionInv` adds the accounts: somebody who has found
  an object that is deleted by now overlaps with the deletion (`DeletedMeanwhile`),
  and so does whoever added an account that is left (`AccountsGone`, `Outlived`). That
  the rows of a name are never active and deleted at once (`OneStatus`) is what makes
  `FindHolder`, which looks for one active row, enough.

**`SessionsProofs`.** `SessionsInv` is `TypeOK` with: sessions that exist have an
owner (`OwnersKnown`), a request's own key is unused until it records its session
(`FreshKeys`), keys named by requests exist (`KeysExist`), a request's place
restricts its service and result (`Phases`), and rows of the history are those of
requests that are done (`RowsFinal`). The last two are why `HistoryIsTrue` is not
inductive alone: a row is written by a request whose result was decided several
steps before. `SessionsClosedForGood` needs `FreshKeys`: only `RecordSession`
writes the state `ACTIVE`, and only on a key that never was a session.
`SessionsOfLockedUsersEnd` is inductive next to `SessionsInv` and `LockPhases`, which says
which services can be where. `LockChange` is what a step does to a lock: only the second
statement makes one succeed, and only it takes the mark `half` away; one that fails or is
cut off keeps the mark and its target. That second statement closes every session of its
user, the step that locks a user leaves the mark, and no step opens a session that was
there before. `SessionsCloseCloses` needs `CloseInv`: from the step that closes a
session, or finds no such account, to the answer, that stays so. For a changed
password this rests on `NewPasswords`: a password that is still to be written is
nobody's, so none is changed back.

**`JobsProofs`.** A request and the monitor work on rows they selected earlier.
`JobsInv` says, for each of them apart (`Sound`), what they still know: the rows
are those of submitted jobs, a cancellation only holds rows its caller may cancel,
the monitor and a request for outputs never hold one row together, and while
nothing has failed a row that was handled is that of a job that is over. Steps of
others keep this by a frame lemma (`RowFrame`), so each action is looked at for
its own process and for the one row it writes. `EndedOnlyIfEnded`,
`SuccessfulCancelKills`, `OnlyOwnersCancel` and `EndedStaysEnded` follow.

`TableFollowsTheScheduler` is the refinement of `BatchSystem`. `EndedOnlyIfEnded` says
that a row that is over has no living job; that it has had one is `StartedInv`: until
its submission reaches the scheduler a job is not there, and without a failure no row is
saved before. `SubmissionIsAlone` (nobody else moves a submission or saves its row) and
`BatchMoves` (who starts and ends jobs) are the two lemmas about steps.

**`TransfersProofs`.** `Sound` relates the row, the files, the request and the thread
of one transfer: until the last command is over and its outcome saved, the row
carries no message and is not completed; afterwards what went wrong is in the row;
a request that waits for its thread has not answered. One lemma (`OneTransfer`)
lifts a step of one transfer to all of them; the end of the server is the step that
touches every thread. `CompletedOnlyIfSilent`, `SuccessIsTrue` and `ErrorStays`
follow.

**`DispatchProofs`.** `SuccessIsTrue` says that nobody is told success of a call that
was not executed with success, for any configuration. The invariant follows the
word "success" back to the server: every answer on its way that says success, to
the caller or to a worker of the dispatcher, belongs to a call that ran
(`SuccessesExecuted`), attempts on their way and in work name the call they are for
(`CallersKnown`, `RequestsKnown`), and callers that are not done have no answer
(`Unanswered`).

`ExecutedNoMoreThanSent` is a count. The turns of a call are the pairs of target and
try, and, for the dispatcher, the pairs of the caller's try and the worker's; an
execution uses one up. `DirectTurns` and `RelayedTurns` are those not used up: the
caller has not come to them, or their request is on its way, or a worker will still send
it. `TurnsCounted` says that executions and turns left never exceed `Len(Targets) *
Tries + Tries * Tries`. A turn is used up once only because no request is in two places
at once, though requests have no identifier: that is `TurnsInv` (a request comes from a
caller or from a worker that has the caller's request; it is taken once; a try that a
worker has taken is not also waiting). The echo of `ForwardTimeOut` and the relays that
the dispatcher drops keep it.

`CallsAreRemoteCalls` is the refinement of `RemoteCall` from both: a caller that
receives or gives up either goes on waiting or hears (`WaitingCaller`), of success only by
`SuccessesExecuted`; an execution on a server is `Execute` of a call that has begun, below
the bound by `TurnsCounted` after the step (`ServerExecutes`); all else, the dispatcher
and the directory included, changes nothing that callers and services see.

**`PosixDaemonProofs`.** `LivingJobsAreWatched` says that no order of signals,
requests and ends of jobs, misread requests included, makes the daemon forget a job
that was not told to end, or end before it. `AliveIsOnBoard` is not inductive: the
daemon ends two steps after it has found the board empty, so `EndsWithoutEntries`
says that nothing is put on the board in between; `ServedKnown` gives the answers
their types. `TellingIsTrue` proves `ToldIsTrue` with `ToldKnown`: while no signal came at a
wrong moment the daemon never reads an old request, what clients ask and are told
is about jobs that were started, and a process that is over or was signalled stays
so (`ProcessesProgress`); that an answer is true then follows from
`AliveIsOnBoard`. `DaemonIsAScheduler` is the refinement of `BatchSystem`: a job's life goes
one way even while old requests are misread (`LivesGoOn`), and what `ToldKnown` says
after a step is what its clients may learn by it. So the daemon is a scheduler of the
kind `Jobs` is about, for as long as its signals are not lost.

Only model-checked: liveness, in every module (`EveryCallEnds` of the MySQL calls and
of `Dispatch`, `EveryRequestEnds`, `IdleSessionsClose`, `EveryEndIsSeen`,
`InProgressEnds`, `LiveServerIsKnown`, `DeadServerIsForgotten`, `LimitIsEnforced`,
`EndIsTold`), which rests on fairness and so on ENABLED, which the provers do not
know. The proofs about `Dispatch` say nothing of the contents of the directory, which is
filtered by `SelectSeq`, a recursive operator of the library about which the
provers know nothing; neither of its two invariants depends on it.

## 7. Where the code departs from its documents

Four runs are expected to find a violation. Each checks what a document or comment
says against what the code does:

1. `pg_plain_write`: a plain statement lands in somebody else's transaction,
   because the transaction id is ignored (`POSTGREDatabase.cpp:25` against
   `Database.hpp:25`).
2. `session_close_running`: a session is closed under a running command, because
   `isRunning` looks for commands without an end and none is ever recorded
   (`CommandServer.cpp:85` against `userman-gen.docbook:641`).
3. `session_lock_all`: locking a user closes everybody's sessions
   (`UserServer.cpp:199` against the comment four lines above).
4. `transfers_move`: a move removes its source although the copy failed
   (`FileTransferServer.cpp:320` against the header and the manual).

The modules contain these behaviours too, which no run singles out:

*Database.* When a thread loses the race for a slot it looks at the same slot again
(`POSTGREDatabase.cpp:190`, despite "try next connexion"). `startTransaction` holds a
connection while it asks for another one (`:221`): as many transactions as slots
wait for ever. An SQL error in `MYSQLDatabase::process` or `getResult` loses the
connection (`MYSQLDatabase.cpp:53`, `:189`). A failed commit leaves autocommit off
(`:293`). A cancelled transaction whose rollback failed releases its connection
before it turns autocommit on (`:324`). When a connection is lost for the pool after
its flag was lowered, a thread that comes to its slot looks at it for ever,
whatever other slots are free.

*Identifiers and accounts.* The formats of users and machines are the fixed `$NAME`
(`utilServer.cpp`, `getIdFormatTemplate`), although the manual says that `$CPT` is
mandatory "for unicity" (`adminman_eng-gen.docbook:2023`, `:2042`). The mutexes of
`getObjectId` and of the account servers belong to one call or one request and
exclude nobody. Two overlapping additions of one user name may both be answered
"done", with one identifier; of two overlapping creations both may fail and leave
reserved rows. A creation that fails leaves its placeholder; a machine whose
description is missing can be activated by an update. The UPDATE of a machine or
authentication system does not look at the status: it revives one that was deleted
after the check. When the second statement of a deletion fails the accounts stay,
and a retry says that the object is unknown. Deleting a user leaves the accounts
on authentication systems. `LocalAccountServer::update` never checks whether the
login is used, though `userman-gen.docbook:942` and `:1074` list that error. A mail
that cannot be sent makes the addition of a user an error after the user is active.

*Sessions.* Locking a user is two statements in autocommit mode (`UserServer.cpp:193`,
`:207`): when the second fails, or the server ends before it, the user stays locked
and the sessions active, and as `close` throws for a locked user the monitor does not
close them either. The monitor exits when its SELECT fails and is not started again
(`MonitorXMS.cpp:178`): idle sessions stay until the server is. (For
`ERRCODE_AUTHENTERR`, which `close` never throws, a comment at `:170` asks what should
happen "when the monitor goes out".) The monitor closes a session that was used after
its SELECT (`MonitorXMS.cpp:164`). Closing a session of a deleted user, or with an old
password, is answered with success and closes nothing (`SessionServer.cpp:160`), so
idle sessions of deleted users stay. A connect that has authenticated survives a lock
(`SessionServer.cpp:97`). Sessions with the default close policy get a timeout, but
the monitor only selects those with close policy "on timeout". A command whose session
is closed meanwhile is answered with an error although it was executed.

*Jobs.* The monitor writes a state it asked for earlier over CANCELLED
(`MonitorXMS.cpp:101`). State -1, the answer of a scheduler out of reach, takes a
job out of the monitor's sight for good (`:90`). A failed UPDATE after a submission
marks a running job FAILED; a crash there leaves a job in the scheduler no row
names (`JobServer.cpp:248`). Return codes of the scheduler's submit and cancel are ignored
(`:255`). One exception ends a cancellation of many jobs (`:529`). A job of one's own
earlier session cannot be cancelled by its identifier. Two requests
for the outputs of completed jobs deliver the same ones, and a job is marked
DOWNLOADED whether or not its output arrived.

*Transfers.* `processid` is always -1: stopping a transfer answers success and stops
nothing (`FileTransferServer.cpp:571`; the manual and `fms_automTest16.cpp:72` expect
otherwise), and the monitor fails every transfer it meets in progress, until its
thread overwrites that. A database error in a thread ends the server
(`:349`). A client's own move keeps its source, and a client that does not report
leaves its row waiting for ever (`RemoteFileProxy.cpp:498`).

*Posix daemon.* A signal between the look at the flags and `accept` is noticed at
the next request only (`tms-posix.cpp:399`); a SIGCHLD between the loop of
`checkJobs` and the reset of its flag is forgotten (`:109`). The result of `read` is
not checked (`:415`): a signal before the request has come makes the daemon carry
out the previous request again, a SUBMIT too, and answer the wrong client; the very
first one is then never answered. The test before SIGKILL is inverted (`:128`): a
process that survives SIGTERM is marked TERMINATED, leaves the board alive and is
never killed. A process that was only sent SIGTERM is reported as completed. While
such a process is alive, the loop over the limits is put off by five seconds
(`:138`). Without a daemon, `getJobState` reads an uninitialized answer
(`PosixServer.cpp:97`), and a cancellation is taken for a success, because the code that
`reqCancel` returns is ignored (`JobServer.cpp:529`); by then the job is over
(`AliveIsOnBoard`).

*Calls.* A call may be executed up to `Len(Targets) * 3 + 9` times, and an error does not
mean it was not. When no server answers a relay, the caller gets its own request back.
The first server of the directory gets every call, dead or alive, until a round of
heartbeats removes it. A server named in the dispatcher's configuration is taken to have
every service of its module, so that one without the service may be elected and its
answer "unknown" relayed (`Annuary.cpp:118`, `HasService`); when it misses a heartbeat it
comes back only under its own subscription, with the services it has.

## 8. Limits

- **Undefined behaviour** is left out where any outcome is possible: the transaction
  on a lost MySQL connection (`connectPoolIndex(-1)`; the fault `lost` is offered to
  plain statements only), the transfer serialized after its deletion
  (`internalApiFMS.hpp:291`), `fork` in a process with threads (`JobServer.cpp:228`),
  `timeout * 1000000` on `int` from 2148 s on (`zhelpers.cpp:171`).
- **Failing statements**: in `Sessions` one that fails has not been executed; a server
  that ends between the last statement of a request and its answer is one that ends
  after it (lost answers are in `Dispatch`). Two monitors never overlap: `Restart` waits
  for the old one. (It leaves when `kill(getppid(), 0)` fails, `MonitorXMS.cpp:228`;
  run by root it could signal the process that adopts it, and would stay.)
- **Repeated statements**: a MySQL statement whose connection was lost is sent again
  (`MYSQLDatabase.cpp:55`) although it may have been executed. `committed` says which
  writes are there and not how often, so an INSERT that lands twice does not show.
- **Data**: a name, path or key is a model value; SQL is what it selects and writes;
  passwords are compared, never hashed; an object identifier is the name of its
  request. Files of different transfers are different. Of an object's columns
  only identifier, status and who filled them are kept; the validation of arguments
  is left out, callers of `Accounts` are taken for administrators, and a file
  transfer's identifier, which differs from a job's in its letters, is not told apart.
- **Time** is an event that may happen at any moment (`Expire`, `TimeOut`) and not a
  number.
- **Servers**: `Sessions`, `Jobs` and `Transfers` have one monitor. Several servers
  over one database have several; their statements interleave like those of
  further requests.
- **Schedulers**: `Jobs` takes what `TorqueServer`, `SlurmServer` and `PosixServer` have in
  common. LoadLeveler's jobs of several steps and OpenNebula's columns are left
  out.
- **Posix daemon**: a fork that fails (`execCommand`'s result is not used), a daemon
  that is killed, the KILL request (nobody sends it), the files and environment of a
  job. A daemon launched beside a running one is its `ECHO` request.
- **Not modelled**: the thread pool (only its tests use it); what only reads, formats,
  parses or translates (lists and exports, the registry, command lines, option
  parsers, script conversion, the back ends of each batch system beyond what `Jobs`
  takes of them, generated data classes and bindings), which keeps no state and is
  most of the repository's lines. `PROJECT.json` gives the reason of each. The hazards
  without a full property carry a note there.
