------------------------------ MODULE Sessions ------------------------------
(***************************************************************************)
(* User sessions: SessionServer, CommandServer and the parts of UserServer *)
(* they depend on, as the services of internalApiUMS.cpp call them, next   *)
(* to MonitorXMS::checkSession, which runs in a process of its own.        *)
(*                                                                         *)
(* Services and monitor share nothing but the tables users, vsession and   *)
(* command.  A step is one SQL statement (autocommit) together with the    *)
(* code up to the next one; consecutive reads of values that no step       *)
(* changes, or of one row, are one step.  A request that opens a session   *)
(* gives it its own name as key.  Times are abstracted to "idle": the      *)
(* session was not used for longer than its timeout.                       *)
(*                                                                         *)
(* A statement may fail, and then has no effect; the exception goes where  *)
(* the code catches it.  A step that stands for several statements may     *)
(* stop after each of them.  The server may end at any time, and its       *)
(* requests with it.                                                       *)
(*                                                                         *)
(* CommandServer::record always gives endtime a value, so isRunning finds  *)
(* no row and SessionServer::close never takes the branches behind it      *)
(* (disconnetToTimeout, ERRCODE_COMMAND_RUNNING).                          *)
(***************************************************************************)
EXTENDS Integers, FiniteSets

CONSTANTS Requests,  \* calls of the services, each made at most once
          Opened,    \* keys of the sessions open at the start
          Users, Admins,
          Ops,       \* the services called
          Policies,  \* the close policies asked for
          Workers,   \* threads of the server: requests in progress at a time
          Monitor,   \* the monitor process
          MaxFaults, \* bound: statements that fail and ends of the server
          None

ASSUME AdminsAssumption == Admins \subseteq Users
ASSUME NamesAssumption ==
  /\ Monitor \notin Requests
  /\ None \notin Requests
  /\ Requests \cap Opened = {}

Keys == Requests \cup Opened
Procs == Requests \cup {Monitor}

\* Services that authenticate with a password, and those that take a key.
PasswordOps == {"connect", "substitute", "change"}
AdminOps == {"lock", "unlock", "delete", "reset"}
KeyOps == {"command", "close"} \cup AdminOps

ASSUME OpsAssumption == Ops \subseteq PasswordOps \cup KeyOps

\* close_policy_t
ASSUME PoliciesAssumption == Policies \subseteq {"DEFAULT", "TIMEOUT", "DISCONNECT"}

ASSUME FaultsAssumption == MaxFaults \in Nat

PC == {"idle", "authenticate", "record", "change", "init", "exist", "state",
       "close", "execute", "closeall", "check", "fail", "save", "log",
       "select", "next", "done", "gone"}

VARIABLES users,     \* table users
          vsession,  \* table vsession
          command,   \* table command: one row per finished service
          expired,   \* keys the monitor has selected and not yet closed
          proc,      \* the requests and the monitor
          server,    \* the server process
          faults     \* how many faults there have been

env == <<server, faults>>
vars == <<users, vsession, command, expired, proc, env>>

UserRow == [status : {"ACTIVE", "LOCKED", "DELETED"},
            pwd : Requests \cup {None}, temporary : BOOLEAN]
SessionRow == [state : {"NONE", "ACTIVE", "CLOSED"},
               owner : Users \cup {None}, policy : Policies \cup {None}, idle : BOOLEAN]
\* half: the user is marked as locked, the sessions are not closed.
Process == [pc : PC, op : Ops \cup {"close", "none"}, key : Keys \cup {None},
            user : Users \cup {None}, target : Users \cup {None}, policy : Policies \cup {None},
            pwd : Requests \cup {None}, result : {"none", "success", "error"}, half : BOOLEAN]

\* The three tables, what the monitor selected, and the requests.
TypeOK ==
  /\ users \in [Users -> UserRow]
  /\ vsession \in [Keys -> SessionRow]
  /\ command \subseteq [req : Requests, status : {"success", "error"}]
  /\ expired \subseteq Keys
  /\ proc \in [Procs -> Process]
  /\ server \in {"up", "down"}
  /\ faults \in 0..MaxFaults

NoRequest == [pc |-> "idle", op |-> "none", key |-> None, user |-> None, target |-> None,
              policy |-> None, pwd |-> None, result |-> "none", half |-> FALSE]
NoSession == [NoRequest EXCEPT !.op = "close"]

Init ==
  /\ users = [u \in Users |-> [status |-> "ACTIVE", pwd |-> None, temporary |-> FALSE]]
  /\ \E owner \in [Opened -> Users], policy \in [Opened -> Policies] :
       vsession = [k \in Keys |->
                     IF k \in Opened
                     THEN [state |-> "ACTIVE", owner |-> owner[k], policy |-> policy[k], idle |-> FALSE]
                     ELSE [state |-> "NONE", owner |-> None, policy |-> None, idle |-> FALSE]]
  /\ command = {}
  /\ expired = {}
  /\ proc = [p \in Procs |-> IF p = Monitor THEN [NoSession EXCEPT !.pc = "select"]
                                            ELSE NoRequest]
  /\ server = "up"
  /\ faults = 0

-----------------------------------------------------------------------------
(* What the queries answer. *)

\* CheckUserState: the user may use VISHNU.
Usable(u) == users[u].status = "ACTIVE" /\ ~users[u].temporary

\* SessionServer::check.
Valid(k) == vsession[k].state = "ACTIVE" /\ Usable(vsession[k].owner)

Owner(p) == vsession[proc[p].key].owner

Goto(p, pc) == proc' = [proc EXCEPT ![p].pc = pc]

\* The objects of a service end with it; what the properties say of a close or of
\* a lock is kept.
Ended(r, result) ==
  LET q == proc[r]
      kept == CASE q.op = "close" -> q
                [] q.op = "lock" -> [NoRequest EXCEPT !.op = "lock", !.target = q.target, !.half = q.half]
                [] OTHER -> [NoRequest EXCEPT !.op = q.op]
  IN  [kept EXCEPT !.pc = "done", !.result = result]

Reply(r, result) == proc' = [proc EXCEPT ![r] = Ended(r, result)]

\* The monitor is done with a session, one way or the other.
NextSession == proc' = [proc EXCEPT ![Monitor] = [NoSession EXCEPT !.pc = "next"]]

\* The exception is caught: a service goes on to finish(CMDFAILED), which for
\* resetting a password skips the check; the monitor takes the next session.
Throw(p) ==
  IF p = Monitor THEN NextSession
  ELSE proc' = [proc EXCEPT ![p].pc = IF proc[p].op = "reset" THEN "save" ELSE "fail",
                            ![p].result = "error"]

\* Mutant of Finish: the status of the command is not set.
FinishNoStatus(p) ==
  IF p = Monitor THEN NextSession
  ELSE Goto(p, IF proc[p].op \in {"close", "reset"} THEN "save" ELSE "check")

\* A service is done and calls finish(CMDSUCCESS).
Finish(p) ==
  IF p = Monitor THEN NextSession
  ELSE proc' = [proc EXCEPT ![p].pc = IF proc[p].op \in {"close", "reset"} THEN "save" ELSE "check",
                            ![p].result = "success"]

Fault == faults < MaxFaults /\ faults' = faults + 1

\* A statement fails.  With MySQL it may leave its connection locked: the monitor
\* has only one, and waits for it for ever.
Fails(p) ==
  \/ Throw(p)
  \/ p = Monitor /\ proc' = [proc EXCEPT ![p] = [NoSession EXCEPT !.pc = "gone"]]

\* The last statement of a step has succeeded, or failed after the others.
FinishOrThrow(p) ==
  \/ Finish(p) /\ UNCHANGED faults
  \/ Fails(p) /\ Fault

-----------------------------------------------------------------------------
(* Requests that authenticate with a password. *)

InProgress == {r \in Requests : proc[r].pc \notin {"idle", "done"}}

ReceivePassword(r) ==
  /\ server = "up"
  /\ proc[r].pc = "idle"
  /\ Cardinality(InProgress) < Workers
  /\ \E op \in Ops \cap PasswordOps, u, target \in Users, policy \in Policies \cup {None} :
       /\ op # "substitute" => target = u
       /\ op = "change" <=> policy = None
       /\ proc' = [proc EXCEPT ![r].pc = "authenticate", ![r].op = op, ![r].user = u,
                               ![r].target = target, ![r].policy = policy]
  /\ UNCHANGED <<users, vsession, command, expired, env>>

\* isAuthenticate, then for a substitution isAdmin and getNumUserId.
Authenticate(r) ==
  LET u == proc[r].user IN
  /\ proc[r].pc = "authenticate"
  /\ IF /\ users[u].status = "ACTIVE"
        /\ proc[r].op # "change" => ~users[u].temporary
        /\ proc[r].op = "substitute" =>
             u \in Admins /\ users[proc[r].target].status # "DELETED"
     THEN proc' = [proc EXCEPT ![r].pc = IF proc[r].op = "change" THEN "change" ELSE "record",
                               ![r].pwd = users[u].pwd]
     ELSE Reply(r, "error")
  /\ UNCHANGED <<users, vsession, command, expired, env>>

\* recordSessionServer; without the number of the user the INSERT is refused.
RecordSession(r) ==
  /\ proc[r].pc = "record"
  /\ IF proc[r].op = "connect" /\ users[proc[r].user].pwd # proc[r].pwd
     THEN Reply(r, "error") /\ UNCHANGED vsession
     ELSE /\ vsession' = [vsession EXCEPT ![r] = [state |-> "ACTIVE", owner |-> proc[r].target,
                                                  policy |-> proc[r].policy, idle |-> FALSE]]
          /\ Reply(r, "success")
  /\ UNCHANGED <<users, command, expired, env>>

\* The first UPDATE of changePassword names the old password: it may match no
\* row.  The second one, sent in the same query, sets the state of the password;
\* PostgreSQL executes both or none, MySQL may fail between them.
ChangePassword(r) ==
  LET u == proc[r].user IN
  /\ proc[r].pc = "change"
  /\ \E temporary \in {FALSE, users[u].temporary} :
       /\ users' = IF users[u].pwd = proc[r].pwd /\ users[u].status # "DELETED"
                   THEN [users EXCEPT ![u].pwd = r, ![u].temporary = temporary]
                   ELSE users
       /\ \/ ~temporary /\ Reply(r, "success") /\ UNCHANGED faults
          \/ Reply(r, "error") /\ Fault
  /\ UNCHANGED <<vsession, command, expired, server>>

-----------------------------------------------------------------------------
(* Requests that name a session, and the monitor closing one. *)

ReceiveKey(r) ==
  /\ server = "up"
  /\ proc[r].pc = "idle"
  /\ Cardinality(InProgress) < Workers
  /\ \E op \in Ops \cap KeyOps, k \in Keys, target \in Users \cup {None} :
       /\ vsession[k].state # "NONE"
       /\ op \in AdminOps <=> target # None
       /\ proc' = [proc EXCEPT ![r].pc = "init", ![r].op = op, ![r].key = k, ![r].target = target]
  /\ UNCHANGED <<users, vsession, command, expired, env>>

\* UserServer::init: the session must be active; its owner's password is read.
InitUser(p) ==
  /\ proc[p].pc = "init"
  /\ IF vsession[proc[p].key].state = "ACTIVE"
     THEN proc' = [proc EXCEPT ![p].pc = "exist", ![p].user = Owner(p), ![p].pwd = users[Owner(p)].pwd]
     ELSE Throw(p)
  /\ UNCHANGED <<users, vsession, command, expired, env>>

\* UserServer::exist: FALSE for a deleted user or a password that is no longer
\* the one read before.  The services then throw, SessionServer::close returns.
Exist(p) ==
  LET u == proc[p].user IN
  /\ proc[p].pc = "exist"
  /\ IF users[u].status = "DELETED" \/ users[u].pwd # proc[p].pwd
     THEN IF proc[p].op = "close" THEN Finish(p) ELSE Throw(p)
     ELSE IF Usable(u) THEN Goto(p, IF proc[p].op = "close" THEN "state" ELSE "execute")
          ELSE Throw(p)
  /\ UNCHANGED <<users, vsession, command, expired, env>>

\* getState, then isRunning, which finds no command without an endtime.
GetState(p) ==
  /\ proc[p].pc = "state"
  /\ IF vsession[proc[p].key].state # "CLOSED" THEN Goto(p, "close") ELSE Throw(p)
  /\ UNCHANGED <<users, vsession, command, expired, env>>

\* Mutant of CloseSession: only the closure date is written.
CloseSessionDateOnly(p) ==
  /\ proc[p].pc = "close"
  /\ Finish(p)
  /\ UNCHANGED <<users, vsession, command, expired, env>>

\* Two UPDATEs: the state, then the closure date.
CloseSession(p) ==
  /\ proc[p].pc = "close"
  /\ vsession' = [vsession EXCEPT ![proc[p].key].state = "CLOSED"]
  /\ FinishOrThrow(p)
  /\ UNCHANGED <<users, command, expired, server>>

\* Any other service on a session; what it changes is not modelled here.
Execute(r) ==
  /\ proc[r].pc = "execute" /\ proc[r].op = "command"
  /\ Finish(r)
  /\ UNCHANGED <<users, vsession, command, expired, env>>

SetStatus(u, status) ==
  users' = IF users[u].status = "DELETED" THEN users ELSE [users EXCEPT ![u].status = status]

\* UserServer::update and resetPassword refuse a caller who is no administrator
\* and a user who is deleted.
Refuse(r) ==
  /\ proc[r].pc = "execute" /\ proc[r].op \in AdminOps
  /\ proc[r].user \notin Admins \/ users[proc[r].target].status = "DELETED"
  /\ Throw(r)
  /\ UNCHANGED <<users, vsession, command, expired, env>>

Administer(r, op) ==
  /\ proc[r].pc = "execute" /\ proc[r].op = op
  /\ proc[r].user \in Admins
  /\ users[proc[r].target].status # "DELETED"
  /\ UNCHANGED <<vsession, command, expired, server>>

\* The first UPDATE of a lock; the sessions are closed by a second one.
LockUser(r) ==
  /\ Administer(r, "lock")
  /\ SetStatus(proc[r].target, "LOCKED")
  /\ proc' = [proc EXCEPT ![r].pc = "closeall", ![r].half = TRUE]
  /\ UNCHANGED faults

UnlockUser(r) ==
  /\ Administer(r, "unlock")
  /\ SetStatus(proc[r].target, "ACTIVE")
  /\ Finish(r)
  /\ UNCHANGED faults

\* The UPDATE of the user's accounts comes last.
DeleteUser(r) ==
  /\ Administer(r, "delete")
  /\ SetStatus(proc[r].target, "DELETED")
  /\ FinishOrThrow(r)

\* Two UPDATEs in one query, as in changePassword; the mail comes last.
ResetPassword(r) ==
  LET u == proc[r].target IN
  /\ Administer(r, "reset")
  /\ \E temporary \in {TRUE, users[u].temporary} :
       /\ users' = [users EXCEPT ![u].pwd = r, ![u].temporary = temporary]
       /\ IF temporary THEN FinishOrThrow(r) ELSE Throw(r) /\ Fault

\* Mutant of CloseSessionsOf: it selects the sessions that are closed.
CloseSessionsOfClosed(r) ==
  /\ proc[r].pc = "closeall"
  /\ vsession' = IF \E k \in Keys : vsession[k].owner = proc[r].target /\ vsession[k].state = "CLOSED"
                 THEN [k \in Keys |-> IF vsession[k].state = "NONE" THEN vsession[k]
                                      ELSE [vsession[k] EXCEPT !.state = "CLOSED"]]
                 ELSE vsession
  /\ proc' = [proc EXCEPT ![r].pc = "check", ![r].result = "success", ![r].half = FALSE]
  /\ UNCHANGED <<users, command, expired, env>>

\* The second UPDATE of UserServer::update.  The subquery's table has no column
\* sessionkey, so the name is the one of the row being updated: the condition
\* is the same for every row, true if the user has an active session.
CloseSessionsOf(r) ==
  /\ proc[r].pc = "closeall"
  /\ vsession' = IF \E k \in Keys : vsession[k].owner = proc[r].target /\ vsession[k].state = "ACTIVE"
                 THEN [k \in Keys |-> IF vsession[k].state = "NONE" THEN vsession[k]
                                      ELSE [vsession[k] EXCEPT !.state = "CLOSED"]]
                 ELSE vsession
  /\ proc' = [proc EXCEPT ![r].pc = "check", ![r].result = "success", ![r].half = FALSE]
  /\ UNCHANGED <<users, command, expired, env>>

-----------------------------------------------------------------------------
(* SessionServer::finish *)

\* Mutant of Check: a session that has ended in the meantime is accepted.
CheckFailsSilently(r) ==
  /\ proc[r].pc = "check"
  /\ IF Valid(proc[r].key) THEN Goto(r, "save") ELSE Goto(r, "done")
  /\ UNCHANGED <<users, vsession, command, expired, env>>

Check(r) ==
  /\ proc[r].pc = "check"
  /\ IF Valid(proc[r].key) THEN Goto(r, "save") ELSE Throw(r)
  /\ UNCHANGED <<users, vsession, command, expired, env>>

\* finish(CMDFAILED) in the handler of the exception.
CheckFailed(r) ==
  /\ proc[r].pc = "fail"
  /\ IF Valid(proc[r].key) THEN Goto(r, "save") ELSE Reply(r, "error")
  /\ UNCHANGED <<users, vsession, command, expired, env>>

\* Mutant of SaveConnection: the whole row is written back as it was when the
\* request began.
SaveConnectionWholeRow(r) ==
  /\ proc[r].pc = "save"
  /\ vsession' = [vsession EXCEPT ![proc[r].key].idle = FALSE, ![proc[r].key].state = "ACTIVE"]
  /\ Goto(r, "log")
  /\ UNCHANGED <<users, command, expired, env>>

SaveConnection(r) ==
  /\ proc[r].pc = "save"
  /\ vsession' = [vsession EXCEPT ![proc[r].key].idle = FALSE]
  /\ Goto(r, "log")
  /\ UNCHANGED <<users, command, expired, env>>

RecordCommand(r) ==
  /\ proc[r].pc = "log"
  /\ command' = command \cup {[req |-> r, status |-> proc[r].result]}
  /\ Reply(r, proc[r].result)
  /\ UNCHANGED <<users, vsession, expired, env>>

-----------------------------------------------------------------------------
(* MonitorXMS::checkSession, called again and again by run(). *)

\* Time passes; only a session with close policy "on timeout" cares.
Expire(k) ==
  /\ vsession[k].state = "ACTIVE" /\ vsession[k].policy = "TIMEOUT" /\ ~vsession[k].idle
  /\ vsession' = [vsession EXCEPT ![k].idle = TRUE]
  /\ UNCHANGED <<users, command, expired, proc, env>>

\* Mutant of SelectExpired: the policy tested is the one of the default.
SelectExpiredDefault ==
  /\ proc[Monitor].pc = "select"
  /\ expired' = {k \in Keys : /\ vsession[k].state = "ACTIVE" /\ vsession[k].idle
                              /\ vsession[k].policy = "DEFAULT"}
  /\ Goto(Monitor, "next")
  /\ UNCHANGED <<users, vsession, command, env>>

\* getSessionToclosebyTimeout
SelectExpired ==
  /\ proc[Monitor].pc = "select"
  /\ expired' = {k \in Keys : /\ vsession[k].state = "ACTIVE" /\ vsession[k].idle
                              /\ vsession[k].policy = "TIMEOUT"}
  /\ Goto(Monitor, "next")
  /\ UNCHANGED <<users, vsession, command, env>>

NextExpired ==
  /\ proc[Monitor].pc = "next"
  /\ \E k \in expired :
       /\ expired' = expired \ {k}
       /\ proc' = [proc EXCEPT ![Monitor].pc = "init", ![Monitor].key = k]
  /\ UNCHANGED <<users, vsession, command, env>>

\* All rows are done: the monitor sleeps and starts again, while the server it
\* was forked from is there.
Sleep ==
  /\ proc[Monitor].pc = "next" /\ expired = {} /\ server = "up"
  /\ Goto(Monitor, "select")
  /\ UNCHANGED <<users, vsession, command, expired, env>>

\* The loop of run() ends with the server.
MonitorEnds ==
  /\ proc[Monitor].pc = "next" /\ expired = {} /\ server = "down"
  /\ Goto(Monitor, "gone")
  /\ UNCHANGED <<users, vsession, command, expired, env>>

\* The SELECT fails.  On ERRCODE_DBERR the monitor calls exit(1), and the server
\* that reaps it starts no other; any other exception only ends the round.
SelectFails ==
  /\ proc[Monitor].pc = "select"
  /\ Goto(Monitor, "gone") \/ Goto(Monitor, "next")
  /\ Fault
  /\ UNCHANGED <<users, vsession, command, expired, server>>

-----------------------------------------------------------------------------
(* Statements that fail, and the end of the server. *)

\* A service that cannot finish(CMDFAILED) leaves it at that; the ones with a
\* password record nothing.
FailsForGood(r) ==
  \/ proc[r].pc \in {"authenticate", "record", "change", "fail"}
  \/ proc[r].pc \in {"save", "log"} /\ proc[r].result = "error"

StatementFails(p) ==
  /\ proc[p].pc \notin {"idle", "done", "select", "next", "gone"}
  /\ IF FailsForGood(p) THEN Reply(p, "error") ELSE Fails(p)
  /\ Fault
  /\ UNCHANGED <<users, vsession, command, expired, server>>

\* The server process ends, and no request in progress is answered.
Crash ==
  /\ server = "up"
  /\ server' = "down"
  /\ proc' = [p \in Procs |-> IF p \in InProgress
                               THEN Ended(p, "none") ELSE proc[p]]
  /\ Fault
  /\ UNCHANGED <<users, vsession, command, expired>>

\* It is started again by hand, once its monitor has ended, and forks a new one.
Restart ==
  /\ server = "down" /\ proc[Monitor].pc = "gone"
  /\ server' = "up"
  /\ Goto(Monitor, "select")
  /\ UNCHANGED <<users, vsession, command, expired, faults>>

-----------------------------------------------------------------------------
\* SessionServer::close, by a request or by the monitor.
CloseStep(p) == InitUser(p) \/ Exist(p) \/ GetState(p) \/ CloseSession(p)

RequestStep(r) ==
  \/ Authenticate(r) \/ RecordSession(r) \/ ChangePassword(r)
  \/ CloseStep(r)
  \/ Execute(r) \/ Refuse(r)
  \/ LockUser(r) \/ UnlockUser(r) \/ DeleteUser(r) \/ ResetPassword(r)
  \/ CloseSessionsOf(r)
  \/ Check(r) \/ CheckFailed(r) \/ SaveConnection(r) \/ RecordCommand(r)

MonitorStep == SelectExpired \/ NextExpired \/ Sleep \/ MonitorEnds \/ CloseStep(Monitor)

Failure == (\E p \in Procs : StatementFails(p)) \/ SelectFails \/ Crash

Next ==
  \/ \E r \in Requests : ReceivePassword(r) \/ ReceiveKey(r) \/ RequestStep(r)
  \/ \E k \in Keys : Expire(k)
  \/ MonitorStep
  \/ Failure \/ Restart

Spec == Init /\ [][Next]_vars

\* The threads of the server run, and the monitor, as long as it has not left;
\* users, time and the administrator who starts the server owe nothing.
FairSpec == Spec /\ WF_vars(MonitorStep) /\ \A r \in Requests : WF_vars(RequestStep(r))

-----------------------------------------------------------------------------
(* Properties *)

\* A session that was closed is never active again, whatever services are still
\* writing to its row: "After the session is closed, it cannot be re-opened".
ClosedForGood ==
  [][\A k \in Keys : vsession[k].state = "CLOSED" => vsession'[k].state = "CLOSED"]_vars

\* The history of commands agrees with what the callers were told: a service on
\* a session that returned success has one row, marked as such, and no request
\* that returned an error, or was cut off by the end of the server, is listed as
\* a success.
HistoryIsTrue ==
  \A r \in Requests :
    LET rows == {c.status : c \in {d \in command : d.req = r}} IN
    IF proc[r].pc = "done" /\ proc[r].result = "success" /\ proc[r].op \in KeyOps
    THEN rows = {"success"}
    ELSE "success" \notin rows

\* A vishnu_close that answers success has closed the session, and nobody has
\* opened it again, or exist() found no such account: its user was deleted, or
\* its password changed, while the request was on its way.
CloseCloses ==
  \A r \in Requests :
    LET u == proc[r].user IN
    proc[r].pc = "done" /\ proc[r].op = "close" /\ proc[r].result = "success"
      => \/ vsession[proc[r].key].state = "CLOSED"
         \/ users[u].status = "DELETED" \/ users[u].pwd # proc[r].pwd

\* UserServer::update closes "the current user sessions if the user account has
\* been locked", by a second statement that may fail or be cut off.  Of the
\* sessions open before: none is active once a lock of their owner has succeeded,
\* and a locked user has an active one only where some lock of that user has
\* stopped between its two statements, or is there now.  (A connect that
\* authenticated before the lock may insert its session after it.)
LockedUserHasNoSession ==
  \A k \in Opened :
    LET locks == {r \in Requests : proc[r].op = "lock" /\ proc[r].target = vsession[k].owner} IN
    vsession[k].state = "ACTIVE" =>
      /\ \A r \in locks : proc[r].result # "success"
      /\ users[vsession[k].owner].status = "LOCKED" => \E r \in locks : proc[r].half

\* Locking a user closes the sessions of that user only.
LockClosesOwnSessions ==
  [][\A r \in Requests : proc[r].pc = "closeall" /\ proc'[r].pc # "closeall" =>
       \A k \in Keys : vsession'[k].state # vsession[k].state
                         => vsession[k].owner = proc[r].target]_vars

\* vishnu_close "will return an error if there are still some active requests
\* that were been submitted by the user during the session".
NotClosedWhileActive ==
  [][\A r, q \in Requests :
       /\ proc[r].pc = "close" /\ proc'[r].pc = "save"
       /\ proc[q].op = "command" /\ q \in InProgress /\ proc[q].pc # "init"
       => proc[q].key # proc[r].key]_vars

\* A session to be closed on timeout that stays unused is closed, unless its
\* owner is locked, deleted or waiting for a new password: close() throws for
\* those, or returns without closing.  And unless the monitor is gone, after one
\* statement that failed or with the server: nothing in the code brings it back.
IdleSessionsClose ==
  \A k \in Keys :
    vsession[k].state = "ACTIVE" /\ vsession[k].policy = "TIMEOUT" /\ vsession[k].idle
      ~> vsession[k].state = "CLOSED" \/ ~vsession[k].idle \/ ~Usable(vsession[k].owner)
         \/ proc[Monitor].pc = "gone"
=============================================================================
