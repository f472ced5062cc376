--------------------------- MODULE SessionsProofs ---------------------------
(***************************************************************************)
(* Proofs about Sessions, for all sets of requests, sessions and users and *)
(* any number of threads.  SessionsInv is inductive.  What it adds to the  *)
(* types: a request that may still open a session has not got it yet, the  *)
(* session a request or the monitor works on exists, and what a request    *)
(* is about to record is what it will answer.                              *)
(***************************************************************************)
EXTENDS Sessions, TLAPS

OnSession == {"init", "exist", "state", "close", "execute", "closeall", "check", "fail", "save", "log"}

\* Sessions are opened for users.
OwnersKnown == \A k \in Keys : vsession[k].state # "NONE" => vsession[k].owner \in Users

\* The key a request will give to the session it opens is not in use.
FreshKeys ==
  \A r \in Requests :
    proc[r].pc \in {"idle", "authenticate", "record"} => vsession[r].state = "NONE"

\* Sessions that are worked on, or waiting to be, exist.
KeysExist ==
  /\ \A p \in Procs : proc[p].pc \in OnSession
       => proc[p].key \in Keys /\ vsession[proc[p].key].state # "NONE"
  /\ \A k \in expired : vsession[k].state # "NONE"

\* The services are in the steps of their kind, with the result so far.
Phases ==
  \A r \in Requests :
    /\ proc[r].pc \in {"authenticate", "record", "change"}
         => /\ proc[r].op \in PasswordOps
            /\ proc[r].user \in Users /\ proc[r].target \in Users
    /\ proc[r].pc \in OnSession => proc[r].op \in KeyOps
    /\ proc[r].pc = "check" => proc[r].result = "success"
    /\ proc[r].pc = "fail" => proc[r].result = "error"
    /\ proc[r].pc \in {"save", "log"} => proc[r].result \in {"success", "error"}

\* Rows are written by the last step of a service.
RowsFinal ==
  /\ \A c \in command : /\ proc[c.req].pc = "done" /\ proc[c.req].result = c.status
                         /\ proc[c.req].op \in KeyOps
  /\ \A r \in Requests :
       proc[r].pc = "done" /\ proc[r].result = "success" /\ proc[r].op \in KeyOps
         => [req |-> r, status |-> "success"] \in command

SessionsInv == TypeOK /\ OwnersKnown /\ FreshKeys /\ KeysExist /\ Phases /\ RowsFinal

-----------------------------------------------------------------------------
(* Types *)

\* What a step may write in a process keeps its type.
LEMMA ProcessFields ==
  ASSUME NEW q \in Process, NEW pc \in PC
  PROVE  /\ [q EXCEPT !.pc = pc] \in Process
         /\ \A k \in Keys : [q EXCEPT !.pc = pc, !.key = k] \in Process
<1>1. [q EXCEPT !.pc = pc] \in Process
  BY DEF Process
<1>2. \A k \in Keys : [q EXCEPT !.pc = pc, !.key = k] \in Process
  BY DEF Process
<1>3. QED
  BY <1>1, <1>2

LEMMA ResultField ==
  ASSUME NEW q \in Process, NEW pc \in PC, NEW result \in {"none", "success", "error"}
  PROVE  [q EXCEPT !.pc = pc, !.result = result] \in Process
BY DEF Process

LEMMA HalfField ==
  ASSUME NEW q \in Process
  PROVE  /\ [q EXCEPT !.pc = "closeall", !.half = TRUE] \in Process
         /\ [q EXCEPT !.pc = "check", !.result = "success", !.half = FALSE] \in Process
<1>1. "closeall" \in PC /\ "check" \in PC
  BY DEF PC
<1>2. [q EXCEPT !.pc = "closeall", !.half = TRUE] \in Process
  BY <1>1 DEF Process
<1>3. [q EXCEPT !.pc = "check", !.result = "success", !.half = FALSE] \in Process
  BY <1>1 DEF Process
<1>4. QED
  BY <1>2, <1>3

LEMMA PasswordFields ==
  ASSUME NEW q \in Process, NEW op \in Ops, NEW u \in Users, NEW target \in Users,
         NEW policy \in Policies \cup {None}
  PROVE  [q EXCEPT !.pc = "authenticate", !.op = op, !.user = u, !.target = target,
                   !.policy = policy] \in Process
<1>1. "authenticate" \in PC
  BY DEF PC
<1>2. QED
  BY <1>1 DEF Process

LEMMA KeyFields ==
  ASSUME NEW q \in Process, NEW op \in Ops, NEW k \in Keys, NEW target \in Users \cup {None}
  PROVE  [q EXCEPT !.pc = "init", !.op = op, !.key = k, !.target = target] \in Process
<1>1. "init" \in PC
  BY DEF PC
<1>2. QED
  BY <1>1 DEF Process

\* What is left of a request that has ended.
LEMMA EndedFields ==
  ASSUME NEW r \in Procs, proc[r] \in Process, NEW result \in {"none", "success", "error"}
  PROVE  /\ Ended(r, result) \in Process
         /\ Ended(r, result).pc = "done" /\ Ended(r, result).result = result
         /\ Ended(r, result).op = proc[r].op
         /\ Ended(r, result).pwd \in {proc[r].pwd, None}
         /\ proc[r].op = "close" => /\ Ended(r, result).key = proc[r].key
                                    /\ Ended(r, result).user = proc[r].user
                                    /\ Ended(r, result).pwd = proc[r].pwd
         /\ proc[r].op = "lock" => /\ Ended(r, result).target = proc[r].target
                                   /\ Ended(r, result).half = proc[r].half
<1>1. CASE proc[r].op = "close"
  <2>1. Ended(r, result) = [proc[r] EXCEPT !.pc = "done", !.result = result]
    BY <1>1 DEF Ended
  <2>2. Ended(r, result) \in Process
    <3>1. "done" \in PC
      BY DEF PC
    <3>2. [proc[r] EXCEPT !.pc = "done", !.result = result] \in Process
      BY <3>1, ResultField
    <3>3. QED
      BY <2>1, <3>2
  <2>3. QED
    BY <1>1, <2>1, <2>2 DEF Process
<1>2. CASE proc[r].op = "lock"
  <2>1. Ended(r, result) =
          [[NoRequest EXCEPT !.op = "lock", !.target = proc[r].target, !.half = proc[r].half]
             EXCEPT !.pc = "done", !.result = result]
    BY <1>2 DEF Ended
  <2>2. QED
    BY <1>2, <2>1 DEF NoRequest, Process, PC
<1>3. CASE proc[r].op \notin {"close", "lock"}
  <2>1. Ended(r, result) = [[NoRequest EXCEPT !.op = proc[r].op] EXCEPT !.pc = "done", !.result = result]
    BY <1>3 DEF Ended
  <2>2. QED
    BY <1>3, <2>1 DEF NoRequest, Process, PC
<1>4. QED
  BY <1>1, <1>2, <1>3

\* The monitor between two sessions, and gone.
LEMMA NextSessionTyped ==
  [NoSession EXCEPT !.pc = "next"] \in Process /\ [NoSession EXCEPT !.pc = "gone"] \in Process
BY DEF NoSession, NoRequest, Process, PC

LEMMA FaultTyped == ASSUME TypeOK, Fault PROVE faults' \in 0..MaxFaults
BY FaultsAssumption DEF TypeOK, Fault

\* Ending a request, throwing and finishing keep the type of the processes.
LEMMA OutcomeTyped ==
  ASSUME TypeOK, NEW p \in Procs,
         \/ Fails(p) \/ Finish(p)
         \/ \E result \in {"none", "success", "error"} : Reply(p, result)
  PROVE  proc' \in [Procs -> Process]
<1>1. proc \in [Procs -> Process] /\ proc[p] \in Process
  BY Zenon DEF TypeOK
<1>2. CASE Fails(p) \/ Finish(p)
  <2>1. \A pc \in {"fail", "check", "save"}, result \in {"success", "error"} :
          [proc[p] EXCEPT !.pc = pc, !.result = result] \in Process
    <3>1. {"fail", "check", "save"} \subseteq PC
      BY DEF PC
    <3>2. QED
      BY <1>1, <3>1, ResultField
  <2>2. CASE Fails(p)
    BY <1>1, <2>1, <2>2, NextSessionTyped DEF Fails, Throw, NextSession
  <2>3. CASE Finish(p)
    BY <1>1, <2>1, <2>3, NextSessionTyped DEF Finish, NextSession
  <2>4. QED
    BY <1>2, <2>2, <2>3
<1>3. CASE \E result \in {"none", "success", "error"} : Reply(p, result)
  BY <1>1, <1>3, EndedFields DEF Reply
<1>4. QED
  BY <1>2, <1>3

LEMMA UserFields ==
  ASSUME NEW row \in UserRow, NEW pwd \in Requests, NEW temporary \in BOOLEAN
  PROVE  [row EXCEPT !.pwd = pwd, !.temporary = temporary] \in UserRow
BY DEF UserRow

\* A request comes in: it gets its operation and its parameters.
LEMMA ReceiveTypeOK ==
  ASSUME TypeOK, NEW r \in Requests, ReceivePassword(r) \/ ReceiveKey(r)
  PROVE  TypeOK'
<1> USE DEF TypeOK, PC, env
<1>1. r \in Procs /\ proc[r] \in Process
  BY DEF Procs
<1>2. CASE ReceivePassword(r)
  <2>1. PICK op \in Ops \cap PasswordOps, u, target \in Users, policy \in Policies \cup {None} :
          /\ op # "substitute" => target = u
          /\ op = "change" <=> policy = None
          /\ proc' = [proc EXCEPT ![r].pc = "authenticate", ![r].op = op, ![r].user = u,
                                  ![r].target = target, ![r].policy = policy]
    BY <1>2, Zenon DEF ReceivePassword
  <2>2. [proc[r] EXCEPT !.pc = "authenticate", !.op = op, !.user = u,
                        !.target = target, !.policy = policy] \in Process
    BY <1>1, <2>1, PasswordFields
  <2>3. proc' \in [Procs -> Process]
    BY <1>1, <2>1, <2>2
  <2>4. QED
    BY <1>2, <2>3 DEF ReceivePassword
<1>3. CASE ReceiveKey(r)
  <2>1. PICK op \in Ops, k \in Keys, target \in Users \cup {None} :
          proc' = [proc EXCEPT ![r].pc = "init", ![r].op = op, ![r].key = k, ![r].target = target]
    BY <1>3 DEF ReceiveKey
  <2>2. [proc[r] EXCEPT !.pc = "init", !.op = op, !.key = k, !.target = target] \in Process
    BY <1>1, <2>1, KeyFields
  <2>3. proc' \in [Procs -> Process]
    BY <1>1, <2>1, <2>2
  <2>4. QED
    BY <1>3, <2>3 DEF ReceiveKey
<1>4. QED
  BY <1>2, <1>3

\* Requests with a password.
LEMMA PasswordTypeOK ==
  ASSUME TypeOK, Phases, NEW r \in Requests,
         Authenticate(r) \/ RecordSession(r) \/ ChangePassword(r)
  PROVE  TypeOK'
<1> USE DEF TypeOK, PC, env
<1>1. r \in Procs /\ r \in Keys /\ proc[r] \in Process
  BY DEF Procs, Keys
<1>2. CASE Authenticate(r)
  <2>1. proc[r].user \in Users
    BY <1>2 DEF Authenticate, Phases
  <2>2. users[proc[r].user].pwd \in Requests \cup {None}
    BY <2>1 DEF UserRow
  <2>3. proc' \in [Procs -> Process]
    <3>1. CASE Reply(r, "error")
      BY <1>1, <3>1, OutcomeTyped
    <3>2. CASE ~Reply(r, "error")
      BY <1>1, <1>2, <2>2, <3>2 DEF Authenticate, Process
    <3>3. QED
      BY <3>1, <3>2
  <2>4. QED
    BY <1>2, <2>3 DEF Authenticate
<1>3. CASE RecordSession(r)
  <2>1. proc' \in [Procs -> Process]
    BY <1>1, <1>3, OutcomeTyped DEF RecordSession
  <2>2. [state |-> "ACTIVE", owner |-> proc[r].target,
         policy |-> proc[r].policy, idle |-> FALSE] \in SessionRow
    BY <1>1 DEF SessionRow, Process
  <2>3. vsession' \in [Keys -> SessionRow]
    BY <1>1, <1>3, <2>2 DEF RecordSession
  <2>4. QED
    BY <1>3, <2>1, <2>3 DEF RecordSession
<1>4. CASE ChangePassword(r)
  <2>1. proc' \in [Procs -> Process]
    BY <1>1, <1>4, OutcomeTyped DEF ChangePassword
  <2>2. proc[r].user \in Users /\ users[proc[r].user] \in UserRow
    BY <1>4 DEF ChangePassword, Phases
  <2>3. PICK temporary \in {FALSE, users[proc[r].user].temporary} :
          users' = IF /\ users[proc[r].user].pwd = proc[r].pwd
                      /\ users[proc[r].user].status # "DELETED"
                   THEN [users EXCEPT ![proc[r].user].pwd = r, ![proc[r].user].temporary = temporary]
                   ELSE users
    BY <1>4 DEF ChangePassword
  <2>4. temporary \in BOOLEAN
    BY <2>2, <2>3 DEF UserRow
  <2>5. [users[proc[r].user] EXCEPT !.pwd = r, !.temporary = temporary] \in UserRow
    BY <2>2, <2>4, UserFields
  <2>6. users' \in [Users -> UserRow]
    BY <2>2, <2>3, <2>5
  <2>7. QED
    BY <1>4, <2>1, <2>6, FaultTyped DEF ChangePassword, env
<1>5. QED
  BY <1>2, <1>3, <1>4

\* Closing a session, by a request or by the monitor.
LEMMA CloseTypeOK ==
  ASSUME TypeOK, OwnersKnown, KeysExist, NEW p \in Procs, CloseStep(p)
  PROVE  TypeOK'
<1> USE DEF TypeOK, PC, env
<1>1. proc[p] \in Process
  BY Zenon
<1>2. CASE InitUser(p)
  <2>1. vsession[proc[p].key].state = "ACTIVE" => Owner(p) \in Users
    BY <1>2 DEF InitUser, KeysExist, OnSession, OwnersKnown, Owner
  <2>2. vsession[proc[p].key].state = "ACTIVE" => users[Owner(p)].pwd \in Requests \cup {None}
    BY <2>1 DEF UserRow
  <2>3. proc' \in [Procs -> Process]
    <3>1. CASE Fails(p)
      BY <3>1, OutcomeTyped
    <3>2. CASE ~Fails(p)
      BY <1>1, <1>2, <2>1, <2>2, <3>2 DEF Fails, InitUser, Process
    <3>3. QED
      BY <3>1, <3>2
  <2>4. QED
    BY <1>2, <2>3 DEF InitUser
<1>3. CASE Exist(p)
  <2>1. proc' \in [Procs -> Process]
    <3>1. CASE Fails(p) \/ Finish(p)
      BY <3>1, OutcomeTyped
    <3>2. CASE ~(Fails(p) \/ Finish(p))
      BY <1>1, <1>3, <3>2 DEF Fails, Exist, Goto, Process
    <3>3. QED
      BY <3>1, <3>2
  <2>2. QED
    BY <1>3, <2>1 DEF Exist
<1>4. CASE GetState(p)
  <2>1. proc' \in [Procs -> Process]
    <3>1. CASE Fails(p)
      BY <3>1, OutcomeTyped
    <3>2. CASE ~Fails(p)
      BY <1>1, <1>4, <3>2 DEF Fails, GetState, Goto, Process
    <3>3. QED
      BY <3>1, <3>2
  <2>2. QED
    BY <1>4, <2>1 DEF GetState
<1>5. CASE CloseSession(p)
  <2>1. proc' \in [Procs -> Process]
    BY <1>5, OutcomeTyped DEF CloseSession, FinishOrThrow
  <2>2. vsession' \in [Keys -> SessionRow]
    BY <1>5 DEF CloseSession, SessionRow
  <2>3. QED
    BY <1>5, <2>1, <2>2, FaultTyped DEF CloseSession, FinishOrThrow
<1>6. QED
  BY <1>2, <1>3, <1>4, <1>5 DEF CloseStep

\* The services between the check of the user and finish.
LEMMA ExecuteTypeOK ==
  ASSUME TypeOK, NEW r \in Requests,
         \/ Execute(r) \/ Refuse(r) \/ LockUser(r) \/ UnlockUser(r)
         \/ DeleteUser(r) \/ ResetPassword(r) \/ CloseSessionsOf(r)
  PROVE  TypeOK'
<1> USE DEF TypeOK, PC, env
<1>1. r \in Procs /\ proc[r] \in Process
  BY DEF Procs
<1>2. Finish(r) \/ Fails(r) => proc' \in [Procs -> Process]
  BY <1>1, OutcomeTyped
<1>3. ASSUME NEW status \in {"ACTIVE", "LOCKED", "DELETED"}, SetStatus(proc[r].target, status)
      PROVE  users' \in [Users -> UserRow]
  BY <1>3 DEF SetStatus, UserRow
<1>4. CASE Execute(r) \/ Refuse(r)
  BY <1>2, <1>4 DEF Fails, Execute, Refuse
<1>5. CASE LockUser(r)
  <2>1. [proc[r] EXCEPT !.pc = "closeall", !.half = TRUE] \in Process
    BY <1>1, HalfField
  <2>2. proc' \in [Procs -> Process]
    BY <1>1, <1>5, <2>1 DEF LockUser
  <2>3. QED
    BY <1>3, <1>5, <2>2 DEF LockUser, Administer
<1>6. CASE UnlockUser(r) \/ DeleteUser(r)
  BY <1>2, <1>3, <1>6, FaultTyped DEF UnlockUser, DeleteUser, FinishOrThrow, Administer
<1>7. CASE ResetPassword(r)
  <2>1. users' \in [Users -> UserRow]
    <3>1. PICK temporary \in {TRUE, users[proc[r].target].temporary} :
            users' = [users EXCEPT ![proc[r].target].pwd = r,
                                   ![proc[r].target].temporary = temporary]
      BY <1>7 DEF ResetPassword
    <3>2. \A u \in Users : users[u].temporary \in BOOLEAN
      BY DEF UserRow
    <3>3. ASSUME proc[r].target \in Users
          PROVE  [users[proc[r].target] EXCEPT !.pwd = r, !.temporary = temporary] \in UserRow
      BY <3>1, <3>2, <3>3, UserFields
    <3>4. QED
      BY <3>1, <3>3
  <2>2. (Finish(r) /\ UNCHANGED faults) \/ (Fails(r) /\ Fault)
    BY <1>7 DEF Fails, ResetPassword, FinishOrThrow
  <2>3. QED
    BY <1>2, <1>7, <2>1, <2>2, FaultTyped DEF ResetPassword, Administer
<1>8. CASE CloseSessionsOf(r)
  <2>1. vsession' \in [Keys -> SessionRow]
    BY <1>8 DEF CloseSessionsOf, SessionRow
  <2>2. proc' \in [Procs -> Process]
    <3>1. [proc[r] EXCEPT !.pc = "check", !.result = "success", !.half = FALSE] \in Process
      BY <1>1, HalfField
    <3>2. QED
      BY <1>1, <1>8, <3>1 DEF CloseSessionsOf
  <2>3. QED
    BY <1>8, <2>1, <2>2 DEF CloseSessionsOf
<1>9. QED
  BY <1>4, <1>5, <1>6, <1>7, <1>8

\* finish, and the monitor's own steps.
LEMMA FinishTypeOK ==
  ASSUME TypeOK, Phases, NEW r \in Requests,
         Check(r) \/ CheckFailed(r) \/ SaveConnection(r) \/ RecordCommand(r)
  PROVE  TypeOK'
<1> USE DEF TypeOK, PC, env
<1>1. r \in Procs /\ proc[r] \in Process
  BY DEF Procs
<1>2. CASE Check(r) \/ CheckFailed(r)
  <2>1. Fails(r) \/ Reply(r, "error") \/ Goto(r, "save")
    BY <1>2 DEF Fails, Check, CheckFailed
  <2>2. CASE Goto(r, "save")
    <3>1. [proc[r] EXCEPT !.pc = "save"] \in Process
      BY <1>1, ProcessFields
    <3>2. QED
      BY <1>1, <1>2, <2>2, <3>1 DEF Check, CheckFailed, Goto
  <2>3. QED
    BY <1>1, <1>2, <2>1, <2>2, OutcomeTyped DEF Check, CheckFailed
<1>3. CASE SaveConnection(r)
  <2>1. vsession' \in [Keys -> SessionRow]
    BY <1>3 DEF SaveConnection, SessionRow
  <2>2. proc' \in [Procs -> Process]
    <3>1. [proc[r] EXCEPT !.pc = "log"] \in Process
      BY <1>1, ProcessFields
    <3>2. QED
      BY <1>1, <1>3, <3>1 DEF SaveConnection, Goto
  <2>3. QED
    BY <1>3, <2>1, <2>2 DEF SaveConnection
<1>4. CASE RecordCommand(r)
  <2>1. proc[r].result \in {"success", "error"}
    BY <1>4 DEF RecordCommand, Phases
  <2>2. proc' \in [Procs -> Process]
    BY <1>1, <1>4, <2>1, OutcomeTyped DEF RecordCommand
  <2>3. QED
    BY <1>4, <2>1, <2>2 DEF RecordCommand
<1>5. QED
  BY <1>2, <1>3, <1>4

\* The monitor selects and closes sessions.
LEMMA MonitorTypeOK ==
  ASSUME TypeOK,
         \/ SelectExpired \/ NextExpired \/ Sleep \/ MonitorEnds
         \/ \E k \in Keys : Expire(k)
  PROVE  TypeOK'
<1> USE DEF TypeOK, PC, env
<1>1. Monitor \in Procs /\ proc[Monitor] \in Process
  BY DEF Procs
<1>2. CASE SelectExpired
  <2>1. [proc[Monitor] EXCEPT !.pc = "next"] \in Process
    BY <1>1, ProcessFields
  <2>2. proc' \in [Procs -> Process]
    BY <1>2, <2>1 DEF SelectExpired, Goto
  <2>3. QED
    BY <1>2, <2>2 DEF SelectExpired
<1>3. CASE NextExpired
  <2>1. PICK k \in expired :
          proc' = [proc EXCEPT ![Monitor].pc = "init", ![Monitor].key = k]
    BY <1>3 DEF NextExpired
  <2>2. [proc[Monitor] EXCEPT !.pc = "init", !.key = k] \in Process
    <3>1. k \in Keys
      OBVIOUS
    <3>2. QED
      BY <1>1, <3>1, ProcessFields
  <2>3. proc' \in [Procs -> Process]
    BY <1>1, <2>1, <2>2
  <2>4. QED
    BY <1>3, <2>3 DEF NextExpired
<1>4. CASE Sleep \/ MonitorEnds
  <2>1. /\ [proc[Monitor] EXCEPT !.pc = "select"] \in Process
        /\ [proc[Monitor] EXCEPT !.pc = "gone"] \in Process
    BY <1>1, ProcessFields
  <2>2. proc' \in [Procs -> Process]
    BY <1>4, <2>1 DEF Sleep, MonitorEnds, Goto
  <2>3. QED
    BY <1>4, <2>2 DEF Sleep, MonitorEnds
<1>5. CASE \E k \in Keys : Expire(k)
  <2>1. PICK k \in Keys : Expire(k)
    BY <1>5
  <2>2. [vsession[k] EXCEPT !.idle = TRUE] \in SessionRow
    <3>1. vsession[k] \in SessionRow
      OBVIOUS
    <3>2. QED
      BY <3>1 DEF SessionRow
  <2>3. vsession' \in [Keys -> SessionRow]
    BY <2>1, <2>2 DEF Expire
  <2>4. QED
    BY <2>1, <2>3 DEF Expire
<1>6. QED
  BY <1>2, <1>3, <1>4, <1>5

\* Statements that fail, and the end and the start of the server.
LEMMA FailureTypeOK ==
  ASSUME TypeOK, Failure \/ Restart
  PROVE  TypeOK'
<1> USE DEF TypeOK, PC
<1>1. Monitor \in Procs /\ proc[Monitor] \in Process
  BY DEF Procs
<1>2. /\ [proc[Monitor] EXCEPT !.pc = "select"] \in Process
      /\ [proc[Monitor] EXCEPT !.pc = "next"] \in Process
      /\ [proc[Monitor] EXCEPT !.pc = "gone"] \in Process
  BY <1>1, ProcessFields
<1>3. ASSUME NEW p \in Procs, StatementFails(p) PROVE TypeOK'
  <2>1. Fails(p) \/ Reply(p, "error")
    BY <1>3 DEF StatementFails
  <2>2. QED
    BY <1>3, <2>1, OutcomeTyped, FaultTyped DEF StatementFails
<1>4. CASE SelectFails
  <2>1. proc' \in [Procs -> Process]
    BY <1>2, <1>4 DEF SelectFails, Goto
  <2>2. QED
    BY <1>4, <2>1, FaultTyped DEF SelectFails
<1>5. CASE Crash
  <2>1. \A p \in Procs : Ended(p, "none") \in Process
    BY EndedFields
  <2>2. proc' \in [Procs -> Process]
    BY <1>5, <2>1 DEF Crash
  <2>3. QED
    BY <1>5, <2>2, FaultTyped DEF Crash
<1>6. CASE Restart
  <2>1. proc' \in [Procs -> Process]
    BY <1>2, <1>6 DEF Restart, Goto
  <2>2. QED
    BY <1>6, <2>1 DEF Restart
<1>7. QED
  BY <1>3, <1>4, <1>5, <1>6 DEF Failure

\* No step of a request or of the monitor breaks the types.
LEMMA StepTypeOK ==
  ASSUME SessionsInv, [Next]_vars
  PROVE  TypeOK'
<1> USE DEF SessionsInv
<1>1. ASSUME NEW r \in Requests, RequestStep(r) PROVE TypeOK'
  <2>1. r \in Procs
    BY DEF Procs
  <2>2. QED
    BY <1>1, <2>1, PasswordTypeOK, CloseTypeOK, ExecuteTypeOK, FinishTypeOK DEF RequestStep
<1>2. CASE MonitorStep
  <2>1. Monitor \in Procs
    BY DEF Procs
  <2>2. QED
    BY <1>2, <2>1, CloseTypeOK, MonitorTypeOK DEF MonitorStep
<1>3. CASE UNCHANGED vars
  BY <1>3 DEF vars, env, TypeOK
<1>4. QED
  BY <1>1, <1>2, <1>3, ReceiveTypeOK, MonitorTypeOK, FailureTypeOK DEF Next

-----------------------------------------------------------------------------
(* The rest of the invariant *)

\* What a step does to the rows of vsession.
LEMMA SessionsChange ==
  ASSUME SessionsInv, [Next]_vars, NEW k \in Keys
  PROVE  \/ /\ vsession'[k].state = vsession[k].state
            /\ vsession'[k].owner = vsession[k].owner
         \/ /\ vsession[k].state # "NONE" /\ vsession'[k].state = "CLOSED"
            /\ vsession'[k].owner = vsession[k].owner
         \/ /\ k \in Requests /\ proc[k].pc = "record" /\ proc'[k].pc = "done"
            /\ vsession'[k].state = "ACTIVE" /\ vsession'[k].owner \in Users
<1> DEFINE Change == \/ /\ vsession'[k].state = vsession[k].state
                        /\ vsession'[k].owner = vsession[k].owner
                     \/ /\ vsession[k].state # "NONE" /\ vsession'[k].state = "CLOSED"
                        /\ vsession'[k].owner = vsession[k].owner
                     \/ /\ k \in Requests /\ proc[k].pc = "record" /\ proc'[k].pc = "done"
                        /\ vsession'[k].state = "ACTIVE" /\ vsession'[k].owner \in Users
<1> USE DEF SessionsInv, TypeOK
<1>1. CASE vsession' = vsession
  BY <1>1
<1>2. ASSUME NEW r \in Requests, RecordSession(r) PROVE Change
  <2>1. proc[r].target \in Users
    BY <1>2 DEF RecordSession, Phases
  <2>2. r \in Procs
    BY DEF Procs
  <2>3. Reply(r, "success") => proc'[r].pc = "done"
    BY <2>2, EndedFields DEF Reply
  <2>4. QED
    BY <1>2, <2>1, <2>3 DEF RecordSession, Process
<1>3. ASSUME NEW p \in Procs, CloseSession(p) PROVE Change
  BY <1>3 DEF CloseSession, KeysExist, OnSession, SessionRow
<1>4. ASSUME NEW r \in Requests, CloseSessionsOf(r) PROVE Change
  BY <1>4 DEF CloseSessionsOf, SessionRow
<1>5. ASSUME NEW r \in Requests, SaveConnection(r) PROVE Change
  BY <1>5 DEF SaveConnection, SessionRow
<1>6. ASSUME NEW j \in Keys, Expire(j) PROVE Change
  BY <1>6 DEF Expire, SessionRow
<1>7. ASSUME NEW p \in Procs, CloseStep(p) PROVE Change
  BY <1>1, <1>3, <1>7 DEF CloseStep, InitUser, Exist, GetState
<1>8. ASSUME NEW r \in Requests, RequestStep(r) PROVE Change
  <2>1. r \in Procs
    BY DEF Procs
  <2>2. QED
    BY <1>1, <1>2, <1>4, <1>5, <1>7, <1>8, <2>1
       DEF RequestStep, Authenticate, ChangePassword, Execute, Refuse, LockUser, UnlockUser,
           DeleteUser, ResetPassword, Administer, Check, CheckFailed, RecordCommand
<1>9. CASE MonitorStep
  BY <1>1, <1>7, <1>9 DEF MonitorStep, SelectExpired, NextExpired, Sleep, MonitorEnds, Procs
<1>10. CASE Failure \/ Restart
  BY <1>1, <1>10 DEF Failure, StatementFails, SelectFails, Crash, Restart
<1>11. QED
  BY <1>1, <1>6, <1>8, <1>9, <1>10 DEF Next, ReceivePassword, ReceiveKey, vars

\* What an exception makes of the process it is thrown in.
LEMMA ThrowFrame ==
  ASSUME TypeOK, NEW p \in Procs, Fails(p)
  PROVE  /\ p = Monitor => proc'[p].pc \in {"next", "gone"}
         /\ p # Monitor => /\ proc'[p].pc \in {"fail", "save"} /\ proc'[p].result = "error"
                           /\ proc'[p].op = proc[p].op /\ proc'[p].key = proc[p].key
                           /\ proc'[p].user = proc[p].user /\ proc'[p].target = proc[p].target
                           /\ proc'[p].half = proc[p].half /\ proc'[p].pwd = proc[p].pwd
         /\ proc'[p].pwd \in {proc[p].pwd, None}
         /\ \A q \in Procs \ {p} : proc'[q] = proc[q]
<1>1. proc \in [Procs -> Process] /\ proc[p] \in Process
  BY Zenon DEF TypeOK
<1>2. CASE p = Monitor
  <2>1. PICK pc \in {"next", "gone"} : proc' = [proc EXCEPT ![p] = [NoSession EXCEPT !.pc = pc]]
    BY <1>2 DEF Fails, Throw, NextSession
  <2>2. [NoSession EXCEPT !.pc = pc].pc = pc /\ [NoSession EXCEPT !.pc = pc].pwd = None
    BY DEF NoSession, NoRequest
  <2>3. QED
    BY <1>1, <1>2, <2>1, <2>2
<1>3. CASE p # Monitor
  BY <1>1, <1>3 DEF Fails, Throw, Process
<1>4. QED
  BY <1>2, <1>3

\* So for a service, or for the monitor's close, that is done.
LEMMA FinishFrame ==
  ASSUME TypeOK, NEW p \in Procs, Finish(p)
  PROVE  /\ p = Monitor => proc'[p].pc = "next"
         /\ p # Monitor => /\ proc'[p].pc \in {"check", "save"} /\ proc'[p].result = "success"
                           /\ proc'[p].op = proc[p].op /\ proc'[p].key = proc[p].key
                           /\ proc'[p].user = proc[p].user /\ proc'[p].target = proc[p].target
                           /\ proc'[p].half = proc[p].half /\ proc'[p].pwd = proc[p].pwd
         /\ proc'[p].pwd \in {proc[p].pwd, None}
         /\ \A q \in Procs \ {p} : proc'[q] = proc[q]
<1>1. proc \in [Procs -> Process] /\ proc[p] \in Process
  BY Zenon DEF TypeOK
<1>2. CASE p = Monitor
  <2>1. proc' = [proc EXCEPT ![p] = [NoSession EXCEPT !.pc = "next"]]
    BY <1>2 DEF Finish, NextSession
  <2>2. [NoSession EXCEPT !.pc = "next"].pc = "next" /\ [NoSession EXCEPT !.pc = "next"].pwd = None
    BY DEF NoSession, NoRequest
  <2>3. QED
    BY <1>1, <1>2, <2>1, <2>2
<1>3. CASE p # Monitor
  BY <1>1, <1>3 DEF Finish, Process
<1>4. QED
  BY <1>2, <1>3

\* What ending a request makes of it.
LEMMA ReplyFrame ==
  ASSUME TypeOK, NEW r \in Procs, NEW result \in {"none", "success", "error"}, Reply(r, result)
  PROVE  /\ proc'[r].pc = "done" /\ proc'[r].result = result /\ proc'[r].op = proc[r].op
         /\ proc'[r].pwd \in {proc[r].pwd, None}
         /\ proc[r].op = "close" => /\ proc'[r].key = proc[r].key /\ proc'[r].user = proc[r].user
                                    /\ proc'[r].pwd = proc[r].pwd
         /\ proc[r].op = "lock" => /\ proc'[r].target = proc[r].target
                                   /\ proc'[r].half = proc[r].half
         /\ \A q \in Procs \ {r} : proc'[q] = proc[q]
<1>1. proc \in [Procs -> Process] /\ proc[r] \in Process
  BY Zenon DEF TypeOK
<1>2. proc'[r] = Ended(r, result) /\ \A q \in Procs \ {r} : proc'[q] = proc[q]
  BY <1>1 DEF Reply
<1>3. QED
  BY <1>1, <1>2, EndedFields

\* A statement that fails moves one process, and writes nothing.
LEMMA FailFrame ==
  ASSUME TypeOK, NEW p \in Procs, StatementFails(p)
  PROVE  /\ proc[p].pc \in OnSession \cup {"authenticate", "record", "change"}
         /\ p # Monitor => /\ proc'[p].pc \in {"fail", "save", "done"} /\ proc'[p].op = proc[p].op
                           /\ proc'[p].result = "error"
                           /\ proc'[p].pc # "done" => proc'[p].key = proc[p].key
                           /\ proc[p].pc \in {"authenticate", "record", "change"} => proc'[p].pc = "done"
                           /\ proc[p].op = "lock" => /\ proc'[p].target = proc[p].target
                                                     /\ proc'[p].half = proc[p].half
         /\ p = Monitor => proc'[p].pc \in {"next", "gone", "done"}
         /\ proc'[p].pwd \in {proc[p].pwd, None}
         /\ \A q \in Procs \ {p} : proc'[q] = proc[q]
         /\ users' = users /\ vsession' = vsession /\ command' = command /\ expired' = expired
<1>1. /\ proc[p].pc \in OnSession \cup {"authenticate", "record", "change"}
      /\ users' = users /\ vsession' = vsession /\ command' = command /\ expired' = expired
      /\ IF FailsForGood(p) THEN Reply(p, "error") ELSE Fails(p)
  <2>1. proc[p].pc \in PC
    BY DEF TypeOK, Process
  <2>2. QED
    BY <2>1 DEF StatementFails, PC, OnSession
<1>2. CASE FailsForGood(p)
  BY <1>1, <1>2, ReplyFrame DEF FailsForGood, OnSession
<1>3. CASE ~FailsForGood(p)
  BY <1>1, <1>3, ThrowFrame DEF FailsForGood, OnSession
<1>4. QED
  BY <1>2, <1>3

\* Closing a session moves one process, of a service on a session or the monitor.
LEMMA CloseFrame ==
  ASSUME TypeOK, NEW p \in Procs, CloseStep(p)
  PROVE  /\ proc[p].pc \in {"init", "exist", "state", "close"}
         /\ p # Monitor => /\ proc'[p].pc \in {"exist", "state", "close", "execute", "check", "fail", "save"}
                           /\ proc'[p].op = proc[p].op /\ proc'[p].target = proc[p].target
                           /\ proc'[p].half = proc[p].half
                           /\ proc'[p].pc = "check" => proc'[p].result = "success"
                           /\ proc'[p].pc = "fail" => proc'[p].result = "error"
                           /\ proc'[p].pc = "save" => proc'[p].result \in {"success", "error"}
         /\ proc'[p].pc \notin {"next", "gone"} => proc'[p].key = proc[p].key
         /\ command' = command
         /\ \A q \in Procs \ {p} : proc'[q] = proc[q]
<1>1. proc \in [Procs -> Process] /\ proc[p] \in Process
  BY Zenon DEF TypeOK
<1>2. /\ proc[p].pc \in {"init", "exist", "state", "close"}
      /\ command' = command
  BY DEF CloseStep, InitUser, Exist, GetState, CloseSession
<1>3. CASE Fails(p)
  BY <1>2, <1>3, ThrowFrame
<1>4. CASE Finish(p)
  BY <1>2, <1>4, FinishFrame
<1>5. CASE InitUser(p) /\ ~Fails(p)
  BY <1>1, <1>2, <1>5 DEF Fails, InitUser, Process
<1>6. CASE Exist(p) /\ ~Fails(p) /\ ~Finish(p)
  BY <1>1, <1>2, <1>6 DEF Fails, Exist, Goto, Process
<1>7. CASE GetState(p) /\ ~Fails(p)
  BY <1>1, <1>2, <1>7 DEF Fails, GetState, Goto, Process
<1>8. QED
  BY <1>3, <1>4, <1>5, <1>6, <1>7 DEF CloseStep, CloseSession, FinishOrThrow

\* So does any other service, between the check of the user and finish.
LEMMA ExecuteFrame ==
  ASSUME TypeOK, NEW r \in Requests,
         \/ Execute(r) \/ Refuse(r) \/ LockUser(r) \/ UnlockUser(r)
         \/ DeleteUser(r) \/ ResetPassword(r) \/ CloseSessionsOf(r)
  PROVE  /\ proc[r].pc \in {"execute", "closeall"}
         /\ proc'[r].pc \in {"closeall", "check", "fail", "save"}
         /\ proc'[r].op = proc[r].op /\ proc'[r].key = proc[r].key
         /\ proc'[r].target = proc[r].target /\ proc'[r].pwd = proc[r].pwd
         /\ proc'[r].half = proc[r].half \/ LockUser(r) \/ CloseSessionsOf(r)
         /\ proc'[r].pc = "check" => proc'[r].result = "success"
         /\ proc'[r].pc = "fail" => proc'[r].result = "error"
         /\ proc'[r].pc = "save" => proc'[r].result \in {"success", "error"}
         /\ command' = command
         /\ \A q \in Procs \ {r} : proc'[q] = proc[q]
<1>1. r \in Procs /\ r # Monitor
  BY NamesAssumption DEF Procs
<1>2. proc \in [Procs -> Process] /\ proc[r] \in Process
  BY <1>1, Zenon DEF TypeOK
<1>3. proc[r].pc \in {"execute", "closeall"} /\ command' = command
  BY DEF Execute, Refuse, LockUser, UnlockUser, DeleteUser, ResetPassword, CloseSessionsOf, Administer
<1>4. Finish(r) \/ Fails(r) \/ LockUser(r) \/ CloseSessionsOf(r)
  BY DEF Fails, Execute, Refuse, UnlockUser, DeleteUser, ResetPassword, FinishOrThrow
<1>5. CASE LockUser(r) \/ CloseSessionsOf(r)
  BY <1>1, <1>2, <1>3, <1>5 DEF LockUser, CloseSessionsOf, Process
<1>6. CASE Finish(r)
  BY <1>1, <1>3, <1>6, FinishFrame
<1>7. CASE Fails(r)
  BY <1>1, <1>3, <1>7, ThrowFrame
<1>8. QED
  BY <1>4, <1>5, <1>6, <1>7

\* The end of the server ends the requests in progress, and writes nothing.
LEMMA CrashFrame ==
  ASSUME TypeOK, Crash, NEW p \in Procs
  PROVE  /\ \/ proc'[p] = proc[p]
            \/ /\ p \in Requests /\ proc[p].pc \notin {"idle", "done"}
               /\ proc'[p].pc = "done" /\ proc'[p].result = "none" /\ proc'[p].op = proc[p].op
               /\ proc'[p].pwd \in {proc[p].pwd, None}
               /\ proc[p].op = "lock" => /\ proc'[p].target = proc[p].target
                                         /\ proc'[p].half = proc[p].half
         /\ users' = users /\ vsession' = vsession /\ command' = command /\ expired' = expired
<1>1. proc \in [Procs -> Process] /\ proc[p] \in Process
  BY Zenon DEF TypeOK
<1>2. /\ users' = users /\ vsession' = vsession /\ command' = command /\ expired' = expired
      /\ proc'[p] = proc[p] \/ (p \in InProgress /\ proc'[p] = Ended(p, "none"))
  BY DEF Crash
<1>3. QED
  BY <1>1, <1>2, EndedFields DEF InProgress

\* The monitor's own steps, its end and its start move the monitor only.
LEMMA MonitorFrame ==
  ASSUME TypeOK, SelectExpired \/ NextExpired \/ Sleep \/ MonitorEnds \/ SelectFails \/ Restart
  PROVE  /\ proc'[Monitor].pc \in {"next", "init", "select", "gone"}
         /\ proc'[Monitor].pc = "init" => NextExpired
         /\ proc'[Monitor].pwd = proc[Monitor].pwd
         /\ users' = users /\ vsession' = vsession /\ command' = command
         /\ \A q \in Procs \ {Monitor} : proc'[q] = proc[q]
<1>1. proc \in [Procs -> Process] /\ Monitor \in Procs /\ proc[Monitor] \in Process
  BY Zenon DEF TypeOK, Procs
<1>2. /\ users' = users /\ vsession' = vsession /\ command' = command
      /\ NextExpired \/ \E pc \in {"next", "select", "gone"} : Goto(Monitor, pc)
  BY DEF SelectExpired, NextExpired, Sleep, MonitorEnds, SelectFails, Restart
<1>3. CASE NextExpired
  <2>1. PICK k \in expired : proc' = [proc EXCEPT ![Monitor].pc = "init", ![Monitor].key = k]
    BY <1>3 DEF NextExpired
  <2>2. proc'[Monitor].pc = "init" /\ proc'[Monitor].pwd = proc[Monitor].pwd
    BY <1>1, <2>1 DEF Process
  <2>3. QED
    BY <1>1, <1>2, <1>3, <2>1, <2>2
<1>4. ASSUME NEW pc \in {"next", "select", "gone"}, Goto(Monitor, pc)
      PROVE  /\ proc'[Monitor].pc = pc /\ proc'[Monitor].pwd = proc[Monitor].pwd
             /\ \A q \in Procs \ {Monitor} : proc'[q] = proc[q]
  BY <1>1, <1>4 DEF Goto, Process
<1>5. QED
  BY <1>2, <1>3, <1>4

\* Requests that authenticate move themselves; only the answer drops a parameter.
LEMMA PasswordFrame ==
  ASSUME TypeOK, NEW r \in Requests,
         Authenticate(r) \/ RecordSession(r) \/ ChangePassword(r)
  PROVE  /\ proc[r].pc \in {"authenticate", "record", "change"}
         /\ proc'[r].pc \in {"record", "change", "done"}
         /\ proc'[r].pc \in {"record", "change"} => proc[r].pc = "authenticate"
         /\ proc'[r].op = proc[r].op
         /\ proc'[r].pc # "done" => proc'[r].user = proc[r].user /\ proc'[r].target = proc[r].target
         /\ proc'[r].pwd \in {proc[r].pwd, None, users[proc[r].user].pwd}
         /\ command' = command /\ expired' = expired
         /\ \A q \in Procs \ {r} : proc'[q] = proc[q]
<1>1. proc \in [Procs -> Process] /\ r \in Procs /\ proc[r] \in Process
  BY Zenon DEF TypeOK, Procs
<1>2. /\ proc[r].pc \in {"authenticate", "record", "change"}
      /\ command' = command /\ expired' = expired
  BY DEF Authenticate, RecordSession, ChangePassword
<1>3. CASE Reply(r, "success")
  BY <1>1, <1>2, <1>3, ReplyFrame
<1>4. CASE Reply(r, "error")
  BY <1>1, <1>2, <1>4, ReplyFrame
<1>5. CASE Authenticate(r) /\ ~Reply(r, "error")
  BY <1>1, <1>2, <1>5 DEF Authenticate, Process
<1>6. QED
  BY <1>3, <1>4, <1>5 DEF RecordSession, ChangePassword

\* finish moves the request it is called for.
LEMMA RecordFrame ==
  ASSUME TypeOK, Phases, NEW r \in Requests,
         Check(r) \/ CheckFailed(r) \/ SaveConnection(r) \/ RecordCommand(r)
  PROVE  /\ proc[r].pc \in {"check", "fail", "save", "log"}
         /\ proc'[r].pc \in {"fail", "save", "log", "done"}
         /\ proc'[r].op = proc[r].op
         /\ proc'[r].pc # "done" => /\ proc'[r].key = proc[r].key /\ proc'[r].pwd = proc[r].pwd
         /\ proc[r].op = "close" => /\ proc'[r].key = proc[r].key /\ proc'[r].user = proc[r].user
                                    /\ proc'[r].pwd = proc[r].pwd
         /\ proc[r].op = "lock" => proc'[r].target = proc[r].target /\ proc'[r].half = proc[r].half
         /\ proc'[r].pwd \in {proc[r].pwd, None}
         /\ proc'[r].result = proc[r].result \/ proc'[r].result = "error"
         /\ proc'[r].result \in {"success", "error"}
         /\ proc'[r].pc = "fail" => proc'[r].result = "error"
         /\ proc'[r].pc = "done" => proc'[r].result = "error" \/ RecordCommand(r)
         /\ users' = users /\ expired' = expired
         /\ \A q \in Procs \ {r} : proc'[q] = proc[q]
<1>1. /\ proc \in [Procs -> Process] /\ r \in Procs /\ r # Monitor /\ proc[r] \in Process
      /\ proc[r].result \in {"none", "success", "error"}
  BY NamesAssumption, Zenon DEF TypeOK, Procs, Process
<1>2. /\ proc[r].pc \in {"check", "fail", "save", "log"}
      /\ users' = users /\ expired' = expired
      /\ proc[r].result \in {"success", "error"}
  BY DEF Check, CheckFailed, SaveConnection, RecordCommand, Phases
<1>3. CASE \E pc \in {"save", "log"} : Goto(r, pc)
  BY <1>1, <1>2, <1>3 DEF Goto, Process
<1>4. CASE Fails(r)
  BY <1>1, <1>2, <1>4, ThrowFrame
<1>5. CASE Reply(r, "error")
  BY <1>1, <1>2, <1>5, ReplyFrame
<1>6. CASE RecordCommand(r)
  BY <1>1, <1>2, <1>6, ReplyFrame DEF RecordCommand
<1>7. QED
  BY <1>3, <1>4, <1>5, <1>6 DEF Fails, Check, CheckFailed, SaveConnection

\* What a step does to the requests: the one that moves keeps to its phases.
LEMMA StepPhases ==
  ASSUME SessionsInv, [Next]_vars
  PROVE  Phases'
<1> USE DEF SessionsInv, TypeOK, Phases, OnSession, Procs, Process, PasswordOps, KeyOps, AdminOps
<1>1. ASSUME NEW r \in Requests, ReceivePassword(r) PROVE Phases'
  BY <1>1 DEF ReceivePassword
<1>2. ASSUME NEW r \in Requests, ReceiveKey(r) PROVE Phases'
  BY <1>2 DEF ReceiveKey
<1>3. ASSUME NEW r \in Requests, Authenticate(r) \/ RecordSession(r) \/ ChangePassword(r)
      PROVE  Phases'
  BY <1>3, PasswordFrame
<1>4. ASSUME NEW p \in Procs, CloseStep(p) PROVE Phases'
  BY <1>4, CloseFrame, NamesAssumption
<1>5. ASSUME NEW r \in Requests,
             \/ Execute(r) \/ Refuse(r) \/ LockUser(r) \/ UnlockUser(r)
             \/ DeleteUser(r) \/ ResetPassword(r) \/ CloseSessionsOf(r)
      PROVE  Phases'
  BY <1>5, ExecuteFrame
<1>6. ASSUME NEW r \in Requests, Check(r) \/ CheckFailed(r) \/ SaveConnection(r) \/ RecordCommand(r)
      PROVE  Phases'
  BY <1>6, RecordFrame
<1>7. CASE \/ SelectExpired \/ NextExpired \/ Sleep \/ MonitorEnds \/ SelectFails \/ Restart
  BY <1>7, MonitorFrame, NamesAssumption
<1>8. ASSUME NEW p \in Procs, StatementFails(p) PROVE Phases'
  BY <1>8, FailFrame, NamesAssumption
<1>9. CASE Crash
  BY <1>9, CrashFrame
<1>10. CASE UNCHANGED proc
  BY <1>10
<1>11. QED
  BY <1>1, <1>2, <1>3, <1>4, <1>5, <1>6, <1>7, <1>8, <1>9, <1>10
     DEF Next, RequestStep, MonitorStep, Failure, Expire, vars

\* A request that comes in was idle; the others go on as they are.
LEMMA ReceiveFrame ==
  ASSUME proc \in [Procs -> Process], NEW r \in Requests, ReceivePassword(r) \/ ReceiveKey(r)
  PROVE  proc[r].pc = "idle" /\ \A p \in Procs \ {r} : proc'[p] = proc[p]
<1>1. CASE ReceivePassword(r)
  BY <1>1 DEF ReceivePassword
<1>2. CASE ReceiveKey(r)
  BY <1>2 DEF ReceiveKey
<1>3. QED
  BY <1>1, <1>2

\* Only the monitor's query adds to what the monitor has selected.
LEMMA SelectedBefore ==
  ASSUME [Next]_vars, ~SelectExpired
  PROVE  expired' \subseteq expired
<1>1. ASSUME NEW r \in Requests, ReceivePassword(r) \/ ReceiveKey(r)
      PROVE  expired' = expired
  BY <1>1 DEF ReceivePassword, ReceiveKey
<1>2. ASSUME NEW p \in Procs, CloseStep(p) PROVE expired' = expired
  BY <1>2 DEF CloseStep, InitUser, Exist, GetState, CloseSession
<1>3. ASSUME NEW r \in Requests,
             \/ Authenticate(r) \/ RecordSession(r) \/ ChangePassword(r)
             \/ Check(r) \/ CheckFailed(r) \/ SaveConnection(r) \/ RecordCommand(r)
      PROVE  expired' = expired
  BY <1>3 DEF Authenticate, RecordSession, ChangePassword, Check, CheckFailed, SaveConnection,
              RecordCommand
<1>4. ASSUME NEW r \in Requests,
             \/ Execute(r) \/ Refuse(r) \/ LockUser(r) \/ UnlockUser(r)
             \/ DeleteUser(r) \/ ResetPassword(r) \/ CloseSessionsOf(r)
      PROVE  expired' = expired
  BY <1>4 DEF Execute, Refuse, LockUser, UnlockUser, DeleteUser, ResetPassword,
              CloseSessionsOf, Administer
<1>5. CASE NextExpired \/ Sleep \/ MonitorEnds \/ UNCHANGED vars \/ \E k \in Keys : Expire(k)
  BY <1>5 DEF NextExpired, Sleep, MonitorEnds, vars, Expire
<1>6. CASE Failure \/ Restart
  BY <1>6 DEF Failure, StatementFails, SelectFails, Crash, Restart
<1>7. QED
  BY <1>1, <1>2, <1>3, <1>4, <1>5, <1>6 DEF Next, RequestStep, MonitorStep, Procs

\* A request that may still open a session was one before.
LEMMA StepFreshKeys ==
  ASSUME SessionsInv, [Next]_vars
  PROVE  FreshKeys'
<1> USE DEF SessionsInv, TypeOK, FreshKeys, Procs, Process
<1> DEFINE Opening == {"idle", "authenticate", "record"}
<1>1. ASSUME NEW q \in Requests, proc'[q].pc \in Opening PROVE proc[q].pc \in Opening
  <2> USE <1>1, NamesAssumption
  <2>1. ASSUME NEW r \in Requests, ReceivePassword(r) \/ ReceiveKey(r) PROVE proc[q].pc \in Opening
    BY <2>1, ReceiveFrame
  <2>2. ASSUME NEW r \in Requests, Authenticate(r) \/ RecordSession(r) \/ ChangePassword(r)
        PROVE  proc[q].pc \in Opening
    BY <2>2, PasswordFrame
  <2>3. ASSUME NEW p \in Procs, CloseStep(p) PROVE proc[q].pc \in Opening
    BY <2>3, CloseFrame
  <2>4. ASSUME NEW r \in Requests,
               \/ Execute(r) \/ Refuse(r) \/ LockUser(r) \/ UnlockUser(r)
               \/ DeleteUser(r) \/ ResetPassword(r) \/ CloseSessionsOf(r)
        PROVE  proc[q].pc \in Opening
    BY <2>4, ExecuteFrame
  <2>5. ASSUME NEW r \in Requests,
               Check(r) \/ CheckFailed(r) \/ SaveConnection(r) \/ RecordCommand(r)
        PROVE  proc[q].pc \in Opening
    BY <2>5, RecordFrame
  <2>6. CASE \/ SelectExpired \/ NextExpired \/ Sleep \/ MonitorEnds \/ SelectFails \/ Restart
    BY <2>6, MonitorFrame
  <2>7. ASSUME NEW p \in Procs, StatementFails(p) PROVE proc[q].pc \in Opening
    BY <2>7, FailFrame
  <2>8. CASE Crash
    BY <2>8, CrashFrame
  <2>9. CASE UNCHANGED proc
    BY <2>9
  <2>10. QED
    BY <2>1, <2>2, <2>3, <2>4, <2>5, <2>6, <2>7, <2>8, <2>9
       DEF Next, RequestStep, MonitorStep, Failure, Expire, vars
<1>2. QED
  <2>1. SUFFICES ASSUME NEW q \in Requests, proc'[q].pc \in Opening
                 PROVE  vsession'[q].state = "NONE"
    OBVIOUS
  <2>2. q \in Keys /\ vsession[q].state = "NONE"
    BY <1>1, <2>1 DEF Keys
  <2>3. QED
    BY <2>1, <2>2, SessionsChange

\* Sessions that exist go on existing, and no other is taken up.
LEMMA StepKeysExist ==
  ASSUME SessionsInv, [Next]_vars
  PROVE  KeysExist'
<1> USE DEF SessionsInv, TypeOK, KeysExist, OnSession, Procs, Process
<1> DEFINE There(k) == k \in Keys /\ vsession[k].state # "NONE"
<1>1. ASSUME NEW k, There(k) PROVE vsession'[k].state # "NONE"
  BY <1>1, SessionsChange
<1>2. ASSUME NEW p \in Procs, proc'[p].pc \in OnSession PROVE There(proc'[p].key)
  <2> USE <1>2, NamesAssumption
  <2>1. ASSUME NEW r \in Requests, ReceivePassword(r) \/ ReceiveKey(r) PROVE There(proc'[p].key)
    <3>1. CASE ReceivePassword(r)
      <4>1. proc'[r].pc = "authenticate" /\ \A q \in Procs \ {r} : proc'[q] = proc[q]
        BY <3>1 DEF ReceivePassword
      <4>2. QED
        BY <4>1
    <3>2. CASE ReceiveKey(r)
      <4>1. There(proc'[r].key) /\ \A q \in Procs \ {r} : proc'[q] = proc[q]
        BY <3>2 DEF ReceiveKey
      <4>2. QED
        BY <4>1
    <3>3. QED
      BY <2>1, <3>1, <3>2
  <2>2. ASSUME NEW r \in Requests, Authenticate(r) \/ RecordSession(r) \/ ChangePassword(r)
        PROVE  There(proc'[p].key)
    BY <2>2, PasswordFrame
  <2>3. ASSUME NEW q \in Procs, CloseStep(q) PROVE There(proc'[p].key)
    BY <2>3, CloseFrame
  <2>4. ASSUME NEW r \in Requests,
               \/ Execute(r) \/ Refuse(r) \/ LockUser(r) \/ UnlockUser(r)
               \/ DeleteUser(r) \/ ResetPassword(r) \/ CloseSessionsOf(r)
        PROVE  There(proc'[p].key)
    BY <2>4, ExecuteFrame
  <2>5. ASSUME NEW r \in Requests,
               Check(r) \/ CheckFailed(r) \/ SaveConnection(r) \/ RecordCommand(r)
        PROVE  There(proc'[p].key)
    BY <2>5, RecordFrame
  <2>6. CASE \/ SelectExpired \/ NextExpired \/ Sleep \/ MonitorEnds \/ SelectFails \/ Restart
    <3>1. CASE p # Monitor
      BY <2>6, <3>1, MonitorFrame
    <3>2. CASE p = Monitor
      <4>1. NextExpired
        BY <2>6, <3>2, MonitorFrame
      <4>2. PICK k \in expired : proc' = [proc EXCEPT ![Monitor].pc = "init", ![Monitor].key = k]
        BY <4>1 DEF NextExpired
      <4>3. QED
        BY <3>2, <4>2
    <3>3. QED
      BY <3>1, <3>2
  <2>7. ASSUME NEW q \in Procs, StatementFails(q) PROVE There(proc'[p].key)
    <3>1. CASE p = q /\ q # Monitor
      BY <2>7, <3>1, FailFrame DEF StatementFails
    <3>2. CASE p = q /\ q = Monitor
      BY <2>7, <3>2, FailFrame DEF StatementFails
    <3>3. CASE p # q
      BY <2>7, <3>3, FailFrame
    <3>4. QED
      BY <3>1, <3>2, <3>3
  <2>8. CASE Crash
    BY <2>8, CrashFrame
  <2>9. CASE UNCHANGED proc
    BY <2>9
  <2>10. QED
    BY <2>1, <2>2, <2>3, <2>4, <2>5, <2>6, <2>7, <2>8, <2>9
       DEF Next, RequestStep, MonitorStep, Failure, Expire, vars
<1>3. ASSUME NEW k \in expired' PROVE There(k)
  <2>1. CASE SelectExpired
    BY <1>3, <2>1 DEF SelectExpired
  <2>2. CASE ~SelectExpired
    BY <1>3, <2>2, SelectedBefore
  <2>3. QED
    BY <2>1, <2>2
<1>4. QED
  BY <1>1, <1>2, <1>3

\* Only the last step of a service writes a row, and it is final.
LEMMA StepRowsFinal ==
  ASSUME SessionsInv, [Next]_vars
  PROVE  RowsFinal'
<1> USE NamesAssumption DEF SessionsInv, TypeOK, RowsFinal, OnSession, Procs, Process,
        PasswordOps, KeyOps, AdminOps
<1>1. ASSUME NEW r \in Requests, ReceivePassword(r) PROVE RowsFinal'
  BY <1>1 DEF ReceivePassword
<1>2. ASSUME NEW r \in Requests, ReceiveKey(r) PROVE RowsFinal'
  BY <1>2 DEF ReceiveKey
<1>3. ASSUME NEW r \in Requests, Authenticate(r) \/ RecordSession(r) \/ ChangePassword(r)
      PROVE  RowsFinal'
  BY <1>3, PasswordFrame DEF Phases
<1>4. ASSUME NEW p \in Procs, CloseStep(p) PROVE RowsFinal'
  BY <1>4, CloseFrame
<1>5. ASSUME NEW r \in Requests,
             \/ Execute(r) \/ Refuse(r) \/ LockUser(r) \/ UnlockUser(r)
             \/ DeleteUser(r) \/ ResetPassword(r) \/ CloseSessionsOf(r)
      PROVE  RowsFinal'
  BY <1>5, ExecuteFrame
<1>6. ASSUME NEW r \in Requests, Check(r) \/ CheckFailed(r) \/ SaveConnection(r), ~RecordCommand(r)
      PROVE  RowsFinal'
  <2>1. command' = command
    BY <1>6 DEF Check, CheckFailed, SaveConnection
  <2>2. QED
    BY <1>6, <2>1, RecordFrame
<1>7. ASSUME NEW r \in Requests, RecordCommand(r) PROVE RowsFinal'
  <2>1. /\ Reply(r, proc[r].result) /\ proc[r].pc = "log"
        /\ command' = command \cup {[req |-> r, status |-> proc[r].result]}
    BY <1>7 DEF RecordCommand
  <2>2. proc[r].op \in KeyOps /\ proc[r].result \in {"success", "error"}
    BY <2>1 DEF Phases
  <2>3. /\ proc'[r].pc = "done" /\ proc'[r].result = proc[r].result /\ proc'[r].op = proc[r].op
        /\ \A q \in Procs \ {r} : proc'[q] = proc[q]
    BY <2>1, <2>2, ReplyFrame
  <2>4. QED
    BY <2>1, <2>2, <2>3
<1>8. CASE \/ SelectExpired \/ NextExpired \/ Sleep \/ MonitorEnds \/ SelectFails \/ Restart
  BY <1>8, MonitorFrame
<1>9. ASSUME NEW p \in Procs, StatementFails(p) PROVE RowsFinal'
  BY <1>9, FailFrame DEF StatementFails
<1>10. CASE Crash
  BY <1>10, CrashFrame
<1>11. CASE UNCHANGED <<command, proc>>
  BY <1>11
<1>12. QED
  BY <1>1, <1>2, <1>3, <1>4, <1>5, <1>6, <1>7, <1>8, <1>9, <1>10, <1>11
     DEF Next, RequestStep, MonitorStep, Failure, Expire, vars

-----------------------------------------------------------------------------
(* Theorems *)

\* The invariant holds for any requests, users and numbers of threads.
THEOREM SessionsInvariant == Spec => []SessionsInv
<1>1. Init => SessionsInv
  <2> SUFFICES ASSUME Init PROVE SessionsInv
    OBVIOUS
  <2> USE NamesAssumption DEF Keys
  <2>1. /\ proc \in [Procs -> Process]
        /\ \A r \in Requests : proc[r].pc = "idle"
        /\ proc[Monitor].pc = "select"
    BY DEF Init, NoRequest, NoSession, Procs, Process, PC
  <2>2. PICK owner \in [Opened -> Users], policy \in [Opened -> Policies] :
          vsession = [k \in Keys |->
            IF k \in Opened
            THEN [state |-> "ACTIVE", owner |-> owner[k], policy |-> policy[k], idle |-> FALSE]
            ELSE [state |-> "NONE", owner |-> None, policy |-> None, idle |-> FALSE]]
    BY Zenon DEF Init
  <2>3. /\ vsession \in [Keys -> SessionRow]
        /\ OwnersKnown
        /\ \A r \in Requests : vsession[r].state = "NONE"
    BY <2>2 DEF SessionRow, OwnersKnown
  <2>4. users \in [Users -> UserRow]
    BY DEF Init, UserRow
  <2>5. TypeOK
    <3>1. server \in {"up", "down"} /\ faults \in 0..MaxFaults
      BY FaultsAssumption DEF Init
    <3>2. command \subseteq [req : Requests, status : {"success", "error"}] /\ expired \subseteq Keys
      BY DEF Init
    <3>3. QED
      BY <2>1, <2>3, <2>4, <3>1, <3>2, Zenon DEF TypeOK
  <2>6. QED
    BY <2>1, <2>3, <2>5
       DEF Init, SessionsInv, FreshKeys, KeysExist, Phases, RowsFinal, OnSession, Procs
<1>2. SessionsInv /\ [Next]_vars => SessionsInv'
  <2>1. SessionsInv /\ [Next]_vars => OwnersKnown'
    BY SessionsChange DEF SessionsInv, OwnersKnown
  <2>2. QED
    BY <2>1, StepTypeOK, StepFreshKeys, StepKeysExist, StepPhases, StepRowsFinal DEF SessionsInv
<1>3. QED
  BY <1>1, <1>2, PTL DEF Spec

\* The tables, the requests and the monitor always have their types.
THEOREM SessionsTypeCorrect == Spec => []TypeOK
BY SessionsInvariant, PTL DEF SessionsInv

\* A session that was closed is never active again.
THEOREM SessionsClosedForGood == Spec => ClosedForGood
<1>1. SessionsInv /\ [Next]_vars =>
        [\A k \in Keys : vsession[k].state = "CLOSED" => vsession'[k].state = "CLOSED"]_vars
  <2>1. SUFFICES ASSUME SessionsInv, [Next]_vars, NEW k \in Keys, vsession[k].state = "CLOSED"
                 PROVE  vsession'[k].state = "CLOSED"
    OBVIOUS
  <2>2. k \in Requests => proc[k].pc # "record"
    BY <2>1 DEF SessionsInv, FreshKeys
  <2>3. QED
    BY <2>1, <2>2, SessionsChange
<1>2. QED
  BY <1>1, SessionsInvariant, PTL DEF Spec, ClosedForGood

\* The history lists as successes exactly the services answered with success.
THEOREM SessionsHistoryIsTrue == Spec => []HistoryIsTrue
<1>1. SessionsInv => HistoryIsTrue
  <2>1. SUFFICES ASSUME SessionsInv, NEW r \in Requests,
                        NEW rows, rows = {c.status : c \in {d \in command : d.req = r}}
                 PROVE  IF proc[r].pc = "done" /\ proc[r].result = "success" /\ proc[r].op \in KeyOps
                        THEN rows = {"success"}
                        ELSE "success" \notin rows
    BY DEF HistoryIsTrue
  <2>2. QED
    BY <2>1 DEF SessionsInv, RowsFinal
<1>2. QED
  BY <1>1, SessionsInvariant, PTL

-----------------------------------------------------------------------------
(* Locking a user *)

\* What a step does to the rows of users.
LEMMA UsersChange ==
  ASSUME SessionsInv, [Next]_vars, NEW u \in Users
  PROVE  /\ users[u].status = "DELETED" => users'[u].status = "DELETED"
         /\ \/ users'[u].status # "LOCKED" \/ users[u].status = "LOCKED"
            \/ \E r \in Requests : LockUser(r) /\ proc[r].target = u
         /\ \/ users'[u].pwd = users[u].pwd
            \/ \E r \in Requests : /\ proc[r].pc \in {"change", "execute"}
                                   /\ proc'[r].pc \in {"done", "check", "fail", "save"}
                                   /\ users'[u].pwd = r
<1> DEFINE Change ==
      /\ users[u].status = "DELETED" => users'[u].status = "DELETED"
      /\ \/ users'[u].status # "LOCKED" \/ users[u].status = "LOCKED"
         \/ \E r \in Requests : LockUser(r) /\ proc[r].target = u
      /\ \/ users'[u].pwd = users[u].pwd
         \/ \E r \in Requests : /\ proc[r].pc \in {"change", "execute"}
                                /\ proc'[r].pc \in {"done", "check", "fail", "save"}
                                /\ users'[u].pwd = r
<1> USE DEF SessionsInv, TypeOK
<1>1. CASE users' = users
  BY <1>1
<1>2. ASSUME NEW r \in Requests, ChangePassword(r) PROVE Change
  <2>1. r \in Procs
    BY DEF Procs
  <2>2. proc[r].pc = "change" /\ proc'[r].pc = "done"
    BY <1>2, <2>1, ReplyFrame DEF ChangePassword
  <2>3. users'[u].status = users[u].status /\ (users'[u].pwd = users[u].pwd \/ users'[u].pwd = r)
    BY <1>2 DEF ChangePassword, UserRow
  <2>4. QED
    BY <2>2, <2>3
<1>3. ASSUME NEW r \in Requests, ResetPassword(r) PROVE Change
  <2>1. r \in Procs /\ r # Monitor
    BY NamesAssumption DEF Procs
  <2>2. proc[r].pc = "execute" /\ proc'[r].pc \in {"check", "fail", "save"}
    BY <1>3, <2>1, ThrowFrame, FinishFrame DEF Fails, ResetPassword, Administer, FinishOrThrow
  <2>3. users'[u].status = users[u].status /\ (users'[u].pwd = users[u].pwd \/ users'[u].pwd = r)
    BY <1>3 DEF ResetPassword, UserRow
  <2>4. QED
    BY <2>2, <2>3
<1>4. ASSUME NEW r \in Requests, LockUser(r) PROVE Change
  BY <1>4 DEF LockUser, SetStatus, UserRow
<1>5. ASSUME NEW r \in Requests, UnlockUser(r) \/ DeleteUser(r) PROVE Change
  BY <1>5 DEF UnlockUser, DeleteUser, SetStatus, UserRow
<1>6. ASSUME NEW p \in Procs, CloseStep(p) PROVE users' = users
  BY <1>6 DEF CloseStep, InitUser, Exist, GetState, CloseSession
<1>7. ASSUME NEW r \in Requests, RequestStep(r) PROVE Change
  <2>1. r \in Procs
    BY DEF Procs
  <2>2. QED
    BY <1>1, <1>2, <1>3, <1>4, <1>5, <1>6, <1>7, <2>1
       DEF RequestStep, Authenticate, RecordSession, Execute, Refuse, CloseSessionsOf, Check,
           CheckFailed, SaveConnection, RecordCommand
<1>8. CASE MonitorStep
  BY <1>1, <1>6, <1>8 DEF MonitorStep, SelectExpired, NextExpired, Sleep, MonitorEnds, Procs
<1>9. CASE Failure \/ Restart
  BY <1>1, <1>9 DEF Failure, StatementFails, SelectFails, Crash, Restart
<1>10. QED
  BY <1>1, <1>7, <1>8, <1>9 DEF Next, ReceivePassword, ReceiveKey, Expire, vars

\* A request begins with no result; closing a session is the work of close, and
\* the sessions of a user are closed by a lock.
LockPhases ==
  \A r \in Requests :
    /\ proc[r].pc = "idle" => proc[r].result = "none" /\ ~proc[r].half
    /\ proc[r].pc \in {"state", "close"} => proc[r].op = "close"
    /\ proc[r].pc = "closeall" => proc[r].op = "lock"

\* A service that is no close goes from init and exist to its own statements.
LEMMA CloseOnlyCloses ==
  ASSUME TypeOK, LockPhases, NEW r \in Requests, CloseStep(r)
  PROVE  /\ proc'[r].pc \in {"state", "close"} => proc[r].op = "close"
         /\ proc[r].op = "lock" => proc'[r].result \in {proc[r].result, "error"}
<1>1. r \in Procs /\ r # Monitor
  BY NamesAssumption DEF Procs
<1>2. proc \in [Procs -> Process] /\ proc[r] \in Process
  BY <1>1, Zenon DEF TypeOK
<1>3. CASE Fails(r)
  BY <1>1, <1>3, ThrowFrame
<1>4. CASE Finish(r) /\ proc[r].op = "close"
  BY <1>1, <1>4, FinishFrame
<1>5. CASE InitUser(r) /\ ~Fails(r)
  BY <1>1, <1>2, <1>5 DEF Fails, InitUser, Process
<1>6. CASE Exist(r) /\ ~Fails(r) /\ ~Finish(r)
  BY <1>1, <1>2, <1>6 DEF Fails, Exist, Goto, Process
<1>7. CASE GetState(r) /\ ~Fails(r)
  BY <1>1, <1>2, <1>7 DEF GetState, Goto, Process, LockPhases
<1>8. Exist(r) => Fails(r) \/ (Finish(r) /\ proc[r].op = "close") \/ ~(Fails(r) \/ Finish(r))
  <2>1. SUFFICES ASSUME Exist(r), Finish(r), proc[r].op # "close" PROVE Fails(r)
    OBVIOUS
  <2>2. proc'[r].pc \in {"check", "save"}
    BY <1>1, <2>1, FinishFrame
  <2>3. QED
    BY <1>1, <1>2, <2>1, <2>2 DEF Fails, Exist, Goto, Process
<1>9. CloseSession(r) => Fails(r) \/ (Finish(r) /\ proc[r].op = "close")
  BY DEF CloseSession, FinishOrThrow, LockPhases
<1>10. QED
  BY <1>3, <1>4, <1>5, <1>6, <1>7, <1>8, <1>9 DEF CloseStep

\* What a step does to a lock: it succeeds by closing the sessions, and one that
\* is half done stays so until then, however it ends.
LEMMA LockChange ==
  ASSUME SessionsInv, LockPhases, [Next]_vars, NEW q \in Requests
  PROVE  /\ proc'[q].pc = "idle" => proc'[q].result = "none" /\ ~proc'[q].half
         /\ proc'[q].pc \in {"state", "close"} => proc'[q].op = "close"
         /\ proc'[q].pc = "closeall" => proc'[q].op = "lock"
         /\ proc'[q].op = "lock" /\ proc'[q].result = "success"
              => \/ CloseSessionsOf(q)
                 \/ /\ proc[q].op = "lock" /\ proc[q].result = "success"
                    /\ proc'[q].target = proc[q].target
         /\ proc[q].op = "lock" /\ proc[q].half
              => \/ CloseSessionsOf(q)
                 \/ proc'[q].op = "lock" /\ proc'[q].half /\ proc'[q].target = proc[q].target
<1> DEFINE Change ==
      /\ proc'[q].pc = "idle" => proc'[q].result = "none" /\ ~proc'[q].half
      /\ proc'[q].pc \in {"state", "close"} => proc'[q].op = "close"
      /\ proc'[q].pc = "closeall" => proc'[q].op = "lock"
      /\ proc'[q].op = "lock" /\ proc'[q].result = "success"
           => \/ CloseSessionsOf(q)
              \/ /\ proc[q].op = "lock" /\ proc[q].result = "success"
                 /\ proc'[q].target = proc[q].target
      /\ proc[q].op = "lock" /\ proc[q].half
           => \/ CloseSessionsOf(q)
              \/ proc'[q].op = "lock" /\ proc'[q].half /\ proc'[q].target = proc[q].target
<1>1. TypeOK /\ Phases /\ q \in Procs /\ q # Monitor /\ proc \in [Procs -> Process] /\ proc[q] \in Process
  BY NamesAssumption, Zenon DEF SessionsInv, TypeOK, Procs
<1>2. CASE proc'[q] = proc[q]
  BY <1>2 DEF LockPhases
<1>3. ASSUME NEW r \in Requests, ReceivePassword(r) \/ ReceiveKey(r) PROVE Change
  <2>1. CASE q # r
    BY <1>1, <1>2, <1>3, <2>1, ReceiveFrame
  <2>2. CASE q = r
    <3> HIDE DEF Change
    <3>1. proc[q].pc = "idle" /\ proc[q].result = "none" /\ ~proc[q].half
      BY <1>1, <1>3, <2>2, ReceiveFrame DEF LockPhases
    <3>2. CASE ReceivePassword(q)
      BY <1>1, <3>1, <3>2 DEF ReceivePassword, Process, Change
    <3>3. CASE ReceiveKey(q)
      BY <1>1, <3>1, <3>3 DEF ReceiveKey, Process, Change
    <3>4. QED
      BY <1>3, <2>2, <3>2, <3>3
  <2>3. QED
    BY <2>1, <2>2
<1>4. ASSUME NEW r \in Requests, Authenticate(r) \/ RecordSession(r) \/ ChangePassword(r) PROVE Change
  <2>1. proc[r].op # "lock"
    BY <1>1, <1>4, PasswordFrame DEF Phases, PasswordOps
  <2>2. QED
    BY <1>1, <1>2, <1>4, <2>1, PasswordFrame
<1>5. ASSUME NEW p \in Procs, CloseStep(p) PROVE Change
  <2>1. CASE q # p
    BY <1>1, <1>2, <1>5, <2>1, CloseFrame
  <2>2. CASE q = p
    <3>1. /\ proc'[q].pc \notin {"idle", "closeall"}
          /\ proc'[q].op = proc[q].op /\ proc'[q].target = proc[q].target
          /\ proc'[q].half = proc[q].half
      BY <1>1, <1>5, <2>2, CloseFrame
    <3>2. QED
      BY <1>1, <1>5, <2>2, <3>1, CloseOnlyCloses
  <2>3. QED
    BY <2>1, <2>2
<1>6. ASSUME NEW r \in Requests,
             \/ Execute(r) \/ Refuse(r) \/ LockUser(r) \/ UnlockUser(r)
             \/ DeleteUser(r) \/ ResetPassword(r) \/ CloseSessionsOf(r)
      PROVE  Change
  <2>1. CASE q # r
    BY <1>1, <1>2, <1>6, <2>1, ExecuteFrame
  <2>2. CASE q = r /\ LockUser(q)
    BY <1>1, <2>2 DEF LockUser, Administer, Process
  <2>3. CASE q = r /\ CloseSessionsOf(q)
    BY <1>1, <2>3 DEF CloseSessionsOf, Process
  <2>4. CASE q = r /\ Refuse(q)
    BY <1>1, <2>4, ThrowFrame DEF Fails, Refuse
  <2>5. CASE q = r /\ (Execute(q) \/ UnlockUser(q) \/ DeleteUser(q) \/ ResetPassword(q))
    <3>1. proc[q].op # "lock" /\ (Finish(q) \/ Fails(q))
      BY <2>5 DEF Fails, Execute, UnlockUser, DeleteUser, ResetPassword, Administer, FinishOrThrow
    <3>2. proc'[q].op = proc[q].op /\ proc'[q].pc \in {"check", "fail", "save"}
      BY <1>1, <3>1, FinishFrame, ThrowFrame
    <3>3. QED
      BY <3>1, <3>2
  <2>6. QED
    BY <1>6, <2>1, <2>2, <2>3, <2>4, <2>5
<1>7. ASSUME NEW r \in Requests, Check(r) \/ CheckFailed(r) \/ SaveConnection(r) \/ RecordCommand(r)
      PROVE  Change
  <2>1. CASE q # r
    BY <1>1, <1>2, <1>7, <2>1, RecordFrame
  <2>2. CASE q = r
    BY <1>1, <1>7, <2>2, RecordFrame
  <2>3. QED
    BY <2>1, <2>2
<1>8. ASSUME \/ SelectExpired \/ NextExpired \/ Sleep \/ MonitorEnds \/ SelectFails \/ Restart
      PROVE  Change
  BY <1>1, <1>2, <1>8, MonitorFrame
<1>9. ASSUME NEW p \in Procs, StatementFails(p) PROVE Change
  <2>1. CASE q # p
    BY <1>1, <1>2, <1>9, <2>1, FailFrame
  <2>2. CASE q = p
    BY <1>1, <1>9, <2>2, FailFrame
  <2>3. QED
    BY <2>1, <2>2
<1>10. ASSUME Crash PROVE Change
  BY <1>1, <1>2, <1>10, CrashFrame
<1>11. ASSUME UNCHANGED proc PROVE Change
  BY <1>2, <1>11
<1> HIDE DEF Change
<1>12. Change
  <2>1. CASE \E k \in Keys : Expire(k)
    BY <1>11, <2>1 DEF Expire
  <2>2. CASE Failure \/ Restart
    BY <1>8, <1>9, <1>10, <2>2 DEF Failure
  <2>3. CASE MonitorStep
    BY <1>5, <1>8, <2>3 DEF MonitorStep, Procs
  <2>4. ASSUME NEW r \in Requests, ReceivePassword(r) \/ ReceiveKey(r) \/ RequestStep(r) PROVE Change
    <3>1. r \in Procs
      BY DEF Procs
    <3>2. QED
      BY <1>3, <1>4, <1>5, <1>6, <1>7, <2>4, <3>1 DEF RequestStep
  <2>5. QED
    BY <1>11, <2>1, <2>2, <2>3, <2>4 DEF Next, vars
<1>13. QED
  BY <1>12 DEF Change

LEMMA StepLockedUserHasNoSession ==
  ASSUME SessionsInv, LockPhases, LockedUserHasNoSession, [Next]_vars
  PROVE  LockedUserHasNoSession'
<1> SUFFICES ASSUME NEW k \in Opened, vsession'[k].state = "ACTIVE"
             PROVE  /\ \A r \in Requests :
                         proc'[r].op = "lock" /\ proc'[r].target = vsession'[k].owner
                           => proc'[r].result # "success"
                    /\ users'[vsession'[k].owner].status = "LOCKED" =>
                         \E r \in Requests : /\ proc'[r].op = "lock" /\ proc'[r].half
                                             /\ proc'[r].target = vsession'[k].owner
  BY DEF LockedUserHasNoSession
<1> DEFINE u == vsession[k].owner
<1>1. k \in Keys /\ k \notin Requests
  BY NamesAssumption DEF Keys
<1>2. vsession[k].state = "ACTIVE" /\ vsession'[k].owner = u
  BY <1>1, SessionsChange
<1>3. u \in Users
  BY <1>1, <1>2 DEF SessionsInv, OwnersKnown
<1>4. ASSUME NEW q \in Requests, proc[q].target = u PROVE ~CloseSessionsOf(q)
  <2>1. SUFFICES ASSUME CloseSessionsOf(q) PROVE vsession'[k].state = "CLOSED"
    OBVIOUS
  <2>2. QED
    BY <1>1, <1>2, <1>4, <2>1 DEF CloseSessionsOf, SessionsInv, TypeOK, SessionRow
<1>5. ASSUME NEW q \in Requests,
             proc'[q].op = "lock", proc'[q].target = u, proc'[q].result = "success"
      PROVE  FALSE
  <2>1. CASE CloseSessionsOf(q)
    <3>1. proc'[q].target = proc[q].target
      BY <2>1 DEF CloseSessionsOf, SessionsInv, TypeOK, Procs, Process
    <3>2. QED
      BY <1>4, <1>5, <2>1, <3>1
  <2>2. CASE ~CloseSessionsOf(q)
    BY <1>2, <1>5, <2>2, LockChange DEF LockedUserHasNoSession
  <2>3. QED
    BY <2>1, <2>2
<1>6. CASE \E r \in Requests : LockUser(r) /\ proc[r].target = u
  <2>1. PICK r \in Requests : LockUser(r) /\ proc[r].target = u
    BY <1>6
  <2>2. proc'[r].op = "lock" /\ proc'[r].half /\ proc'[r].target = u
    BY <2>1 DEF LockUser, Administer, SessionsInv, TypeOK, Procs, Process
  <2>3. QED
    BY <1>2, <1>5, <2>2
<1>7. CASE users[u].status = "LOCKED"
  <2>1. PICK q \in Requests : proc[q].op = "lock" /\ proc[q].target = u /\ proc[q].half
    BY <1>2, <1>7 DEF LockedUserHasNoSession
  <2>2. proc'[q].op = "lock" /\ proc'[q].half /\ proc'[q].target = u
    BY <1>4, <2>1, LockChange
  <2>3. QED
    BY <1>2, <1>5, <2>2
<1>8. QED
  BY <1>2, <1>3, <1>5, <1>6, <1>7, UsersChange

\* Locking a user, when it succeeds, has ended the sessions open before; a locked
\* user keeps one only from a lock that stopped between its two statements.
THEOREM SessionsOfLockedUsersEnd == Spec => []LockedUserHasNoSession
<1>1. Init => LockPhases /\ LockedUserHasNoSession
  <2> SUFFICES ASSUME Init PROVE LockPhases /\ LockedUserHasNoSession
    OBVIOUS
  <2>1. PICK owner \in [Opened -> Users], policy \in [Opened -> Policies] :
          vsession = [k \in Keys |->
            IF k \in Opened
            THEN [state |-> "ACTIVE", owner |-> owner[k], policy |-> policy[k], idle |-> FALSE]
            ELSE [state |-> "NONE", owner |-> None, policy |-> None, idle |-> FALSE]]
    BY Zenon DEF Init
  <2>2. \A k \in Opened : vsession[k].owner \in Users
    BY <2>1 DEF Keys
  <2>3. \A u \in Users : users[u].status = "ACTIVE"
    BY DEF Init
  <2>4. \A r \in Requests : proc[r].pc = "idle" /\ proc[r].result = "none" /\ ~proc[r].half
    BY NamesAssumption DEF Init, NoRequest, Procs
  <2>5. QED
    BY <2>2, <2>3, <2>4 DEF LockPhases, LockedUserHasNoSession
<1>2. SessionsInv /\ LockPhases /\ LockedUserHasNoSession /\ [Next]_vars
        => LockPhases' /\ LockedUserHasNoSession'
  <2>1. SessionsInv /\ LockPhases /\ [Next]_vars => LockPhases'
    BY LockChange DEF LockPhases
  <2>2. QED
    BY <2>1, StepLockedUserHasNoSession
<1>3. QED
  BY <1>1, <1>2, SessionsInvariant, PTL DEF Spec

-----------------------------------------------------------------------------
(* Closing a session *)

Unwritten == {"idle", "authenticate", "change", "init", "exist", "execute"}

\* A password that is still to be written is nobody's.
NewPasswords ==
  \A q \in Requests : proc[q].pc \in Unwritten =>
    (\A u \in Users : users[u].pwd # q) /\ (\A p \in Procs : proc[p].pwd # q)

\* Whose session is closed is known; a service that checks the session again, or
\* closes all sessions of a user, is not a close.
ClosePhases ==
  /\ \A p \in Procs : proc[p].pc \in {"exist", "state", "close"} => proc[p].user \in Users
  /\ \A r \in Requests : proc[r].pc \in {"check", "closeall"} => proc[r].op # "close"

\* The session is closed, or exist() found no such account.
Closed(r) ==
  /\ proc[r].key \in Keys /\ proc[r].user \in Users
  /\ \/ vsession[proc[r].key].state = "CLOSED"
     \/ users[proc[r].user].status = "DELETED"
     \/ users[proc[r].user].pwd # proc[r].pwd

SuccessfulClose(r) ==
  proc[r].pc \in {"save", "log", "done"} /\ proc[r].op = "close" /\ proc[r].result = "success"

CloseInv == NewPasswords /\ ClosePhases /\ \A r \in Requests : SuccessfulClose(r) => Closed(r)

\* What a step does to a request or to the monitor, as far as a close is concerned.
LEMMA ProcChange ==
  ASSUME SessionsInv, ClosePhases, [Next]_vars, NEW q \in Procs
  PROVE  /\ \/ proc'[q].pwd = proc[q].pwd \/ proc'[q].pwd = None
            \/ \E v \in Users : proc'[q].pwd = users[v].pwd
         /\ proc'[q].pc \in {"exist", "state", "close"} => proc'[q].user \in Users
         /\ q \in Requests =>
              /\ proc'[q].pc \in Unwritten => proc[q].pc \in Unwritten
              /\ proc'[q].pc \in {"check", "closeall"} => proc'[q].op # "close"
              /\ SuccessfulClose(q)' =>
                   \/ /\ SuccessfulClose(q)
                      /\ proc'[q].key = proc[q].key /\ proc'[q].user = proc[q].user
                      /\ proc'[q].pwd = proc[q].pwd
                   \/ CloseSession(q)
                   \/ /\ Exist(q)
                      /\ \/ users[proc[q].user].status = "DELETED"
                         \/ users[proc[q].user].pwd # proc[q].pwd
<1> DEFINE Change ==
      /\ \/ proc'[q].pwd = proc[q].pwd \/ proc'[q].pwd = None
         \/ \E v \in Users : proc'[q].pwd = users[v].pwd
      /\ proc'[q].pc \in {"exist", "state", "close"} => proc'[q].user \in Users
      /\ q \in Requests =>
           /\ proc'[q].pc \in Unwritten => proc[q].pc \in Unwritten
           /\ proc'[q].pc \in {"check", "closeall"} => proc'[q].op # "close"
           /\ SuccessfulClose(q)' =>
                \/ /\ SuccessfulClose(q)
                   /\ proc'[q].key = proc[q].key /\ proc'[q].user = proc[q].user
                   /\ proc'[q].pwd = proc[q].pwd
                \/ CloseSession(q)
                \/ /\ Exist(q)
                   /\ \/ users[proc[q].user].status = "DELETED"
                      \/ users[proc[q].user].pwd # proc[q].pwd
<1> USE DEF SuccessfulClose
<1>1. TypeOK /\ Phases /\ proc \in [Procs -> Process] /\ proc[q] \in Process
  BY Zenon DEF SessionsInv, TypeOK
<1>2. CASE proc'[q] = proc[q]
  BY <1>2 DEF ClosePhases
<1>3. ASSUME NEW r \in Requests, ReceivePassword(r) \/ ReceiveKey(r) PROVE Change
  <2>1. CASE q # r
    BY <1>1, <1>2, <1>3, <2>1, ReceiveFrame
  <2>2. CASE q = r
    <3>1. proc[q].pc = "idle"
      BY <1>1, <1>3, <2>2, ReceiveFrame
    <3>2. proc'[q].pwd = proc[q].pwd /\ proc'[q].pc \in {"authenticate", "init"}
      <4>1. CASE ReceivePassword(q)
        BY <1>1, <4>1 DEF ReceivePassword, Process
      <4>2. CASE ReceiveKey(q)
        BY <1>1, <4>2 DEF ReceiveKey, Process
      <4>3. QED
        BY <1>3, <2>2, <4>1, <4>2
    <3>3. QED
      BY <3>1, <3>2 DEF Unwritten
  <2>3. QED
    BY <2>1, <2>2
<1>4. ASSUME NEW r \in Requests, Authenticate(r) \/ RecordSession(r) \/ ChangePassword(r) PROVE Change
  <2>1. CASE q # r
    BY <1>1, <1>2, <1>4, <2>1, PasswordFrame
  <2>2. CASE q = r
    BY <1>1, <1>4, <2>2, PasswordFrame DEF Phases, PasswordOps, Unwritten
  <2>3. QED
    BY <2>1, <2>2
<1>5. ASSUME NEW p \in Procs, CloseStep(p) PROVE Change
  <2>1. CASE q # p
    BY <1>1, <1>2, <1>5, <2>1, CloseFrame
  <2>2. CASE q = p /\ Fails(q)
    <3>1. q \in Requests => proc[q].pc \in Unwritten \/ proc'[q].pc \notin Unwritten
      BY <1>1, <2>2, ThrowFrame, NamesAssumption DEF Unwritten
    <3>2. QED
      BY <1>1, <2>2, <3>1, ThrowFrame, NamesAssumption
  <2>3. CASE q = p /\ Finish(q)
    <3>1. /\ proc'[q].pwd \in {proc[q].pwd, None}
          /\ proc'[q].pc \in {"next", "check", "save"}
          /\ q \in Requests => proc'[q].op = proc[q].op
      BY <1>1, <2>3, FinishFrame, NamesAssumption
    <3>2. q \in Requests /\ proc'[q].pc = "check" => proc[q].op # "close"
      BY <1>1, <2>3, NamesAssumption DEF Finish, Process
    <3>3. q \in Requests /\ proc[q].op = "close" =>
            \/ CloseSession(q)
            \/ /\ Exist(q)
               /\ \/ users[proc[q].user].status = "DELETED"
                  \/ users[proc[q].user].pwd # proc[q].pwd
      <4>1. SUFFICES ASSUME q \in Requests, proc[q].op = "close", ~CloseSession(q)
                     PROVE  /\ Exist(q)
                            /\ \/ users[proc[q].user].status = "DELETED"
                               \/ users[proc[q].user].pwd # proc[q].pwd
        OBVIOUS
      <4>2. proc'[q].pc = "save" /\ proc'[q].result = "success"
        BY <1>1, <2>3, <4>1, NamesAssumption DEF Finish, Process
      <4>3. ~Fails(q)
        BY <1>1, <4>1, <4>2, ThrowFrame, NamesAssumption
      <4>4. ~InitUser(q) /\ ~GetState(q)
        BY <1>1, <4>2, <4>3 DEF Fails, InitUser, GetState, Goto, Process
      <4>5. Exist(q)
        BY <1>5, <2>3, <4>1, <4>4 DEF CloseStep
      <4>6. QED
        BY <1>1, <4>1, <4>2, <4>3, <4>5 DEF Fails, Exist, Goto, Process
    <3>4. QED
      BY <3>1, <3>2, <3>3 DEF Unwritten
  <2>4. CASE q = p /\ InitUser(q) /\ ~Fails(q)
    <3>1. vsession[proc[q].key].state # "NONE" /\ proc[q].key \in Keys
      BY <2>4 DEF InitUser, SessionsInv, KeysExist, OnSession
    <3>2. Owner(q) \in Users
      BY <3>1 DEF SessionsInv, OwnersKnown, Owner
    <3>3. /\ proc[q].pc = "init" /\ proc'[q].pc = "exist"
          /\ proc'[q].user = Owner(q) /\ proc'[q].pwd = users[Owner(q)].pwd
      BY <1>1, <2>4 DEF Fails, InitUser, Process
    <3>4. QED
      BY <3>2, <3>3 DEF Unwritten
  <2>5. CASE q = p /\ (Exist(q) \/ GetState(q)) /\ ~Fails(q) /\ ~Finish(q)
    <3>1. /\ proc[q].pc \in {"exist", "state"} /\ proc'[q].pc \in {"state", "execute", "close"}
          /\ proc'[q].pc = "execute" => proc[q].pc = "exist"
          /\ proc'[q].user = proc[q].user /\ proc'[q].pwd = proc[q].pwd
      BY <1>1, <2>5 DEF Fails, Exist, GetState, Goto, Process
    <3>2. QED
      BY <3>1 DEF ClosePhases, Unwritten
  <2>6. QED
    BY <1>5, <2>1, <2>2, <2>3, <2>4, <2>5 DEF CloseStep, InitUser, GetState, CloseSession, FinishOrThrow
<1>6. ASSUME NEW r \in Requests,
             \/ Execute(r) \/ Refuse(r) \/ LockUser(r) \/ UnlockUser(r)
             \/ DeleteUser(r) \/ ResetPassword(r) \/ CloseSessionsOf(r)
      PROVE  Change
  <2>1. CASE q # r
    BY <1>1, <1>2, <1>6, <2>1, ExecuteFrame
  <2>2. CASE q = r
    <3>1. proc[q].op # "close"
      BY <1>6, <2>2 DEF Execute, Refuse, LockUser, UnlockUser, DeleteUser, ResetPassword, Administer,
                        CloseSessionsOf, AdminOps, ClosePhases
    <3>2. QED
      BY <1>1, <1>6, <2>2, <3>1, ExecuteFrame DEF Unwritten
  <2>3. QED
    BY <2>1, <2>2
<1>7. ASSUME NEW r \in Requests, Check(r) \/ CheckFailed(r) \/ SaveConnection(r) \/ RecordCommand(r)
      PROVE  Change
  <2>1. CASE q # r
    BY <1>1, <1>2, <1>7, <2>1, RecordFrame
  <2>2. CASE q = r
    BY <1>1, <1>7, <2>2, RecordFrame DEF Unwritten, ClosePhases, Phases
  <2>3. QED
    BY <2>1, <2>2
<1>8. ASSUME \/ SelectExpired \/ NextExpired \/ Sleep \/ MonitorEnds \/ SelectFails \/ Restart
      PROVE  Change
  <2>1. CASE q # Monitor
    BY <1>1, <1>2, <1>8, <2>1, MonitorFrame
  <2>2. CASE q = Monitor
    BY <1>1, <1>8, <2>2, MonitorFrame, NamesAssumption
  <2>3. QED
    BY <2>1, <2>2
<1>9. ASSUME NEW p \in Procs, StatementFails(p) PROVE Change
  <2>1. CASE q # p
    BY <1>1, <1>2, <1>9, <2>1, FailFrame
  <2>2. CASE q = p
    BY <1>1, <1>9, <2>2, FailFrame, NamesAssumption DEF Unwritten
  <2>3. QED
    BY <2>1, <2>2
<1>10. ASSUME Crash PROVE Change
  BY <1>1, <1>2, <1>10, CrashFrame DEF Unwritten
<1>11. ASSUME UNCHANGED proc PROVE Change
  BY <1>2, <1>11
<1> HIDE DEF Change, SuccessfulClose
<1>12. Change
  <2>1. CASE \E k \in Keys : Expire(k)
    BY <1>11, <2>1 DEF Expire
  <2>2. CASE Failure \/ Restart
    BY <1>8, <1>9, <1>10, <2>2 DEF Failure
  <2>3. CASE MonitorStep
    BY <1>5, <1>8, <2>3 DEF MonitorStep, Procs
  <2>4. ASSUME NEW r \in Requests, ReceivePassword(r) \/ ReceiveKey(r) \/ RequestStep(r) PROVE Change
    <3>1. r \in Procs
      BY DEF Procs
    <3>2. QED
      BY <1>3, <1>4, <1>5, <1>6, <1>7, <2>4, <3>1 DEF RequestStep
  <2>5. QED
    BY <1>11, <2>1, <2>2, <2>3, <2>4 DEF Next, vars
<1>13. QED
  BY <1>12 DEF Change

\* A closed session stays closed, a deleted user deleted, and a password that was
\* changed is not changed back.
LEMMA ClosedStays ==
  ASSUME SessionsInv, CloseInv, [Next]_vars, NEW r \in Requests, Closed(r),
         proc'[r].key = proc[r].key, proc'[r].user = proc[r].user, proc'[r].pwd = proc[r].pwd
  PROVE  Closed(r)'
<1> DEFINE k == proc[r].key
           u == proc[r].user
<1>1. k \in Keys /\ u \in Users
  BY DEF Closed
<1>2. CASE vsession[k].state = "CLOSED"
  <2>1. k \in Requests => proc[k].pc # "record"
    BY <1>2 DEF SessionsInv, FreshKeys
  <2>2. vsession'[k].state = "CLOSED"
    BY <1>1, <1>2, <2>1, SessionsChange
  <2>3. QED
    BY <1>1, <2>2 DEF Closed
<1>3. CASE users[u].status = "DELETED"
  BY <1>1, <1>3, UsersChange DEF Closed
<1>4. CASE users[u].pwd # proc[r].pwd
  <2>1. \A q \in Requests : proc[q].pc \in {"change", "execute"} => proc[r].pwd # q
    BY DEF CloseInv, NewPasswords, Unwritten, Procs
  <2>2. users'[u].pwd # proc[r].pwd
    BY <1>1, <1>4, <2>1, UsersChange
  <2>3. QED
    BY <1>1, <2>2 DEF Closed
<1>5. QED
  BY <1>2, <1>3, <1>4 DEF Closed

LEMMA StepCloseInv ==
  ASSUME SessionsInv, CloseInv, [Next]_vars
  PROVE  CloseInv'
<1>1. NewPasswords'
  <2> SUFFICES ASSUME NEW q \in Requests, proc'[q].pc \in Unwritten
               PROVE  (\A u \in Users : users'[u].pwd # q) /\ (\A p \in Procs : proc'[p].pwd # q)
    BY DEF NewPasswords
  <2>1. proc[q].pc \in Unwritten
    BY ProcChange DEF CloseInv, Procs
  <2>2. (\A u \in Users : users[u].pwd # q) /\ (\A p \in Procs : proc[p].pwd # q)
    BY <2>1 DEF CloseInv, NewPasswords
  <2>3. proc'[q].pc \notin {"done", "check", "fail", "save"}
    BY DEF Unwritten
  <2>4. \A u \in Users : users'[u].pwd # q
    BY <2>2, <2>3, UsersChange
  <2>5. \A p \in Procs : proc'[p].pwd # q
    BY <2>2, ProcChange, NamesAssumption DEF CloseInv
  <2>6. QED
    BY <2>4, <2>5
<1>2. ClosePhases'
  BY ProcChange DEF CloseInv, ClosePhases, Procs
<1>3. ASSUME NEW r \in Requests, SuccessfulClose(r)' PROVE Closed(r)'
  <2>1. CASE /\ SuccessfulClose(r)
             /\ proc'[r].key = proc[r].key /\ proc'[r].user = proc[r].user
             /\ proc'[r].pwd = proc[r].pwd
    BY <2>1, ClosedStays DEF CloseInv
  <2>2. CASE CloseSession(r) \/ Exist(r)
    <3>0. ~SuccessfulClose(r)
      BY <2>2 DEF SuccessfulClose, CloseSession, Exist
    <3>1. proc[r].key \in Keys /\ proc[r].user \in Users
      BY <2>2 DEF CloseSession, Exist, CloseInv, ClosePhases, SessionsInv, KeysExist, OnSession, Procs
    <3>2. /\ proc'[r].key = proc[r].key /\ proc'[r].user = proc[r].user
          /\ proc'[r].pwd = proc[r].pwd
      <4>1. TypeOK /\ r \in Procs /\ r # Monitor /\ proc \in [Procs -> Process] /\ proc[r] \in Process
        BY NamesAssumption, Zenon DEF SessionsInv, TypeOK, Procs
      <4>2. CASE Fails(r) \/ Finish(r)
        BY <4>1, <4>2, ThrowFrame, FinishFrame
      <4>3. CASE Exist(r) /\ ~Fails(r) /\ ~Finish(r)
        BY <4>1, <4>3 DEF Fails, Exist, Goto, Process
      <4>4. QED
        BY <2>2, <4>2, <4>3 DEF CloseSession, FinishOrThrow
    <3>3. CASE CloseSession(r)
      <4>1. vsession'[proc[r].key].state = "CLOSED"
        BY <3>1, <3>3 DEF CloseSession, SessionsInv, TypeOK, SessionRow
      <4>2. QED
        BY <3>1, <3>2, <4>1 DEF Closed
    <3>4. CASE /\ Exist(r)
               /\ \/ users[proc[r].user].status = "DELETED"
                  \/ users[proc[r].user].pwd # proc[r].pwd
      <4>1. Closed(r)
        BY <3>1, <3>4 DEF Closed
      <4>2. QED
        BY <3>2, <4>1, ClosedStays
    <3>5. QED
      BY <1>3, <3>0, <3>3, <3>4, ProcChange DEF CloseInv, Procs
  <2>3. QED
    BY <1>3, <2>1, <2>2, ProcChange DEF CloseInv, Procs
<1>4. QED
  BY <1>1, <1>2, <1>3 DEF CloseInv

\* A close answered with success has closed the session, unless exist() found no
\* such account.
THEOREM SessionsCloseCloses == Spec => []CloseCloses
<1>1. Init => CloseInv
  <2> SUFFICES ASSUME Init PROVE CloseInv
    OBVIOUS
  <2>1. /\ \A r \in Requests : proc[r].pc = "idle"
        /\ \A p \in Procs : proc[p].pwd = None /\ proc[p].pc \notin {"exist", "state", "close"}
    BY NamesAssumption DEF Init, NoRequest, NoSession, Procs
  <2>2. \A u \in Users : users[u].pwd = None
    BY DEF Init
  <2>3. QED
    BY <2>1, <2>2, NamesAssumption DEF CloseInv, NewPasswords, ClosePhases, SuccessfulClose
<1>2. SessionsInv /\ CloseInv /\ [Next]_vars => CloseInv'
  BY StepCloseInv
<1>3. CloseInv => CloseCloses
  BY DEF CloseInv, CloseCloses, SuccessfulClose, Closed
<1>4. QED
  BY <1>1, <1>2, <1>3, SessionsInvariant, PTL DEF Spec
=============================================================================
