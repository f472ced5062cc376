----------------------------- MODULE Accounts -----------------------------
(***************************************************************************)
(* The administrators' requests about objects that exist, next to those    *)
(* that create objects (Ids): updating and deleting users, machines and    *)
(* authentication systems, and adding, updating and deleting the accounts  *)
(* of users on machines (LocalAccountServer) and on authentication systems *)
(* (AuthAccountServer).  Every step is one statement, or several that read *)
(* what cannot change in between.                                          *)
(***************************************************************************)
EXTENDS Ids

CONSTANTS OldAccounts,  \* the accounts that are there from the beginning
          AccountsAre   \* [OldAccounts -> the accounts]

VARIABLES holder,   \* the machine or authentication system a request has found
          owner,    \* the user it has found
          account   \* the rows of account and authaccount, by who inserted them

accVars == <<holder, owner, account>>
vars == <<idVars, accVars>>

NoAccount == [holder |-> NoOne, user |-> NoOne, login |-> "none", status |-> "none"]
Holders == {"machine", "authsystem"}
AccountRows == Requests \cup OldAccounts

\* The accounts of user u there, whatever their status.
AccountsOf(h, u) ==
  {a \in AccountRows : account[a].holder = h /\ account[a].user = u}
Live(a) == account[a].status = "active"

AccountOps == {"addAccount", "updateAccount", "deleteAccount"}

\* What is there from the beginning respects AccountsAreOnce; checkEntityStatus
\* of the API lets an update lock or activate, never delete.
ASSUME AccountsAssumption ==
  /\ NoOne \notin Objects
  /\ OldAccounts \cap Requests = {}
  /\ \A a \in OldAccounts :
       LET row == AccountsAre[a]
       IN /\ DOMAIN row = DOMAIN NoAccount
          /\ row.holder \in Existing /\ Described[row.holder].kind \in Holders
          /\ row.user \in Existing /\ Described[row.user].kind = "user"
          /\ \A b \in OldAccounts \ {a} :
               LET other == AccountsAre[b]
               IN row.holder = other.holder /\ {row.status, other.status} = {"active"} =>
                    row.user # other.user /\ row.login # other.login
  /\ \A m \in Mixes, r \in Requests :
       /\ m[r].do \in AccountOps => m[r].kind \in Holders
       /\ m[r].do \in {"update", "delete"} => m[r].kind \in Holders \cup {"user"}
       /\ m[r].do = "update" => m[r].status \in {"active", "locked"}

Init ==
  /\ IdsInit
  /\ holder = [r \in Requests |-> NoOne]
  /\ owner = [r \in Requests |-> NoOne]
  /\ account = [a \in AccountRows |->
                  IF a \in OldAccounts THEN AccountsAre[a] ELSE NoAccount]

TypeOK ==
  /\ \A r \in Requests :
       /\ before[r] \subseteq Answered \ {r}
       /\ (pc[r] = "done") = (result[r] # "none")
       /\ result[r] \in {"none", "ok", "error"}
       /\ (key[r] = 0) = (status[r] = "none")
  /\ \A o \in Objects :
       status[o] \in Statuses /\ content[o] \in Objects \cup {NoOne}
  /\ \A a \in AccountRows : account[a] = NoAccount \/
       /\ account[a].holder \in Objects /\ KindOf(account[a].holder) \in Holders
       /\ account[a].user \in Objects /\ KindOf(account[a].user) = "user"
  /\ faults \in 0 .. MaxFaults

-----------------------------------------------------------------------------
(* update and delete of UserServer, MachineServer and AuthSystemServer *)

\* status != DELETED in SQL
NotDeleted(objs) == {o \in objs : status[o] \notin {"null", "deleted"}}

NewStatus(r) == IF op[r].do = "delete" THEN "deleted" ELSE op[r].status

\* The object must exist.
LookUpObject(r) ==
  /\ pc[r] = "idle"
  /\ op[r].do \in {"update", "delete"}
  /\ Begin(r)
  /\ IF NotDeleted(Rows(op[r].kind, op[r].id)) = {} THEN Answer(r, "error")
     ELSE Continue(r, IF op[r].kind = "authsystem" /\ NewStatus(r) = "locked"
                        THEN "locked?" ELSE "write")
  /\ UNCHANGED <<op, rowVars, faults, accVars>>

\* An authentication system must not be locked twice.
CheckNotLocked(r) ==
  /\ pc[r] = "locked?"
  /\ \E o \in Rows(op[r].kind, op[r].id) :
       IF status[o] = "locked" THEN Answer(r, "error") ELSE Continue(r, "write")
  /\ UNCHANGED <<op, before, rowVars, faults, accVars>>

\* Mutant of WriteStatus: the UPDATE of users does not look at the status either.
WriteStatusUnguarded(r) ==
  LET same == Rows(op[r].kind, op[r].id)
  IN /\ pc[r] = "write"
     /\ status' = [o \in Objects |-> IF o \in same THEN NewStatus(r) ELSE status[o]]
     /\ IF op[r].do = "delete" THEN Continue(r, "accounts") ELSE Answer(r, "ok")
     /\ UNCHANGED <<op, before, counter, key, gen, id, content, faults, accVars>>

\* Only the UPDATE of users looks at the status again.
WriteStatus(r) ==
  LET same == Rows(op[r].kind, op[r].id)
      hit == IF op[r].kind = "user" THEN NotDeleted(same) ELSE same
  IN /\ pc[r] = "write"
     /\ status' = [o \in Objects |-> IF o \in hit THEN NewStatus(r) ELSE status[o]]
     /\ IF op[r].do = "delete" THEN Continue(r, "accounts") ELSE Answer(r, "ok")
     /\ UNCHANGED <<op, before, counter, key, gen, id, content, faults, accVars>>

\* Mutant of AccountsToDelete: the join wants objects in use.
AccountsOfActive(r) ==
  LET same == {o \in Rows(op[r].kind, op[r].id) : status[o] = "active"}
  IN {a \in AccountRows :
        \/ account[a].holder \in same
        \/ account[a].user \in same /\ KindOf(account[a].holder) = "machine"}

\* VR_UPDATE_ACCOUNT_WITH_...: the accounts on a machine or an authentication
\* system, or the accounts on machines of a user.
AccountsToDelete(r) ==
  LET same == Rows(op[r].kind, op[r].id)
  IN {a \in AccountRows :
        \/ account[a].holder \in same
        \/ account[a].user \in same /\ KindOf(account[a].holder) = "machine"}

DeleteAccounts(r) ==
  /\ pc[r] = "accounts"
  /\ LET gone == AccountsToDelete(r)
     IN account' = [a \in AccountRows |->
                      IF a \in gone THEN [account[a] EXCEPT !.status = "deleted"]
                                    ELSE account[a]]
  /\ Answer(r, "ok")
  /\ UNCHANGED <<op, before, rowVars, faults, holder, owner>>

-----------------------------------------------------------------------------
(* add, update and delete of LocalAccountServer and AuthAccountServer *)

\* The machine or authentication system must be active.
FindHolder(r) ==
  /\ pc[r] = "idle"
  /\ op[r].do \in AccountOps
  /\ Begin(r)
  /\ IF \E o \in Rows(op[r].kind, op[r].id) : status[o] = "active"
       THEN Continue(r, "numbers") ELSE Answer(r, "error")
  /\ UNCHANGED <<op, rowVars, faults, accVars>>

\* The keys of the first row with each identifier, whatever its status; only
\* LocalAccountServer::add wants a user that has not been deleted.
FindNumbers(r) ==
  LET users == Rows("user", op[r].user)
      found == IF op[r].do = "addAccount" /\ op[r].kind = "machine"
                 THEN NotDeleted(users) ELSE users
  IN /\ pc[r] = "numbers"
     /\ IF found = {} THEN Answer(r, "error") /\ UNCHANGED <<holder, owner>>
        ELSE /\ \E h \in Rows(op[r].kind, op[r].id), u \in found :
                  /\ holder' = [holder EXCEPT ![r] = h]
                  /\ owner' = [owner EXCEPT ![r] = u]
             /\ Continue(r, "exist")
     /\ UNCHANGED <<op, before, rowVars, faults, account>>

\* Mutant of CheckAccount: nobody looks at the logins.
CheckAccountOnly(r) ==
  LET exists == \E a \in AccountsOf(holder[r], owner[r]) : Live(a)
  IN /\ pc[r] = "exist"
     /\ IF exists = (op[r].do = "addAccount") THEN Answer(r, "error")
        ELSE Continue(r, "account")
     /\ UNCHANGED <<op, before, rowVars, faults, accVars>>

\* An account of this user there is wanted, or not.
CheckAccount(r) ==
  LET exists == \E a \in AccountsOf(holder[r], owner[r]) : Live(a)
  IN /\ pc[r] = "exist"
     /\ IF exists = (op[r].do = "addAccount") THEN Answer(r, "error")
        ELSE Continue(r, IF \/ op[r].do = "addAccount"
                            \/ op[r].do = "updateAccount" /\ op[r].kind = "authsystem"
                           THEN "login" ELSE "account")
     /\ UNCHANGED <<op, before, rowVars, faults, accVars>>

\* isLoginUsed, which LocalAccountServer::update does not call.
CheckLogin(r) ==
  /\ pc[r] = "login"
  /\ IF \E a \in AccountRows :
          account[a].holder = holder[r] /\ account[a].login = op[r].login /\ Live(a)
       THEN Answer(r, "error") ELSE Continue(r, "account")
  /\ UNCHANGED <<op, before, rowVars, faults, accVars>>

\* The INSERT, or the UPDATE of every row of the user there, deleted ones too.
WriteAccount(r) ==
  LET mine == AccountsOf(holder[r], owner[r])
  IN /\ pc[r] = "account"
     /\ account' = CASE op[r].do = "addAccount" ->
                          [account EXCEPT ![r] = [holder |-> holder[r], user |-> owner[r],
                                                  login |-> op[r].login, status |-> "active"]]
                     [] op[r].do = "updateAccount" ->
                          [a \in AccountRows |->
                             IF a \in mine THEN [account[a] EXCEPT !.login = op[r].login]
                                           ELSE account[a]]
                     [] op[r].do = "deleteAccount" ->
                          [a \in AccountRows |->
                             IF a \in mine THEN [account[a] EXCEPT !.status = "deleted"]
                                           ELSE account[a]]
     /\ Answer(r, "ok")
     /\ UNCHANGED <<op, before, rowVars, faults, holder, owner>>

-----------------------------------------------------------------------------

Step(r) ==
  \/ (CreationStep(r) \/ StatementFails(r)) /\ UNCHANGED accVars
  \/ LookUpObject(r) \/ CheckNotLocked(r) \/ WriteStatus(r) \/ DeleteAccounts(r)
  \/ FindHolder(r) \/ FindNumbers(r) \/ CheckAccount(r) \/ CheckLogin(r) \/ WriteAccount(r)

Next == \E r \in Requests : Step(r)

Spec == Init /\ [][Next]_vars

\* The servers carry out the requests they have received.
FairSpec == Spec /\ \A r \in Requests : WF_vars(Step(r))

-----------------------------------------------------------------------------
(* Properties *)

\* Every request is answered; the loop that looks for a free identifier ends.
EveryRequestEnds == <>(\A r \in Requests : pc[r] = "done")

\* An update has been asked for that activates the object of r.
Activated(r) ==
  \E q \in Requests :
    /\ op[q].do = "update" /\ op[q].status = "active"
    /\ op[q].kind = op[r].kind /\ op[q].id = id[r]

\* A creation that was told an error has left no object that can be used,
\* unless it had filled the row already, or another creation of the same name
\* that went on at the same time has filled it, or an update has activated the
\* machine or authentication system.  A user that was never filled, and has no
\* password, can never be activated.
FailedIsUnusable ==
  \A r \in Requests :
    op[r].do = "create" /\ op[r].kind # "work" /\ result[r] = "error" /\ status[r] = "active" =>
      \/ /\ content[r] \in Requests
         /\ Overlap(content[r], r) /\ id[content[r]] = id[r]
      \/ op[r].kind # "user" /\ Activated(r)

Inserted(a) == a \in Requests /\ account[a] # NoAccount

\* A user has one account on a machine or authentication system, and a login
\* there is one user's: unless both accounts were added at the same time, or
\* one of the logins was set by an update of a local account or by one that
\* overlapped.
AccountsAreOnce ==
  \A a, b \in AccountRows :
    (a # b /\ Live(a) /\ Live(b) /\ account[a].holder = account[b].holder) =>
      LET together == Inserted(a) /\ Inserted(b) /\ Overlap(a, b)
      IN /\ account[a].user = account[b].user => together
         /\ account[a].login = account[b].login =>
              \/ together
              \/ \E q \in Requests :
                   /\ op[q].do = "updateAccount" /\ op[q].login = account[a].login
                   /\ holder[q] = account[a].holder
                   /\ owner[q] \in {account[a].user, account[b].user}
                   /\ \/ op[q].kind = "machine"
                      \/ \E c \in {a, b} : Inserted(c) /\ Overlap(q, c)
                      \/ \E p \in Requests \ {q} :
                           op[p].do = "updateAccount" /\ op[p].login = op[q].login /\ Overlap(p, q)

\* Request q has to do with the object o.
Names(q, o) ==
  op[q].kind = KindOf(o) /\ id[o] = IF op[q].do = "create" THEN id[q] ELSE op[q].id

AccountOf(a, o) ==
  \/ account[a].holder = o
  \/ account[a].user = o /\ KindOf(account[a].holder) = "machine"

\* Once a deletion has been told "done", the object is deleted and has no
\* account left but those that were being added at the same time; unless a
\* creation of the name, or an update of the machine or authentication system
\* (whose UPDATE does not look at the status), went on at the same time.  And an
\* account outlives its machine or its user only in these cases, or when the
\* deletion has not reached its second statement, or was told an error.
DeletionIsComplete ==
  /\ \A r \in Requests : op[r].do = "delete" /\ result[r] = "ok" =>
       \A o \in Rows(op[r].kind, op[r].id) :
         \/ /\ status[o] \in {"deleted", "null"}
            /\ \A a \in AccountRows :
                 Live(a) /\ AccountOf(a, o) => Inserted(a) /\ Overlap(a, r)
         \/ \E q \in Requests :
              /\ Names(q, o) /\ Overlap(q, r)
              /\ \/ op[q].do = "create"
                 \/ op[q].do = "update" /\ op[q].kind # "user"
  /\ \A o \in Objects, a \in AccountRows :
       status[o] = "deleted" /\ Live(a) /\ AccountOf(a, o) =>
         \E q \in Requests :
           /\ op[q].do = "delete" /\ Names(q, o)
           /\ \/ pc[q] = "accounts" \/ result[q] = "error"
              \/ Inserted(a) /\ Overlap(a, q)
=============================================================================
