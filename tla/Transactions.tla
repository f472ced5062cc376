---------------------------- MODULE Transactions ----------------------------
(***************************************************************************)
(* The calls that the threads of a server make on its database: a plain    *)
(* statement (process, getResult), and vishnu::getVishnuCounter, the only  *)
(* one in a transaction.  What the two have in common with PostgreSQL and  *)
(* with MySQL is here; PgTransactions and MySqlTransactions say what each  *)
(* database makes of it.                                                   *)
(***************************************************************************)
EXTENDS ConnPool

CONSTANTS Todo,       \* [Threads -> SUBSET Calls]: the calls each thread makes
          MaxErrors   \* bound: operations of the server that fail in a behaviour

Calls == {"process", "newId"}      \* a plain UPDATE; getVishnuCounter
NoTid == -1

ASSUME TodoAssumption == Todo \in [Threads -> SUBSET Calls]
ASSUME MaxErrorsAssumption == MaxErrors \in Nat

VARIABLES todo,       \* the calls each thread has still to make
          call,       \* the call it is in
          stmt,       \* the statement (or pool operation) the call is at
          tid,        \* the transaction id startTransaction returned
          pending,    \* writes of the open transaction of each session
          committed,  \* writes everybody can read
          returned,   \* calls that returned without an exception
          errors      \* how many operations of the server have failed

Writes == Threads \X Calls

CallsInit ==
  /\ Init
  /\ todo = Todo
  /\ call = [t \in Threads |-> "none"]
  /\ stmt = [t \in Threads |-> "none"]
  /\ tid = [t \in Threads |-> NoTid]
  /\ pending = [s \in Slots |-> {}]
  /\ committed = {}
  /\ returned = {}
  /\ errors = 0

GoTo(t, next) == stmt' = [stmt EXCEPT ![t] = next]

\* A thread begins a call, which first asks for a connection.
BeginCall(t, c, transaction) ==
  /\ call[t] = "none"
  /\ c \in todo[t]
  /\ Start(t)
  /\ todo' = [todo EXCEPT ![t] = @ \ {c}]
  /\ call' = [call EXCEPT ![t] = c]
  /\ GoTo(t, IF c = "process" THEN "update" ELSE transaction)
  /\ UNCHANGED <<tid, pending, committed, returned, errors>>
=============================================================================
