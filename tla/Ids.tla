------------------------------- MODULE Ids -------------------------------
(***************************************************************************)
(* Creating a named object: vishnu::getObjectId and the four "add" that    *)
(* call it (users, machines, authentication systems and works; a job or a  *)
(* transfer only takes an identifier).                                     *)
(*                                                                         *)
(* An object is a row of the table of its kind.  getVishnuCounter inserts  *)
(* a placeholder, reserveObjectId looks for a free identifier and writes   *)
(* it into the row, and add counts the rows that have the identifier       *)
(* before it fills them.  Every step is one SQL statement, in autocommit:  *)
(* no lock and no UNIQUE key keeps two requests apart, the mutex of        *)
(* getObjectId being a local variable.                                     *)
(***************************************************************************)
EXTENDS Naturals, Sequences, FiniteSets

CONSTANTS Requests,   \* the requests the servers carry out
          Existing,   \* the objects that are there from the beginning
          Described,  \* [Existing -> [kind, id, key]]
          Mixes,      \* what the requests may be: a set of [Requests -> Ops]
          MaxFaults,  \* bound: statements that fail
          NoOne       \* nobody has filled the row

\* An identifier is a name and the counters that follow it.
Id(name, counters) == [name |-> name, counters |-> counters]
Empty == Id("", <<>>)
Null == Id("NULL", <<>>)                  \* equal to nothing in SQL
Named == {"user", "machine"}              \* format $NAME
Counted == {"authsystem", "work", "job"}  \* formats with $CPT
Kinds == Named \cup Counted
Statuses == {"none", "null", "undefined", "locked", "active", "deleted"}

Objects == Requests \cup Existing

\* Objects are named with something; Null is how the models write no value.
ASSUME IdsAssumption ==
  /\ IsFiniteSet(Requests) /\ IsFiniteSet(Existing) /\ Requests \cap Existing = {}
  /\ \A e \in Existing : Described[e].key \in Nat \ {0}
  /\ \A m \in Mixes, r \in Requests : m[r].do = "create" =>
       m[r].kind \in Kinds /\ m[r].id.counters \in Seq(Nat) /\ m[r].id.name # Null.name

VARIABLES op,       \* what each request is about
          pc,       \* the statement it executes next
          before,   \* the requests that had been answered when it began
          result,   \* "none", then what the caller is told: "ok" or "error"
          counter,  \* the auto-increment counters of the tables
          key,      \* the primary key of each row; 0 when there is none
          gen,      \* idGenerated
          id,       \* the identifier in the row
          status,   \* the status in the row
          content,  \* who filled the other columns
          faults    \* statements that have failed

requestVars == <<op, pc, before, result>>
rowVars == <<counter, key, gen, id, status, content>>
idVars == <<requestVars, rowVars, faults>>

KindOf(o) == IF o \in Existing THEN Described[o].kind ELSE op[o].kind

\* SELECT ... FROM the table of kind k WHERE the identifier is i
Rows(k, i) ==
  {o \in Objects : key[o] # 0 /\ KindOf(o) = k /\ id[o] = i /\ i # Null}

IdsInit ==
  /\ op \in Mixes
  /\ pc = [r \in Requests |-> "idle"]
  /\ before = [r \in Requests |-> {}]
  /\ result = [r \in Requests |-> "none"]
  /\ counter = [k \in Kinds |-> Cardinality({e \in Existing : Described[e].kind = k})]
  /\ key = [o \in Objects |-> IF o \in Existing THEN Described[o].key ELSE 0]
  /\ gen = [r \in Requests |-> Null]
  /\ id = [o \in Objects |-> IF o \in Existing THEN Described[o].id ELSE Null]
  /\ status = [o \in Objects |-> IF o \in Existing THEN "active" ELSE "none"]
  /\ content = [o \in Objects |-> IF o \in Existing THEN o ELSE NoOne]
  /\ faults = 0

-----------------------------------------------------------------------------
(* Requests *)

Answered == {r \in Requests : pc[r] = "done"}
GoTo(r, next) == pc' = [pc EXCEPT ![r] = next]
Begin(r) == before' = [before EXCEPT ![r] = Answered]
Answer(r, res) == GoTo(r, "done") /\ result' = [result EXCEPT ![r] = res]
Continue(r, next) == GoTo(r, next) /\ UNCHANGED result

\* A statement that throws ends the request and undoes nothing; so does a mail
\* that cannot be sent.  (getVishnuCounter is a transaction: see AllOrNothing
\* of MySqlTransactions and PgTransactions.)
StatementFails(r) ==
  /\ pc[r] # "done"
  /\ faults < MaxFaults
  /\ faults' = faults + 1
  /\ IF pc[r] = "idle" THEN Begin(r) ELSE UNCHANGED before
  /\ Answer(r, "error")
  /\ UNCHANGED <<op, rowVars>>

-----------------------------------------------------------------------------
(* getObjectId *)

\* What the INSERT of getVishnuCounter puts into the row.
PlaceholderId(k) ==
  CASE k = "user" -> Empty
    [] k = "work" -> Id("t", <<>>)
    [] k \in {"machine", "authsystem", "job"} -> Null

PlaceholderStatus(k) ==
  CASE k = "machine" -> "locked"
    [] k = "user" -> "null"
    [] k = "authsystem" -> "undefined"
    [] k = "work" -> "active"
    [] k = "job" -> "null"

\* getGeneratedName with the format of the kind.
GeneratedName(r, n) == IF op[r].kind \in Named THEN op[r].id ELSE Id("", <<n>>)

GetVishnuCounter(r) ==
  LET k == op[r].kind
      n == counter[k] + 1
  IN /\ pc[r] = "idle"
     /\ op[r].do = "create"
     /\ Begin(r)
     /\ counter' = [counter EXCEPT ![k] = n]
     /\ key' = [key EXCEPT ![r] = n]
     /\ id' = [id EXCEPT ![r] = PlaceholderId(k)]
     /\ status' = [status EXCEPT ![r] = PlaceholderStatus(k)]
     /\ gen' = [gen EXCEPT ![r] = GeneratedName(r, n)]
     /\ Continue(r, "check")
     /\ UNCHANGED <<op, content, faults>>

\* Mutant of CheckObjectId: nothing is appended.
CheckObjectIdForEver(r) ==
  /\ pc[r] = "check"
  /\ Rows(op[r].kind, gen[r]) = {}
  /\ Continue(r, "reserve")
  /\ UNCHANGED <<op, before, rowVars, faults>>

\* The loop of reserveObjectId: the key is appended until the identifier is
\* free.  An empty name finds the placeholder of its own row.
CheckObjectId(r) ==
  /\ pc[r] = "check"
  /\ IF Rows(op[r].kind, gen[r]) = {}
       THEN Continue(r, "reserve") /\ UNCHANGED gen
       ELSE /\ gen' = [gen EXCEPT ![r] = Id(@.name, Append(@.counters, key[r]))]
            /\ UNCHANGED <<pc, result>>
  /\ UNCHANGED <<op, before, counter, key, id, status, content, faults>>

\* An empty identifier is an error, told after the row has been written.
ReserveObjectId(r) ==
  /\ pc[r] = "reserve"
  /\ id' = [id EXCEPT ![r] = gen[r]]
  /\ IF GeneratedName(r, key[r]) = Empty THEN Answer(r, "error")
     ELSE IF op[r].kind = "job" THEN Answer(r, "ok")
     ELSE Continue(r, "count")
  /\ UNCHANGED <<op, before, counter, key, gen, status, content, faults>>

-----------------------------------------------------------------------------
(* UserServer::add, MachineServer::add, AuthSystemServer::add, WorkServer::add *)

\* Mutant of OnlyOne: that the row has been reserved is enough.
AtLeastOne(r) ==
  LET same == Rows(op[r].kind, gen[r])
  IN IF op[r].kind = "user" THEN {o \in same : status[o] \notin {"null", "deleted"}} = {}
     ELSE same # {}

\* The row reserved is the only one that has the identifier.  The users are
\* counted whose status differs from DELETED, which NULL does not.
OnlyOne(r) ==
  LET same == Rows(op[r].kind, gen[r])
  IN CASE op[r].kind = "user" -> {o \in same : status[o] \notin {"null", "deleted"}} = {}
       [] op[r].kind = "authsystem" -> Cardinality({o \in same : status[o] = "undefined"}) = 1
       [] op[r].kind \in {"machine", "work"} -> Cardinality(same) = 1

CountRows(r) ==
  /\ pc[r] = "count"
  /\ IF OnlyOne(r) THEN Continue(r, "fill") ELSE Answer(r, "error")
  /\ UNCHANGED <<op, before, rowVars, faults>>

\* The UPDATE names the identifier, not the key.
FillRows(r) ==
  LET k == op[r].kind
      same == Rows(k, gen[r])
  IN /\ pc[r] = "fill"
     /\ status' = [o \in Objects |-> IF o \notin same THEN status[o]
                                     ELSE IF k = "work" THEN "locked" ELSE "active"]
     /\ content' = [o \in Objects |-> IF o \in same THEN r ELSE content[o]]
     /\ IF k = "work" THEN Answer(r, "ok") ELSE Continue(r, "finish")
     /\ UNCHANGED <<op, before, counter, key, gen, id, faults>>

\* The row of table description or ldapauthsystem, or the mail to the user.
Finish(r) ==
  /\ pc[r] = "finish"
  /\ Answer(r, "ok")
  /\ UNCHANGED <<op, before, rowVars, faults>>

CreationStep(r) ==
  \/ GetVishnuCounter(r)
  \/ CheckObjectId(r) \/ ReserveObjectId(r)
  \/ CountRows(r) \/ FillRows(r) \/ Finish(r)

-----------------------------------------------------------------------------
(* Properties *)

Created(r) == op[r].do = "create" /\ result[r] = "ok"

\* Neither was answered before the other began.
Overlap(r, q) == r \notin before[q] /\ q \notin before[r]

\* Two creations that were told "done" gave their objects different
\* identifiers, and none that was there before; each object is what its
\* request described.  For users, whose row is not counted while its status is
\* NULL, this holds only when the creations did not overlap.
UniqueIds ==
  \A r \in Requests : Created(r) =>
    /\ \A e \in Existing : KindOf(e) = op[r].kind => id[r] # id[e]
    /\ \A q \in Requests \ {r} :
         Created(q) /\ op[q].kind = op[r].kind /\ id[q] = id[r] =>
           op[r].kind = "user" /\ Overlap(r, q)
    /\ op[r].kind # "job" =>
         \/ content[r] = r
         \/ /\ op[r].kind = "user"
            /\ content[r] \in Requests
            /\ Overlap(r, content[r]) /\ id[content[r]] = id[r]
=============================================================================
