-------------------------- MODULE MCPgTransactions --------------------------
(* PgTransactions for TLC. *)
EXTENDS PgTransactions

CONSTANTS t1, t2

\* A thread that creates an object beside one that updates a row.
TwoThreads == {t1, t2}
MixedTodo == [t \in TwoThreads |-> IF t = t1 THEN {"newId"} ELSE {"process"}]
BothTodo == [t \in TwoThreads |-> Calls]
=============================================================================
