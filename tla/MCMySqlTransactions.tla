------------------------ MODULE MCMySqlTransactions ------------------------
(* MySqlTransactions for TLC. *)
EXTENDS MySqlTransactions

CONSTANTS t1, t2, t3

\* Three threads that all create an object; one of them also updates a row,
\* before or after it.
ThreeThreads == {t1, t2, t3}
MixedTodo == [t \in ThreeThreads |-> IF t = t1 THEN Calls ELSE {"newId"}]
=============================================================================
