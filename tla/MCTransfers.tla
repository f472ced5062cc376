------------------------------ MODULE MCTransfers ------------------------------
(* Transfers for TLC. *)
EXTENDS Transfers

CONSTANTS t1, t2, s1

\* cp, mv and amv by the server, and a copy by the client.
SomeKinds ==
  {[op |-> op, by |-> "server", sync |-> TRUE] : op \in {"copy", "move"}}
    \cup {[op |-> "move", by |-> "server", sync |-> FALSE],
          [op |-> "copy", by |-> "client", sync |-> FALSE]}
=============================================================================
