----------------------------- MODULE MCSessions -----------------------------
(* Sessions for TLC. *)
EXTENDS Sessions

CONSTANTS r1, r2, s1, s2, root, user

\* What the runs call: everything, and the smallest sets
\* that show a finding.
AllOps == PasswordOps \cup KeyOps
CloseOps == {"command", "close"}
LockOps == {"connect", "lock"}

\* Requests are names without a meaning: whatever two of them do, they may as
\* well be named in the order of their services.
Rank == [none |-> 0, connect |-> 1, substitute |-> 2, change |-> 3, command |-> 4, close |-> 5,
         lock |-> 6, unlock |-> 7, delete |-> 8, reset |-> 9]
NamedInOrder ==
  (proc'[r1].pc # "idle" /\ proc'[r2].pc # "idle") => Rank[proc'[r1].op] <= Rank[proc'[r2].op]
=============================================================================
