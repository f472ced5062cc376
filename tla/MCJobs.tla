--------------------------------- MODULE MCJobs ---------------------------------
(* Jobs for TLC. *)
EXTENDS Jobs

CONSTANTS j1, j2, c1, o1, root, user, sroot, suser

\* A session of a user and one of an administrator.
TwoUsers == [s \in {sroot, suser} |-> IF s = sroot THEN root ELSE user]
=============================================================================
