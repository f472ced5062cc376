----------------------------- MODULE MCPosixDaemon -----------------------------
(* PosixDaemon for TLC. *)
EXTENDS PosixDaemon

CONSTANTS j1, j2, u1
=============================================================================
