------------------------------- MODULE MCDispatch -------------------------------
(* Dispatch for TLC. *)
EXTENDS Dispatch

CONSTANTS s1, s2

\* The client's configuration names a server, the dispatcher's none.
OneServer == <<s1>>
NoServer == <<>>
=============================================================================
