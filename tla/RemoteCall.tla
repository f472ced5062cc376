------------------------------- MODULE RemoteCall -------------------------------
(***************************************************************************)
(* What diet_call promises to the clients and servers of VISHNU: the       *)
(* caller hears once, of a success only when there was one; the call may   *)
(* be executed several times, after its caller has heard too, but not      *)
(* without bound.  How requests travel is left to the implementation       *)
(* (module Dispatch).                                                      *)
(***************************************************************************)
EXTENDS Naturals

CONSTANTS Calls,
          Most      \* times a call may be executed

VARIABLES heard,    \* what the caller of a call knows of it
          ran       \* times a call was executed, and whether one had success

Init ==
  /\ heard = [c \in Calls |-> "idle"]
  /\ ran = [c \in Calls |-> [times |-> 0, success |-> FALSE]]

Begin(c) ==
  /\ heard[c] = "idle"
  /\ heard' = [heard EXCEPT ![c] = "wait"]
  /\ UNCHANGED ran

Execute(c) ==
  /\ heard[c] # "idle" /\ ran[c].times < Most
  /\ UNCHANGED heard
  /\ \E success \in {ran[c].success, TRUE} :
       ran' = [ran EXCEPT ![c].times = @ + 1, ![c].success = success]

Hear(c) ==
  /\ heard[c] = "wait"
  /\ UNCHANGED ran
  /\ \E answer \in {"success", "error", "failed"} :
       /\ answer = "success" => ran[c].success
       /\ heard' = [heard EXCEPT ![c] = answer]

Next == \E c \in Calls : Begin(c) \/ Execute(c) \/ Hear(c)

Spec == Init /\ [][Next]_<<heard, ran>>
=============================================================================
