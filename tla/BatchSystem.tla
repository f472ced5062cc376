------------------------------ MODULE BatchSystem ------------------------------
(***************************************************************************)
(* What VISHNU expects of a batch scheduler, and what is left of it when   *)
(* its answers have gone through requests, tables and the monitor: a job   *)
(* lives once, and VISHNU takes it for over only when it has ended or was  *)
(* told to end.  Jobs assumes such a scheduler and passes on what it       *)
(* learns; PosixDaemon is one.                                             *)
(***************************************************************************)
CONSTANT Jobs

VARIABLES batch,   \* the life of each job
          over,    \* the jobs that VISHNU takes for over
          sound    \* FALSE when what VISHNU learns is not promised any more

batchVars == <<batch, over, sound>>

Lives == {"none", "alive", "ended", "killed"}

\* A job that was told to end may take its time.
Later(life) ==
  CASE life = "none"   -> Lives
    [] life = "alive"  -> {"alive", "ended", "killed"}
    [] life = "killed" -> {"killed", "ended"}
    [] life = "ended"  -> {"ended"}

Init ==
  /\ batch = [j \in Jobs |-> "none"]
  /\ over = {}
  /\ sound = TRUE

\* Jobs start, end and are killed, alone or several at once.
Live == batch' \in [Jobs -> Lives] /\ \A j \in Jobs : batch'[j] \in Later(batch[j])

\* VISHNU learns of some of those that are over; late news may make it forget.
Learn == sound' => sound /\ \A j \in over' \ over : batch'[j] \in {"ended", "killed"}

Next == Live /\ Learn

Spec == Init /\ [][Next]_batchVars
=============================================================================
