---------------------------------- MODULE Jobs ----------------------------------
(***************************************************************************)
(* Jobs of one machine: JobServer::submitJob and cancelJob,                *)
(* JobOutputServer::getCompletedJobsOutput and MonitorXMS::checkJobs, over *)
(* the table job and the batch scheduler.                                  *)
(*                                                                         *)
(* The SeD, the children it forks for submit and cancel, and the monitor   *)
(* share nothing but the table.  A step is one SQL statement or one call   *)
(* of the scheduler with the code up to the next one; reads of columns     *)
(* that do not change once the row is saved are one step with the SELECT   *)
(* that follows.  A job's name stands for the request that submits it too. *)
(* Sessions are valid (Sessions.tla is about them) and a user has one      *)
(* account on the machine.  LoadLeveler's multi-step jobs, the columns     *)
(* OpenNebula adds and the second checkJobs (for POSIX jobs, after the     *)
(* machine's own batch type) are left out.                                 *)
(***************************************************************************)
EXTENDS Integers

CONSTANTS Jobs,       \* jobs, each submitted at most once
          Cancels,    \* requests to cancel
          Outputs,    \* requests for the output of completed jobs
          Monitor,    \* the monitor process
          Users, Admins,
          Sessions, User,  \* sessions, and the user of each
          None,       \* no job, session, user or job id
          All,        \* the keyword "all"
          Faults,     \* what may go wrong
          MaxFaults   \* bound: things that go wrong in a behaviour

ASSUME AdminsAssumption == Admins \subseteq Users
ASSUME UserAssumption == User \in [Sessions -> Users]
ASSUME KeywordsAssumption == {None, All} \cap (Jobs \cup Users \cup Sessions) = {} /\ None # All
ASSUME NamesAssumption ==
  /\ Monitor \notin Jobs \cup Cancels \cup Outputs
  /\ Jobs \cap Cancels = {} /\ Jobs \cap Outputs = {} /\ Cancels \cap Outputs = {}
ASSUME FaultsAssumption ==
  Faults \subseteq {"database", "refused", "fork", "ignored", "unreachable", "crash"}
ASSUME MaxFaultsAssumption == MaxFaults \in Nat

\* job_status_t; -1 is what getJobState returns when the scheduler is away.
UNREACHABLE == -1
UNDEFINED == 0
QUEUED == 2
WAITING == 3
RUNNING == 4
COMPLETED == 5
CANCELLED == 6
DOWNLOADED == 7
FAILED == 8

Procs == Jobs \cup Cancels \cup Outputs \cup {Monitor}
PC == {"idle", "submit", "record", "fail", "select", "next", "update", "done"}

VARIABLES job,     \* the rows of table job
          batch,   \* the jobs in the scheduler
          proc,    \* the requests and the monitor
          faults

vars == <<job, batch, proc, faults>>

\* A row that is not saved has no status, and no condition selects it.
Row == [saved : BOOLEAN, status : UNREACHABLE .. FAILED, session : Sessions \cup {None}]
Process == [pc : PC, session : Sessions \cup {None},
            todo : SUBSET Jobs,             \* rows of the SELECT still to handle
            all : SUBSET Jobs,              \* all the rows of the SELECT
            seen : UNREACHABLE .. FAILED,   \* state the scheduler answered
            cur : Jobs \cup {None},          \* row being handled
            result : {"none", "success", "error"}]

\* The table job, the scheduler, the requests and the monitor.
TypeOK ==
  /\ job \in [Jobs -> Row]
  /\ batch \in [Jobs -> {"none", "alive", "ended", "killed"}]
  /\ proc \in [Procs -> Process]
  /\ faults \in 0 .. MaxFaults

Init ==
  /\ job = [j \in Jobs |-> [saved |-> FALSE, status |-> UNDEFINED, session |-> None]]
  /\ batch = [j \in Jobs |-> "none"]
  /\ proc = [p \in Procs |->
               [pc |-> IF p = Monitor THEN "select" ELSE "idle", session |-> None, todo |-> {},
                all |-> {}, seen |-> UNDEFINED, cur |-> None, result |-> "none"]]
  /\ faults = 0

-----------------------------------------------------------------------------
Goto(p, pc) == proc' = [proc EXCEPT ![p].pc = pc]
Reply(p, result) ==
  proc' = [proc EXCEPT ![p].pc = "done", ![p].result = result,
                       ![p].todo = {}, ![p].cur = None, ![p].seen = UNDEFINED]

Fault(kind) == kind \in Faults /\ faults < MaxFaults /\ faults' = faults + 1

\* Waiting or running in the scheduler.
Alive(j) == batch[j] = "alive"
Admin(p) == User[proc[p].session] \in Admins

\* The loop over the rows of a SELECT.
At(p, j) == proc[p].pc = "next" /\ j \in proc[p].todo
Handled(p, j) ==
  proc' = [proc EXCEPT ![p].pc = "next", ![p].todo = @ \ {j}, ![p].cur = None, ![p].seen = UNDEFINED]

-----------------------------------------------------------------------------
(* submitJob *)

\* getObjectId; then an empty script is refused before the try block.
Reserve(j) ==
  /\ proc[j].pc = "idle"
  /\ \E s \in Sessions, empty \in BOOLEAN :
       proc' = [proc EXCEPT ![j].pc = IF empty THEN "done" ELSE "submit",
                            ![j].result = IF empty THEN "error" ELSE "none",
                            ![j].session = s]
  /\ UNCHANGED <<job, batch, faults>>

\* Mutant of Submit: the return code of the child is the answer.
SubmitAnswersCode(j) ==
  /\ proc[j].pc = "submit"
  /\ \/ /\ proc' = [proc EXCEPT ![j].pc = "record", ![j].seen = QUEUED]
        /\ batch' = [batch EXCEPT ![j] = "alive"]
        /\ UNCHANGED faults
     \/ Fault("refused") /\ Goto(j, "fail") /\ UNCHANGED batch
     \/ Fault("fork") /\ Reply(j, "-1") /\ UNCHANGED batch
  /\ UNCHANGED job

\* BatchServer::submit, with the status it reports: QUEUED stands for that of
\* any job that has not ended yet.  When PosixServer cannot fork it returns -1
\* and no job, which handleNativeBatchExec does not look at; other errors are
\* exceptions.
Submit(j) ==
  /\ proc[j].pc = "submit"
  /\ \/ /\ \E ended \in BOOLEAN :
             /\ batch' = [batch EXCEPT ![j] = IF ended THEN "ended" ELSE "alive"]
             /\ proc' = [proc EXCEPT ![j].pc = "record", ![j].seen = IF ended THEN COMPLETED ELSE QUEUED]
        /\ UNCHANGED faults
     \/ Fault("refused") /\ Goto(j, "fail") /\ UNCHANGED batch
     \/ Fault("fork") /\ Reply(j, "success") /\ UNCHANGED batch
  /\ UNCHANGED job

Save(j, status) ==
  job' = [job EXCEPT ![j] = [saved |-> TRUE, status |-> status, session |-> proc[j].session]]

\* updateAndSaveJobSteps
Record(j) ==
  /\ proc[j].pc = "record"
  /\ \/ Save(j, proc[j].seen) /\ Reply(j, "success") /\ UNCHANGED faults
     \/ Fault("database") /\ Goto(j, "fail") /\ UNCHANGED job
  /\ UNCHANGED batch

\* The handler of the exception saves the row with status FAILED.
RecordFailure(j) ==
  /\ proc[j].pc = "fail"
  /\ Reply(j, "error")
  /\ \/ Save(j, FAILED) /\ UNCHANGED faults
     \/ Fault("database") /\ UNCHANGED job
  /\ UNCHANGED batch

\* The SeD and the child it has forked end.
Crash(j) ==
  /\ proc[j].pc \in {"submit", "record", "fail"}
  /\ Fault("crash")
  /\ Goto(j, "done")
  /\ UNCHANGED <<job, batch>>

-----------------------------------------------------------------------------
(* cancelJob *)

\* Mutant of Permitted: whose job it is is not looked at.
PermittedAny(s, id, user) == User[s] \in Admins \/ user = None

\* Without the rights of an administrator no user may be named, and a job id
\* must be that of a job of the same session ("all" is the id of none).
Permitted(s, id, user) ==
  User[s] \in Admins \/ /\ user = None
                        /\ id = None \/ \E j \in Jobs : j = id /\ job[j].session = s

\* The rows of the SELECT for these options.
Cancellable(s, id, user) ==
  {j \in Jobs :
     /\ job[j].saved /\ job[j].status < COMPLETED
     /\ IF id \in Jobs /\ user # All THEN j = id
        ELSE user # All => User[job[j].session] = IF user = None THEN User[s] ELSE user}

CancelJob(c) ==
  /\ proc[c].pc = "idle"
  /\ \E s \in Sessions, id \in Jobs \cup {None, All}, user \in Users \cup {None, All} :
       LET rows == Cancellable(s, id, user) IN
       IF /\ Permitted(s, id, user)
          /\ id \in Jobs /\ user # All => rows # {}
       THEN proc' = [proc EXCEPT ![c].pc = "next", ![c].session = s, ![c].todo = rows, ![c].all = rows]
       ELSE Reply(c, "error")
  /\ UNCHANGED <<job, batch, faults>>

\* Mutant of CancelBatch: an exception of the scheduler ends the loop quietly.
CancelBatchQuiet(c) ==
  \E j \in Jobs :
    /\ At(c, j)
    /\ \/ /\ batch' = [batch EXCEPT ![j] = IF Alive(j) THEN "killed" ELSE @]
          /\ proc' = [proc EXCEPT ![c].pc = "update", ![c].cur = j]
          /\ UNCHANGED faults
       \/ ~Alive(j) /\ Reply(c, "success") /\ UNCHANGED <<batch, faults>>
    /\ UNCHANGED job

\* BatchServer::cancel.  A job that has ended is an error for some schedulers;
\* every exception ends the loop.  A status returned (PosixServer's, when the
\* daemon does not answer) is ignored.
CancelBatch(c) ==
  \E j \in Jobs :
    /\ At(c, j)
    /\ \/ /\ batch' = [batch EXCEPT ![j] = IF Alive(j) THEN "killed" ELSE @]
          /\ proc' = [proc EXCEPT ![c].pc = "update", ![c].cur = j]
          /\ UNCHANGED faults
       \/ ~Alive(j) /\ Reply(c, "error") /\ UNCHANGED <<batch, faults>>
       \/ Fault("refused") /\ Reply(c, "error") /\ UNCHANGED batch
       \/ /\ Fault("ignored")
          /\ proc' = [proc EXCEPT ![c].pc = "update", ![c].cur = j]
          /\ UNCHANGED batch
    /\ UNCHANGED job

\* updateJobRecordIntoDatabase: whatever the status is by now.
CancelUpdate(c) ==
  LET j == proc[c].cur IN
  /\ proc[c].pc = "update"
  /\ \/ /\ job' = [job EXCEPT ![j].status = CANCELLED]
        /\ Handled(c, j)
        /\ UNCHANGED faults
     \/ Fault("database") /\ Reply(c, "error") /\ UNCHANGED job
  /\ UNCHANGED batch

\* All rows are done.
Finish(p) ==
  /\ p # Monitor
  /\ proc[p].pc = "next" /\ proc[p].todo = {}
  /\ Reply(p, "success")
  /\ UNCHANGED <<job, batch, faults>>

-----------------------------------------------------------------------------
(* getCompletedJobsOutput, without the option to list jobs again *)

CompletedJobs(s) ==
  {j \in Jobs : job[j].saved /\ job[j].status = COMPLETED /\ User[job[j].session] = User[s]}

GetOutput(o) ==
  /\ proc[o].pc = "idle"
  /\ \E s \in Sessions :
       LET rows == CompletedJobs(s) IN
       proc' = [proc EXCEPT ![o].pc = "next", ![o].todo = rows]
  /\ UNCHANGED <<job, batch, faults>>

MarkDownloaded(o) ==
  \E j \in Jobs :
    /\ At(o, j)
    /\ \/ /\ job' = [job EXCEPT ![j].status = DOWNLOADED]
          /\ Handled(o, j)
          /\ UNCHANGED faults
       \/ Fault("database") /\ Reply(o, "error") /\ UNCHANGED job
    /\ UNCHANGED batch

-----------------------------------------------------------------------------
(* MonitorXMS::checkJobs, again and again *)

\* Mutants of Monitored: jobs that have ended too; only jobs that are running.
MonitoredAll == {j \in Jobs : job[j].saved /\ job[j].status >= UNDEFINED}
MonitoredRunning == {j \in Jobs : job[j].saved /\ job[j].status = RUNNING}

Monitored == {j \in Jobs : job[j].saved /\ job[j].status >= UNDEFINED /\ job[j].status < COMPLETED}

SelectJobs ==
  /\ proc[Monitor].pc = "select"
  /\ proc' = [proc EXCEPT ![Monitor].pc = "next", ![Monitor].todo = Monitored]
  /\ UNCHANGED <<job, batch, faults>>

\* getJobState, as the schedulers answer it: only Slurm tells a killed job from
\* one that ended.
States(j) ==
  CASE batch[j] = "alive" -> {WAITING, RUNNING}
    [] batch[j] = "ended" -> {COMPLETED}
    [] OTHER -> {COMPLETED, CANCELLED}

\* A scheduler that cannot be reached is -1 (Torque) or an exception (Slurm).
GetJobState ==
  \E j \in Jobs :
    /\ At(Monitor, j)
    /\ \/ /\ \E seen \in States(j) :
               proc' = [proc EXCEPT ![Monitor].pc = "update", ![Monitor].cur = j, ![Monitor].seen = seen]
          /\ UNCHANGED faults
       \/ /\ Fault("unreachable")
          /\ proc' = [proc EXCEPT ![Monitor].pc = "update", ![Monitor].cur = j,
                                  ![Monitor].seen = UNREACHABLE]
       \/ Fault("unreachable") /\ Handled(Monitor, j)
    /\ UNCHANGED <<job, batch>>

\* Mutant of UpdateStatus: the row after the one that was asked about is updated.
UpdateStatusOther ==
  /\ proc[Monitor].pc = "update"
  /\ \E j \in proc[Monitor].todo :
       /\ job' = [job EXCEPT ![j].status = proc[Monitor].seen]
       /\ Handled(Monitor, j)
       /\ UNCHANGED <<batch, faults>>

UpdateStatus ==
  LET j == proc[Monitor].cur IN
  /\ proc[Monitor].pc = "update"
  /\ \/ /\ job' = [job EXCEPT ![j].status = proc[Monitor].seen]
        /\ UNCHANGED faults
     \/ Fault("database") /\ UNCHANGED job
  /\ Handled(Monitor, j)
  /\ UNCHANGED batch

Sleep ==
  /\ proc[Monitor].pc = "next" /\ proc[Monitor].todo = {}
  /\ Goto(Monitor, "select")
  /\ UNCHANGED <<job, batch, faults>>

-----------------------------------------------------------------------------
(* The scheduler *)

End(j) ==
  /\ batch[j] = "alive"
  /\ batch' = [batch EXCEPT ![j] = "ended"]
  /\ UNCHANGED <<job, proc, faults>>

-----------------------------------------------------------------------------
MonitorStep == SelectJobs \/ GetJobState \/ UpdateStatus \/ Sleep

Next ==
  \/ \E j \in Jobs : Reserve(j) \/ Submit(j) \/ Record(j) \/ RecordFailure(j) \/ Crash(j)
  \/ \E c \in Cancels : CancelJob(c) \/ CancelBatch(c) \/ CancelUpdate(c) \/ Finish(c)
  \/ \E o \in Outputs : GetOutput(o) \/ MarkDownloaded(o) \/ Finish(o)
  \/ MonitorStep
  \/ \E j \in Jobs : End(j)

Spec == Init /\ [][Next]_vars

\* The monitor runs as long as its server does; nobody else owes anything.
FairSpec == Spec /\ WF_vars(MonitorStep)

-----------------------------------------------------------------------------
(* Properties *)

\* The status of a job that has ended only changes when its output is fetched,
\* or when a request to cancel it, sent before, is late; and only the answer of
\* a scheduler asked before replaces CANCELLED.
EndedIsFinal ==
  [][\A j \in Jobs :
       /\ job[j].saved /\ job[j].status >= COMPLETED
       /\ job'[j].status # job[j].status
       => \/ job[j].status = COMPLETED /\ job'[j].status = DOWNLOADED
          \/ \E c \in Cancels : proc[c].pc = "update" /\ proc[c].cur = j
          \/ /\ job[j].status = CANCELLED
             /\ \/ proc[Monitor].pc = "update" /\ proc[Monitor].cur = j
                \/ \E o \in Outputs : j \in proc[o].todo]_vars

\* Unless something failed on the way, a job that VISHNU says has ended is not
\* waiting or running in the scheduler.
EndedIsTrue ==
  faults = 0 => \A j \in Jobs : job[j].saved /\ job[j].status >= COMPLETED => ~Alive(j)

\* What the table says of jobs is what BatchSystem allows one to learn of its
\* jobs, unless something failed on the way.
Over == {j \in Jobs : job[j].saved /\ job[j].status >= COMPLETED}
Scheduler == INSTANCE BatchSystem WITH over <- Over, sound <- faults = 0
SchedulerSpec == Scheduler!Spec

\* Unless something failed on the way, a request to cancel that was answered
\* success leaves none of the jobs it selected in the scheduler.
CancelKills ==
  faults = 0 => \A c \in Cancels : proc[c].result = "success" => \A j \in proc[c].all : ~Alive(j)

\* A job is only cancelled by its owner or by an administrator.
OwnersCancel ==
  \A c \in Cancels, j \in Jobs :
    j \in proc[c].all => Admin(c) \/ User[job[j].session] = User[proc[c].session]

\* VISHNU learns that a saved job has ended, unless the scheduler could not be
\* reached: status -1 takes the job out of the monitor's sight.
EveryEndIsSeen ==
  \A j \in Jobs :
    job[j].saved /\ batch[j] \in {"ended", "killed"}
      ~> job[j].status >= COMPLETED \/ job[j].status = UNREACHABLE
=============================================================================
