------------------------------ MODULE PosixDaemon ------------------------------
(***************************************************************************)
(* The batch system of machines that have none: tms-posix.cpp, a daemon    *)
(* that forks the jobs of a user, kills them at their time limit and       *)
(* answers the requests of PosixServer through TmsPosixClient.             *)
(*                                                                         *)
(* The daemon is one thread.  SIGCHLD and SIGALRM only raise a flag, at    *)
(* any moment, and interrupt it when it waits in accept or read; the flags *)
(* are looked at between two requests.  A job's name is its process id,    *)
(* and process ids are not used again.  The handler of SIGCHLD reaps the   *)
(* process at once, so kill(pid, 0) fails when the process has ended.      *)
(***************************************************************************)
EXTENDS Integers, FiniteSets

CONSTANTS Jobs,      \* bound: the processes there can be
          Limits,    \* the jobs with a time limit (maxTime is not 0)
          Users,     \* clients that submit and cancel
          Monitor,   \* the client that asks what became of jobs
          None,      \* no job, client or request
          MaxRaces   \* bound: signals that came at the wrong moment

ASSUME NamesAssumption == Monitor \notin Users /\ None \notin Jobs \cup Users \cup {Monitor}
ASSUME LimitsAssumption == Limits \subseteq Jobs
ASSUME MaxRacesAssumption == MaxRaces \in Nat

Clients == Users \cup {Monitor}

VARIABLES process,    \* the jobs' processes
          board,      \* Board
          ChildSigs, AlarmSig,
          alarm,      \* an alarm is set
          terminated,
          pc,         \* where the daemon is
          served,     \* the client it serves
          req,        \* the request in its buffer
          client,     \* what each client waits for
          told,       \* what VISHNU knows of each job
          races

daemon == <<board, ChildSigs, AlarmSig, alarm, terminated, pc, served, req>>
vars == <<process, daemon, client, told, races>>

Request == [op : {"ECHO", "SUBMIT"}, job : {None}] \cup [op : {"CANCEL", "GINFO"}, job : Jobs]

ASSUME NoneAssumption == None \notin Request

\* term: it was sent SIGTERM.
Process == [state : {"none", "alive", "ended"}, term : BOOLEAN]

\* struct trameJob.  over: its time limit has passed.
Entry == [state : {"none", "RUNNING", "KILL", "KILL9", "TERMINATED"}, over : BOOLEAN]
NoEntry == [state |-> "none", over |-> FALSE]

\* The processes, the daemon's variables, its clients and what they were told.
TypeOK ==
  /\ process \in [Jobs -> Process]
  /\ board \in [Jobs -> Entry]
  /\ ChildSigs \in BOOLEAN /\ AlarmSig \in BOOLEAN
  /\ alarm \in BOOLEAN /\ terminated \in BOOLEAN
  /\ pc \in {"enter", "accept", "read", "interrupted", "children", "clear", "alarm", "end", "gone"}
  /\ served \in Clients \cup {None}
  /\ req \in Request \cup {None}
  /\ client \in [Clients -> [pc : {"idle", "waits", "stuck"}, ask : Request \cup {None}]]
  /\ told \in [Jobs -> {"running", "ended", "cancelled"}]
  /\ races \in 0 .. MaxRaces

NoAsk == [pc |-> "idle", ask |-> None]

Init ==
  /\ process = [j \in Jobs |-> [state |-> "none", term |-> FALSE]]
  /\ board = [j \in Jobs |-> NoEntry]
  /\ ChildSigs = FALSE /\ AlarmSig = FALSE /\ alarm = FALSE /\ terminated = FALSE
  /\ pc = "gone"
  /\ served = None /\ req = None
  /\ client = [c \in Clients |-> NoAsk]
  /\ told = [j \in Jobs |-> "running"]
  /\ races = 0

-----------------------------------------------------------------------------
(* The clients *)

Alive(j) == process[j].state = "alive"
Entries == {j \in Jobs : board[j].state # "none"}
InState(state) == {j \in Jobs : board[j].state = state}
Free == {j \in Jobs : process[j].state = "none"}
Asks(c, op) == client[c].ask # None /\ client[c].ask.op = op
\* Bound: a process is left for one more submission.
Submissions ==
  {c \in Clients : Asks(c, "SUBMIT") \/ (pc = "interrupted" /\ c = served /\ req # None /\ req.op = "SUBMIT")}
Room == Cardinality(Free) > Cardinality(Submissions)

\* Requests are about jobs that VISHNU believes to run (Jobs.tla); the echo is of
\* a second daemon, launched by submit, that finds this one and ends.
Ask(c, ask) ==
  /\ client[c].pc = "idle"
  /\ pc # "gone"
  /\ ask.op \in {"ECHO", "SUBMIT"} => Room
  /\ ask.job # None => process[ask.job].state # "none" /\ told[ask.job] = "running"
  /\ client' = [client EXCEPT ![c] = [pc |-> "waits", ask |-> ask]]
  /\ UNCHANGED <<process, daemon, told, races>>

\* What getJobState makes of an answer; a job that was cancelled stays so.
Tell(j, answers) ==
  IF told[j] = "cancelled" THEN told' = told
  ELSE \E answer \in answers : told' = [told EXCEPT ![j] = answer]

\* Nobody answers: the state is read from an uninitialized trameJob.
Poll(j) == Ask(Monitor, [op |-> "GINFO", job |-> j])
PollNobody(j) ==
  /\ pc = "gone"
  /\ client[Monitor].pc = "idle"
  /\ process[j].state # "none" /\ told[j] = "running"
  /\ Tell(j, {"running", "ended"})
  /\ UNCHANGED <<process, daemon, client, races>>

\* A cancellation that nobody answers is taken for a success: its code is ignored.
CancelNobody(j) ==
  /\ pc = "gone"
  /\ \E c \in Users : client[c].pc = "idle"
  /\ process[j].state # "none" /\ told[j] = "running"
  /\ told' = [told EXCEPT ![j] = "cancelled"]
  /\ UNCHANGED <<process, daemon, client, races>>

-----------------------------------------------------------------------------
(* Signals *)

Race == races < MaxRaces /\ races' = races + 1

\* The daemon is interrupted: in accept it looks at the flags; in read, when the
\* request has not come yet, it goes on with what is in the buffer.
Interrupt ==
  \/ pc = "accept" /\ pc' = "children" /\ UNCHANGED races
  \/ /\ pc = "read"
     /\ req # None => (req.op = "SUBMIT" => Room)
     /\ pc' = "interrupted"
     /\ Race
  \/ pc # "accept" /\ UNCHANGED <<pc, races>>

\* sigchldHandler
ProcessEnds(j) ==
  /\ Alive(j)
  /\ process' = [process EXCEPT ![j] = [state |-> "ended", term |-> FALSE]]
  /\ \/ pc = "gone" /\ UNCHANGED <<ChildSigs, pc, races>>
     \/ pc = "clear" /\ ChildSigs' = TRUE /\ Race /\ UNCHANGED pc
     \/ pc \notin {"gone", "clear"} /\ ChildSigs' = TRUE /\ Interrupt
  /\ UNCHANGED <<board, AlarmSig, alarm, terminated, served, req, client, told>>

\* sigalarmHandler
AlarmRings ==
  /\ alarm /\ pc # "gone"
  /\ alarm' = FALSE
  /\ AlarmSig' = TRUE
  /\ Interrupt
  /\ UNCHANGED <<process, board, ChildSigs, terminated, served, req, client, told>>

\* Time passes.
LimitPasses(j) ==
  /\ j \in Entries \cap Limits /\ ~board[j].over
  /\ board' = [board EXCEPT ![j].over = TRUE]
  /\ UNCHANGED <<process, ChildSigs, AlarmSig, alarm, terminated, pc, served, req, client, told, races>>

-----------------------------------------------------------------------------
(* The daemon *)

\* launchDaemon, by PosixServer::submit; one that finds another daemon ends.
Launch ==
  /\ pc = "gone"
  /\ pc' = "enter"
  /\ UNCHANGED <<process, board, ChildSigs, AlarmSig, alarm, terminated, served, req, client, told, races>>

Waiting == {c \in Clients : client[c].pc = "waits" /\ c # served}

\* accept; a signal that came since the flags were looked at does not wake it.
Block ==
  /\ pc = "enter" /\ Waiting = {}
  /\ pc' = "accept"
  /\ UNCHANGED <<process, board, ChildSigs, AlarmSig, alarm, terminated, served, req, client, told, races>>

Accept(c) ==
  /\ pc \in {"enter", "accept"} /\ c \in Waiting
  /\ pc' = "read"
  /\ served' = c
  /\ UNCHANGED <<process, board, ChildSigs, AlarmSig, alarm, terminated, req, client, told, races>>

\* read: what came, or what was in the buffer.
Got == IF pc = "interrupted" THEN req ELSE client[served].ask
Gets(op) == pc \in {"read", "interrupted"} /\ Got # None /\ Got.op = op

\* The answer goes to the client that is served, whatever it asked.
Respond(answers) ==
  LET ask == client[served].ask IN
  /\ pc' = "children"
  /\ req' = Got
  /\ served' = None
  /\ client' = [client EXCEPT ![served] = NoAsk]
  /\ \/ ask.op = "GINFO" /\ Tell(ask.job, answers)
     \/ ask.op = "CANCEL" /\ told' = [told EXCEPT ![ask.job] = "cancelled"]
     \/ ask.op \in {"ECHO", "SUBMIT"} /\ told' = told
  /\ UNCHANGED <<terminated, races>>

\* Without a signature the connection stays open and nobody answers.
NoSignature ==
  /\ pc = "interrupted" /\ req = None
  /\ pc' = "enter"
  /\ served' = None
  /\ client' = [client EXCEPT ![served].pc = "stuck"]
  /\ UNCHANGED <<process, board, ChildSigs, AlarmSig, alarm, terminated, req, told, races>>

\* The echo is read as the state DEAD by a client that asked for a job.
RequestEcho ==
  /\ Gets("ECHO")
  /\ Respond({"ended"})
  /\ UNCHANGED <<process, board, ChildSigs, AlarmSig, alarm>>

\* kill(pid, SIGTERM) and the state KILL.
Signalled(p) == [p EXCEPT !.term = TRUE]
AfterSigterm(jobs) == [j \in Jobs |-> IF j \in jobs /\ Alive(j) THEN Signalled(process[j]) ELSE process[j]]
Becomes(entry, state) == [entry EXCEPT !.state = state]
Killed(jobs) == [j \in Jobs |-> IF j \in jobs THEN Becomes(board[j], "KILL") ELSE board[j]]

\* Mutant of RequestSubmit: the alarm of the new job's limit is not computed.
RequestSubmitNoAlarm ==
  /\ Gets("SUBMIT")
  /\ Respond({"running"})
  /\ \E j \in Free :
       /\ process' = [process EXCEPT ![j].state = "alive"]
       /\ board' = [board EXCEPT ![j] = [state |-> "RUNNING", over |-> FALSE]]
  /\ UNCHANGED <<ChildSigs, AlarmSig, alarm>>

\* execCommand, then the entry, and AlarmSig to compute the next alarm.
RequestSubmit ==
  /\ Gets("SUBMIT")
  /\ Respond({"running"})
  /\ \E j \in Free :
       /\ process' = [process EXCEPT ![j].state = "alive"]
       /\ board' = [board EXCEPT ![j] = [state |-> "RUNNING", over |-> FALSE]]
  /\ AlarmSig' = TRUE
  /\ UNCHANGED <<ChildSigs, alarm>>

\* Mutant of RequestCancel: the entry is marked and the process not signalled.
RequestCancelQuiet ==
  /\ Gets("CANCEL")
  /\ Respond({"running", "ended"})
  /\ board' = Killed({Got.job} \cap Entries)
  /\ UNCHANGED <<process, ChildSigs, AlarmSig, alarm>>

\* A client that asked for a job gets the data of the answer before.
RequestCancel ==
  /\ Gets("CANCEL")
  /\ Respond({"running", "ended"})
  /\ IF Got.job \notin Entries THEN UNCHANGED <<process, board>>
     ELSE /\ process' = AfterSigterm({Got.job})
          /\ board' = Killed({Got.job})
  /\ UNCHANGED <<ChildSigs, AlarmSig, alarm>>

\* Mutant of RequestGetInfo: the state is told as it is.
RequestGetInfoRaw ==
  /\ Gets("GINFO")
  /\ Respond({board[Got.job].state})
  /\ UNCHANGED <<process, board, ChildSigs, AlarmSig, alarm>>

\* The entry's state, or DEAD, as getJobState reads it.
RequestGetInfo ==
  /\ Gets("GINFO")
  /\ Respond({IF Got.job \in InState("RUNNING") THEN "running" ELSE "ended"})
  /\ UNCHANGED <<process, board, ChildSigs, AlarmSig, alarm>>

\* Mutants of Ended: the call that fails is taken for the one that succeeds; only
\* the jobs that are to be killed are looked at.
EndedInverted == {j \in Entries \ InState("TERMINATED") : Alive(j)}
EndedKilled == {j \in InState("KILL") : ~Alive(j)}

\* The entries that checkJobs finds ended.
Ended == {j \in Entries \ InState("TERMINATED") : ~Alive(j)}

Cleaned == [j \in Jobs |-> IF board[j].state = "TERMINATED" THEN NoEntry
                           ELSE IF j \in Ended THEN Becomes(board[j], "TERMINATED")
                           ELSE board[j]]

\* checkJobs: nothing to do, or up to the last if.
CheckJobs ==
  /\ pc = "children"
  /\ IF ~ChildSigs THEN pc' = "alarm" /\ UNCHANGED <<board, alarm, terminated>>
     ELSE IF Entries = {} THEN pc' = "alarm" /\ terminated' = TRUE /\ UNCHANGED <<board, alarm>>
     ELSE LET dead == InState("TERMINATED") IN
          /\ board' = Cleaned
          /\ alarm' = (alarm \/ dead \cup Ended # {})
          /\ pc' = IF dead \cup Ended # {} THEN "alarm" ELSE "clear"
          /\ UNCHANGED terminated
  /\ UNCHANGED <<process, ChildSigs, AlarmSig, served, req, client, told, races>>

\* checkIn5s is false; a process that ended in between is forgotten.
ClearChildSigs ==
  /\ pc = "clear"
  /\ ChildSigs' = FALSE
  /\ pc' = "alarm"
  /\ UNCHANGED <<process, board, AlarmSig, alarm, terminated, served, req, client, told, races>>

\* timeStatement.  An alarm that rings meanwhile is forgotten.
KillsAlive == {j \in InState("KILL") : Alive(j)}
KillsEnded == InState("KILL") \ KillsAlive
Marked == [j \in Jobs |-> IF j \in KillsAlive THEN Becomes(board[j], "TERMINATED")
                          ELSE IF j \in KillsEnded THEN Becomes(board[j], "KILL9")
                          ELSE board[j]]
Limited == Entries \cap Limits
OverLimit == {j \in Limited : board[j].over}

TimeStatement ==
  /\ pc = "alarm"
  /\ pc' = IF terminated THEN "end" ELSE "enter"
  /\ IF ~AlarmSig THEN UNCHANGED <<process, board, alarm>>
     ELSE IF KillsAlive # {}
     THEN /\ board' = Marked
          /\ alarm' = TRUE
          /\ UNCHANGED process
     ELSE /\ board' = [j \in Jobs |-> IF j \in OverLimit THEN Killed(OverLimit)[j] ELSE Marked[j]]
          /\ process' = AfterSigterm(OverLimit)
          /\ IF Limited # OverLimit THEN alarm' = TRUE ELSE alarm' \in {alarm, FALSE}
  /\ AlarmSig' = FALSE
  /\ UNCHANGED <<ChildSigs, terminated, served, req, client, told, races>>

\* The jobs that somebody waits to have cancelled, or the monitor to hear of.
Cancelling == {j \in Jobs : \E c \in Clients : client[c].ask = [op |-> "CANCEL", job |-> j]}
Asked == {j \in Jobs : told[j] = "running" /\ \E c \in Clients : client[c].ask = [op |-> "GINFO", job |-> j]}

\* The daemon ends, and what it had in memory; its clients' calls fail, which the
\* caller of reqCancel does not look at.
End ==
  /\ pc = "end"
  /\ board' = [j \in Jobs |-> NoEntry]
  /\ ChildSigs' = FALSE /\ AlarmSig' = FALSE /\ alarm' = FALSE /\ terminated' = FALSE
  /\ pc' = "gone"
  /\ served' = None /\ req' = None
  /\ client' = [c \in Clients |-> NoAsk]
  /\ \E ended \in SUBSET Asked :
       told' = [j \in Jobs |-> IF j \in Cancelling THEN "cancelled"
                               ELSE IF j \in ended THEN "ended" ELSE told[j]]
  /\ UNCHANGED <<process, races>>

-----------------------------------------------------------------------------
DaemonStep ==
  \/ Block \/ (\E c \in Clients : Accept(c))
  \/ NoSignature \/ RequestEcho \/ RequestSubmit \/ RequestCancel \/ RequestGetInfo
  \/ CheckJobs \/ ClearChildSigs \/ TimeStatement \/ End

Next ==
  \/ \E c \in Users, ask \in Request : ask.op # "GINFO" /\ Ask(c, ask)
  \/ \E j \in Jobs : Poll(j) \/ PollNobody(j) \/ CancelNobody(j) \/ ProcessEnds(j) \/ LimitPasses(j)
  \/ AlarmRings \/ Launch
  \/ DaemonStep

Spec == Init /\ [][Next]_vars

FairSpec ==
  /\ Spec
  /\ WF_vars(DaemonStep) /\ WF_vars(AlarmRings)
  /\ \A c \in Clients : SF_vars(Accept(c))
  /\ \A j \in Jobs : SF_vars(Poll(j) \/ PollNobody(j))

-----------------------------------------------------------------------------
(* Properties *)

\* A job that was not told to end is watched: it is on the board as running, and
\* the daemon does not end before it.
AliveIsOnBoard ==
  \A j \in Jobs : Alive(j) /\ ~process[j].term => board[j].state = "RUNNING" /\ pc # "gone"

\* Barring a signal at the wrong moment, a job that VISHNU was told has ended, or
\* whose cancellation was answered, has ended or has been sent SIGTERM.
ToldIsTrue ==
  races = 0 => \A j \in Jobs : told[j] # "running" => ~Alive(j) \/ process[j].term

\* The daemon is a batch scheduler, as BatchSystem says, and its clients learn
\* nothing else of their jobs, barring a signal at the wrong moment.
Life(j) == IF Alive(j) /\ process[j].term THEN "killed" ELSE process[j].state
Scheduler == INSTANCE BatchSystem WITH
  batch <- [j \in Jobs |-> Life(j)],
  over <- {j \in Jobs : told[j] # "running"},
  sound <- races = 0
SchedulerSpec == Scheduler!Spec

\* A job that runs longer than its limit gets SIGTERM, also when the alarm rings
\* between the look at AlarmSig and accept: the next request makes up for it.
LimitIsEnforced ==
  \A j \in Jobs : Alive(j) /\ board[j].over ~> ~Alive(j) \/ process[j].term \/ races > 0

\* VISHNU is told that a job has ended, as long as there is a daemon to ask.
EndIsTold ==
  \A j \in Jobs : process[j].state = "ended" ~> told[j] # "running" \/ pc = "gone" \/ races > 0
=============================================================================
