------------------------------- MODULE Transfers -------------------------------
(***************************************************************************)
(* File transfers: FileTransferServer, the client's side of a transfer     *)
(* with its own machine (RemoteFileProxy) and MonitorXMS::checkFile, over  *)
(* the table filetransfer and the files.                                   *)
(*                                                                         *)
(* A step is one SQL statement or one command run through ssh, with the    *)
(* code up to the next one; the reservation of the identifier, whose row   *)
(* no request selects, is one step with the first UPDATE of the row.       *)
(* Every transfer has files of its own.  Sessions are valid.               *)
(***************************************************************************)
EXTENDS Integers

CONSTANTS Transfers,  \* transfers, each requested at most once
          Stops,      \* requests to stop transfers
          Kinds,      \* the kinds of transfers requested
          MaxFaults   \* bound: database errors and crashes in a behaviour

ASSUME KindsAssumption ==
  Kinds \subseteq [op : {"copy", "move"}, by : {"server", "client"}, sync : BOOLEAN]
ASSUME MaxFaultsAssumption == MaxFaults \in Nat

\* The status column; a row that is only reserved has none.
NULL == -1
INPROGRESS == 0
COMPLETED == 1
CANCELLED == 2
FAILED == 3
WAITING_CLIENT_RESPONSE == 4

VARIABLES row,     \* table filetransfer
          file,    \* whether the source and the destination exist
          req,     \* the requests, and what they were answered
          thread,  \* the threads that run the commands
          stop,    \* the requests to stop: what they selected and were answered
          todo,    \* rows the monitor has selected and not handled
          up,      \* the server runs
          faults

vars == <<row, file, req, thread, stop, todo, up, faults>>

Row == [status : NULL .. WAITING_CLIENT_RESPONSE, error : BOOLEAN]
Request == [pc : {"idle", "launch", "join", "client", "done"}, kind : Kinds,
            answer : {"none", "success", "error"}]
\* said: the last command wrote something on its standard output.
Thread == [pc : {"none", "exec", "again", "save", "remove", "failed", "done", "killed"},
           said : BOOLEAN]

\* The table filetransfer, the files, the requests, threads and the monitor.
TypeOK ==
  /\ row \in [Transfers -> Row]
  /\ file \in [Transfers -> [src : BOOLEAN, dst : BOOLEAN]]
  /\ req \in [Transfers -> Request]
  /\ thread \in [Transfers -> Thread]
  /\ stop \in [Stops -> [chosen : SUBSET Transfers, answer : {"none", "success", "error"}]]
  /\ todo \subseteq Transfers
  /\ up \in BOOLEAN
  /\ faults \in 0 .. MaxFaults

Init ==
  /\ row = [t \in Transfers |-> [status |-> NULL, error |-> FALSE]]
  /\ file = [t \in Transfers |-> [src |-> TRUE, dst |-> FALSE]]
  /\ \E kind \in [Transfers -> Kinds] :
       req = [t \in Transfers |-> [pc |-> "idle", kind |-> kind[t], answer |-> "none"]]
  /\ thread = [t \in Transfers |-> [pc |-> "none", said |-> FALSE]]
  /\ stop = [s \in Stops |-> [chosen |-> {}, answer |-> "none"]]
  /\ todo = {}
  /\ up = TRUE
  /\ faults = 0

-----------------------------------------------------------------------------
Kind(t) == req[t].kind
Fault == faults < MaxFaults /\ faults' = faults + 1

\* updateDatabaseRecord; it writes processid = -1, and nothing else ever writes
\* that column: TransferExec::updatePid has no caller.
UpdateDatabaseRecord(t, status, error) ==
  row' = [row EXCEPT ![t] = [status |-> status, error |-> error]]
ProcessId(t) == -1

\* Mutant of UpdateStatus: the message of a failed command is not kept.
UpdateStatusQuiet(t, status, error) ==
  row' = IF row[t].status = CANCELLED THEN row
         ELSE [row EXCEPT ![t] = [status |-> status, error |-> FALSE]]
UpdateStatus(t, status, error) ==
  row' = IF row[t].status = CANCELLED THEN row
         ELSE [row EXCEPT ![t] = [status |-> status, error |-> error]]

Answer(t, answer) == req' = [req EXCEPT ![t].pc = "done", ![t].answer = answer]

\* The server ends: its threads and the requests it handles are lost, and the
\* commands they were running go on by themselves.
In(pcs) == {t \in Transfers : thread[t].pc \in pcs}
End ==
  /\ up' = FALSE
  /\ thread' = [t \in Transfers |->
       IF thread[t].pc \in {"none", "done"} THEN thread[t] ELSE [thread[t] EXCEPT !.pc = "killed"]]
  /\ req' = [t \in Transfers |->
       IF req[t].pc \in {"launch", "join"} THEN [req[t] EXCEPT !.pc = "done"] ELSE req[t]]
  /\ \E copied \in SUBSET In({"exec", "again"}), removed \in SUBSET In({"remove"}) :
       file' = [t \in Transfers |-> [src |-> file[t].src /\ t \notin removed,
                                     dst |-> file[t].dst \/ t \in copied]]

-----------------------------------------------------------------------------
(* A request for a transfer *)

\* addTransferThread up to its end, or to the creation of the thread.
TransferFile(t) ==
  /\ up /\ req[t].pc = "idle"
  /\ \/ /\ Kind(t).by = "client"
        /\ UpdateDatabaseRecord(t, WAITING_CLIENT_RESPONSE, FALSE)
        /\ req' = [req EXCEPT ![t].pc = "client", ![t].answer = "success"]
        /\ UNCHANGED faults
     \/ /\ Kind(t).by = "server"    \* there is no source, or it is the destination
        /\ UpdateDatabaseRecord(t, FAILED, TRUE)
        /\ Answer(t, "error")
        /\ UNCHANGED faults
     \/ /\ Kind(t).by = "server"
        /\ UpdateDatabaseRecord(t, INPROGRESS, FALSE)
        /\ req' = [req EXCEPT ![t].pc = "launch"]
        /\ UNCHANGED faults
     \/ Fault /\ Answer(t, "error") /\ UNCHANGED row
  /\ UNCHANGED <<file, thread, stop, todo, up>>

\* The thread is created; only cp and mv wait for it.
Launch(t) ==
  /\ req[t].pc = "launch"
  /\ thread' = [thread EXCEPT ![t].pc = "exec"]
  /\ IF Kind(t).sync THEN req' = [req EXCEPT ![t].pc = "join"] ELSE Answer(t, "success")
  /\ UNCHANGED <<row, file, stop, todo, up, faults>>

\* Mutant of WaitThread: the thread is not waited for.
WaitThreadNot(t) ==
  /\ req[t].pc = "join"
  /\ Answer(t, IF row[t].error THEN "error" ELSE "success")
  /\ UNCHANGED <<row, file, thread, stop, todo, up, faults>>

\* The answer of cp and mv is the error message in the row, not its status.
WaitThread(t) ==
  /\ req[t].pc = "join" /\ thread[t].pc = "done"
  /\ \/ Answer(t, IF row[t].error THEN "error" ELSE "success") /\ UNCHANGED faults
     \/ Fault /\ Answer(t, "error")
  /\ UNCHANGED <<row, file, thread, stop, todo, up>>

-----------------------------------------------------------------------------
(* The thread of a transfer *)

\* TransferExec::exec.  The exit status of the command is lost and its standard
\* error is not read: that the copy was made and that it said something are
\* independent.  A first copy that warns is made again.
Copy(t) ==
  /\ thread[t].pc \in {"exec", "again"}
  /\ \E copied \in BOOLEAN, said \in {"nothing", "a warning", "something else"} :
       /\ file' = [file EXCEPT ![t].dst = @ \/ copied]
       /\ thread' = [thread EXCEPT
            ![t].pc = IF said = "a warning" /\ @ = "exec" THEN "again" ELSE "save",
            ![t].said = said # "nothing"]
  /\ UNCHANGED <<row, req, stop, todo, up, faults>>

\* An exception of a thread ends the server.
Uncaught(t) == Fault /\ End /\ UNCHANGED row

\* Mutant of SaveStatus: success and failure swapped.
SaveStatusSwapped(t) ==
  /\ thread[t].pc = "save"
  /\ UpdateStatus(t, IF thread[t].said THEN COMPLETED ELSE FAILED, thread[t].said)
  /\ thread' = [thread EXCEPT ![t].pc = IF Kind(t).op = "move" THEN "remove" ELSE "done"]
  /\ UNCHANGED <<file, req, stop, todo, up, faults>>

\* The end of copy, and move up to rm: mlastExecStatus is always 0, for exec
\* does not set it.
SaveStatus(t) ==
  /\ thread[t].pc = "save"
  /\ \/ /\ UpdateStatus(t, IF thread[t].said THEN FAILED ELSE COMPLETED, thread[t].said)
        /\ thread' = [thread EXCEPT ![t].pc = IF Kind(t).op = "move" THEN "remove" ELSE "done"]
        /\ UNCHANGED <<file, req, up, faults>>
     \/ Uncaught(t)
  /\ UNCHANGED <<stop, todo>>

Remove(t) ==
  /\ thread[t].pc = "remove"
  /\ \/ /\ file' = [file EXCEPT ![t].src = FALSE]
        /\ thread' = [thread EXCEPT ![t].pc = "done"]
     \/ /\ thread' = [thread EXCEPT ![t].pc = "failed"]
        /\ UNCHANGED file
  /\ UNCHANGED <<row, req, stop, todo, up, faults>>

\* Mutant of RemoveFailed: a move that could not remove its source is completed.
RemoveFailedQuiet(t) ==
  /\ thread[t].pc = "failed"
  /\ UpdateStatus(t, COMPLETED, FALSE)
  /\ thread' = [thread EXCEPT ![t].pc = "done"]
  /\ UNCHANGED <<file, req, stop, todo, up, faults>>

RemoveFailed(t) ==
  /\ thread[t].pc = "failed"
  /\ \/ /\ UpdateStatus(t, FAILED, TRUE)
        /\ thread' = [thread EXCEPT ![t].pc = "done"]
        /\ UNCHANGED <<file, req, up, faults>>
     \/ Uncaught(t)
  /\ UNCHANGED <<stop, todo>>

-----------------------------------------------------------------------------
\* RemoteFileProxy::transferFile and finalizeTransfer: the client copies, and
\* tells the server; nothing is told when the size of the file cannot be read,
\* the call fails or the client ends.  A move does not remove the source.
FinalizeTransfer(t) ==
  /\ req[t].pc = "client"
  /\ \E copied, said \in BOOLEAN :
       /\ file' = [file EXCEPT ![t].dst = @ \/ copied]
       /\ thread' = [thread EXCEPT ![t].said = said]
       /\ \/ up /\ UpdateDatabaseRecord(t, IF said THEN FAILED ELSE COMPLETED, said)
          \/ UNCHANGED row
  /\ req' = [req EXCEPT ![t].pc = "done"]
  /\ UNCHANGED <<stop, todo, up, faults>>

\* stopThread: a pid of -1 is not killed and its row not changed.
StopThread(s) ==
  /\ up /\ stop[s].answer = "none"
  /\ \E asked \in {Transfers} \cup {{t} : t \in Transfers} :
       LET chosen == {t \in asked : row[t].status = INPROGRESS} IN
       \/ /\ \A t \in chosen : ProcessId(t) = -1
          /\ stop' = [stop EXCEPT ![s] =
               [chosen |-> chosen, answer |-> IF chosen = {} THEN "error" ELSE "success"]]
          /\ UNCHANGED faults
       \/ Fault /\ stop' = [stop EXCEPT ![s].answer = "error"]
  /\ UNCHANGED <<row, file, req, thread, todo, up>>

-----------------------------------------------------------------------------
(* MonitorXMS::checkFile, again and again; it outlives the server until the end *)
(* of its round                                                                 *)

SelectFiles ==
  /\ up /\ todo = {}
  /\ todo' = {t \in Transfers : row[t].status = INPROGRESS}
  /\ UNCHANGED <<row, file, req, thread, stop, up, faults>>

\* Mutant of ProcessExists: every process seems to run.
ProcessExistsAlways(pid) == TRUE

\* There is no /proc/-1.
ProcessExists(pid) == pid # -1

CheckFile(t) ==
  /\ t \in todo
  /\ todo' = todo \ {t}
  /\ \/ /\ ~ProcessExists(ProcessId(t))
        /\ row' = [row EXCEPT ![t].status = FAILED]
        /\ UNCHANGED faults
     \/ Fault /\ UNCHANGED row
  /\ UNCHANGED <<file, req, thread, stop, up>>

Crash == up /\ Fault /\ End /\ UNCHANGED <<row, stop, todo>>

\* By hand, and not before the monitor of the server that ended has ended.
Restart ==
  /\ ~up /\ todo = {}
  /\ up' = TRUE
  /\ UNCHANGED <<row, file, req, thread, stop, todo, faults>>

-----------------------------------------------------------------------------
MonitorStep == SelectFiles \/ \E t \in Transfers : CheckFile(t)

Next ==
  \/ \E t \in Transfers :
       \/ TransferFile(t) \/ Launch(t) \/ WaitThread(t)
       \/ Copy(t) \/ SaveStatus(t) \/ Remove(t) \/ RemoveFailed(t)
       \/ FinalizeTransfer(t)
  \/ \E s \in Stops : StopThread(s)
  \/ MonitorStep \/ Crash \/ Restart

Spec == Init /\ [][Next]_vars

\* The monitor runs as long as its server does, and a server that ended is
\* started again; a command run through ssh owes nothing.
FairSpec == Spec /\ WF_vars(MonitorStep) /\ WF_vars(Restart)

-----------------------------------------------------------------------------
(* Properties *)

\* A transfer said to be completed is one whose last command said nothing, and
\* it carries no message (updateStatus against checkFile and the client).
CompletedIsTrue ==
  \A t \in Transfers : row[t].status = COMPLETED =>
    ~thread[t].said /\ ~row[t].error /\ thread[t].pc \notin {"exec", "again", "save"}

\* A cp or mv that was answered success is over: its last command said nothing
\* and a move has removed its source, whatever the monitor made of the status.
AnswerIsTrue ==
  \A t \in Transfers :
    Kind(t).by = "server" /\ Kind(t).sync /\ req[t].answer = "success" =>
      /\ thread[t].pc = "done" /\ ~thread[t].said
      /\ Kind(t).op = "move" => ~file[t].src

\* A failure with a message is final, whoever writes the row afterwards.
ErrorIsFinal ==
  [][\A t \in Transfers : row[t].error => row'[t] = row[t]]_row

\* No transfer stays in progress, whatever becomes of its thread and its server.
InProgressEnds ==
  \A t \in Transfers : row[t].status = INPROGRESS ~> row[t].status # INPROGRESS

\* Move a file from src to dest: there is always one of the two.
MoveKeepsTheFile == \A t \in Transfers : file[t].src \/ file[t].dst
=============================================================================
