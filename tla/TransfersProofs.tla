-------------------------- MODULE TransfersProofs --------------------------
(***************************************************************************)
(* Proofs about Transfers, for all sets of transfers and requests to stop  *)
(* them, any kinds of transfers and any number of faults.                  *)
(*                                                                         *)
(* A row has three writers: the thread of the transfer, the monitor and    *)
(* the client.  Sound says how far one transfer is when its row says what  *)
(* it says: until the end of the last copy the row has no message and is   *)
(* not completed, and afterwards what went wrong is in it.  A step touches *)
(* one transfer, but the end of the server touches them all.               *)
(***************************************************************************)
EXTENDS Transfers, TLAPS

\* Row r, files f, request q and thread h of one transfer.
Sound(r, f, q, h) ==
  \* nothing is answered before the request came or while it is launched;
  /\ q.pc \in {"idle", "launch", "join"} => q.answer = "none"
  \* a request in these steps has no thread yet;
  /\ q.pc \in {"idle", "launch", "client"} => h.pc = "none" /\ r.status # COMPLETED /\ ~r.error
  \* until the thread has saved the outcome there is none in the row;
  /\ h.pc \in {"exec", "again", "save"} => r.status # COMPLETED /\ ~r.error
  \* nobody cancels, and a message is that of a failure;
  /\ r.status # CANCELLED /\ (r.error => r.status = FAILED)
  \* what went wrong is in the row;
  /\ h.pc \in {"remove", "failed", "done"} /\ h.said => r.error
  /\ h.pc = "done" /\ q.kind.op = "move" /\ f.src => r.error
  \* and the two invariants.
  /\ r.status = COMPLETED => ~h.said /\ ~r.error /\ h.pc \notin {"exec", "again", "save"}
  /\ q.kind.by = "server" /\ q.kind.sync /\ q.answer = "success" =>
       h.pc = "done" /\ ~h.said /\ (q.kind.op = "move" => ~f.src)

AllSound == \A t \in Transfers : Sound(row[t], file[t], req[t], thread[t])
TransfersInv == TypeOK /\ AllSound

\* A step of one transfer leaves the others alone.
Others(t) ==
  \A u \in Transfers \ {t} :
    row'[u] = row[u] /\ file'[u] = file[u] /\ req'[u] = req[u] /\ thread'[u] = thread[u]

LEMMA OneTransfer ==
  ASSUME AllSound, NEW t \in Transfers, Others(t),
         Sound(row'[t], file'[t], req'[t], thread'[t])
  PROVE  AllSound'
BY DEF AllSound, Others

\* The records of one transfer.
LEMMA Records ==
  ASSUME TransfersInv, NEW t \in Transfers
  PROVE  /\ row[t] \in Row /\ row[t].status \in NULL .. WAITING_CLIENT_RESPONSE /\ row[t].error \in BOOLEAN
         /\ file[t] \in [src : BOOLEAN, dst : BOOLEAN]
         /\ req[t] \in Request /\ thread[t] \in Thread
         /\ Sound(row[t], file[t], req[t], thread[t])
BY DEF TransfersInv, TypeOK, AllSound, Row

LEMMA TransfersInvInit == Init => TransfersInv
<1> SUFFICES ASSUME Init PROVE TransfersInv
  OBVIOUS
<1> USE DEF Init, NULL, INPROGRESS, COMPLETED, CANCELLED, FAILED, WAITING_CLIENT_RESPONSE
<1>1. TypeOK
  <2>1. PICK kind \in [Transfers -> Kinds] :
          req = [t \in Transfers |-> [pc |-> "idle", kind |-> kind[t], answer |-> "none"]]
    OBVIOUS
  <2>2. req \in [Transfers -> Request]
    BY <2>1 DEF Request
  <2>3. QED
    BY <2>2, MaxFaultsAssumption DEF TypeOK, Row, Thread
<1>2. ASSUME NEW t \in Transfers
      PROVE  Sound(row[t], file[t], req[t], thread[t])
  <2>1. /\ row[t].status = NULL /\ row[t].error = FALSE
        /\ req[t].pc = "idle" /\ req[t].answer = "none"
        /\ thread[t].pc = "none"
    OBVIOUS
  <2>2. QED
    BY <2>1 DEF Sound
<1>3. QED
  BY <1>1, <1>2 DEF TransfersInv, AllSound

-----------------------------------------------------------------------------
(* The request *)

LEMMA TransferFileStep ==
  ASSUME TransfersInv, NEW t \in Transfers, TransferFile(t)
  PROVE  TransfersInv' /\ (row[t].error => row'[t] = row[t])
<1> USE DEF NULL, INPROGRESS, COMPLETED, CANCELLED, FAILED, WAITING_CLIENT_RESPONSE
<1>1. PICK status \in {NULL, INPROGRESS, FAILED, WAITING_CLIENT_RESPONSE}, error \in BOOLEAN,
           pc \in {"client", "launch", "done"}, answer \in {"none", "success", "error"} :
        /\ req[t].pc = "idle"
        /\ pc = "launch" => answer = "none"
        /\ row' = row \/ row' = [row EXCEPT ![t] = [status |-> status, error |-> error]]
        /\ req' = [req EXCEPT ![t].pc = pc, ![t].answer = answer]
        /\ answer = "success" => Kind(t).by = "client"
        /\ error => pc = "done" /\ status = FAILED
        /\ faults' \in 0 .. MaxFaults
        /\ UNCHANGED <<file, thread, stop, todo, up>>
  <2> USE DEF TransfersInv, TypeOK, Row, Request
  <2>1. req[t] \in Request /\ row[t] \in Row
    OBVIOUS
  <2>2. /\ req[t].pc = "idle" /\ UNCHANGED <<file, thread, stop, todo, up>>
        /\ faults' \in 0 .. MaxFaults
    <3>1. faults' = faults \/ Fault
      BY DEF TransferFile
    <3>2. faults' \in 0 .. MaxFaults
      BY <3>1, MaxFaultsAssumption DEF Fault
    <3>3. QED
      BY <3>2 DEF TransferFile
  <2>3. CASE /\ Kind(t).by = "client"
             /\ row' = [row EXCEPT ![t] = [status |-> WAITING_CLIENT_RESPONSE, error |-> FALSE]]
             /\ req' = [req EXCEPT ![t].pc = "client", ![t].answer = "success"]
    BY <2>2, <2>3
  <2>4. CASE /\ row' = [row EXCEPT ![t] = [status |-> FAILED, error |-> TRUE]]
             /\ req' = [req EXCEPT ![t].pc = "done", ![t].answer = "error"]
    BY <2>2, <2>4
  <2>5. CASE /\ row' = [row EXCEPT ![t] = [status |-> INPROGRESS, error |-> FALSE]]
             /\ req' = [req EXCEPT ![t].pc = "launch"]
    <3>1. req' = [req EXCEPT ![t].pc = "launch", ![t].answer = req[t].answer]
      BY <2>1, <2>5
    <3>2. req[t].answer = "none"
      BY <2>2, Records DEF Sound
    <3>3. QED
      BY <2>1, <2>2, <2>5, <3>1, <3>2
  <2>6. CASE row' = row /\ req' = [req EXCEPT ![t].pc = "done", ![t].answer = "error"]
    BY <2>2, <2>6
  <2>7. QED
    BY <2>3, <2>4, <2>5, <2>6 DEF TransferFile, UpdateDatabaseRecord, Answer
<1>2. TypeOK'
  <2>1. row' \in [Transfers -> Row]
    BY <1>1 DEF TransfersInv, TypeOK, Row
  <2>2. req' \in [Transfers -> Request]
    <3>1. req[t] \in Request
      BY DEF TransfersInv, TypeOK
    <3>2. [req[t] EXCEPT !.pc = pc, !.answer = answer] \in Request
      BY <3>1 DEF Request
    <3>3. QED
      BY <1>1, <3>2 DEF TransfersInv, TypeOK
  <2>3. QED
    BY <1>1, <2>1, <2>2 DEF TransfersInv, TypeOK
<1>3. /\ row'[t].status # COMPLETED /\ row'[t].status # CANCELLED
      /\ row'[t].error => req'[t].pc = "done" /\ row'[t].status = FAILED
      /\ req'[t].pc \in {"client", "launch", "done"} /\ req'[t].kind = req[t].kind
      /\ req'[t].pc = "launch" => req'[t].answer = "none"
      /\ req'[t].answer = "success" => Kind(t).by = "client"
      /\ row[t].error = FALSE
  <2>1. /\ row[t].status # COMPLETED /\ row[t].status # CANCELLED /\ row[t].error = FALSE
    BY <1>1, Records DEF Sound
  <2>2. req' = [req EXCEPT ![t] = [req[t] EXCEPT !.pc = pc, !.answer = answer]]
    BY <1>1
  <2>3. req'[t] = [req[t] EXCEPT !.pc = pc, !.answer = answer] /\ req[t] \in Request
    BY <2>2, Records DEF TransfersInv, TypeOK
  <2>4. req'[t].pc = pc /\ req'[t].answer = answer /\ req'[t].kind = req[t].kind
    BY <2>3 DEF Request
  <2>5. row'[t] = row[t] \/ row'[t] = [status |-> status, error |-> error]
    BY <1>1 DEF TransfersInv, TypeOK
  <2>6. QED
    BY <1>1, <2>1, <2>4, <2>5
<1>4. thread[t].pc = "none" /\ UNCHANGED <<file, thread>>
  BY <1>1, Records DEF Sound
<1> HIDE DEF NULL, INPROGRESS, COMPLETED, CANCELLED, FAILED, WAITING_CLIENT_RESPONSE
<1>5. Sound(row'[t], file'[t], req'[t], thread'[t])
  BY <1>3, <1>4 DEF Sound, Kind
<1>6. Others(t)
  BY <1>1 DEF Others, TransfersInv, TypeOK
<1>7. QED
  BY <1>2, <1>3, <1>5, <1>6, OneTransfer DEF TransfersInv

LEMMA LaunchStep ==
  ASSUME TransfersInv, NEW t \in Transfers, Launch(t)
  PROVE  TransfersInv' /\ row' = row
<1>1. PICK pc \in {"join", "done"}, answer \in {"none", "success"} :
        /\ req[t].pc = "launch"
        /\ thread' = [thread EXCEPT ![t].pc = "exec"]
        /\ req' = [req EXCEPT ![t].pc = pc, ![t].answer = answer]
        /\ pc = "join" => answer = "none"
        /\ answer = "success" => ~Kind(t).sync
        /\ UNCHANGED <<row, file, stop, todo, up, faults>>
  <2>1. req[t] \in Request /\ (req[t].pc = "launch" => req[t].answer = "none")
    BY Records DEF Sound
  <2>2. CASE Kind(t).sync
    <3>1. req' = [req EXCEPT ![t].pc = "join", ![t].answer = req[t].answer]
      BY <2>1, <2>2 DEF Launch, Request, TransfersInv, TypeOK
    <3>2. QED
      BY <2>1, <2>2, <3>1 DEF Launch
  <2>3. CASE ~Kind(t).sync
    BY <2>3 DEF Launch, Answer
  <2>4. QED
    BY <2>2, <2>3
<1>2. TypeOK'
  <2>1. req[t] \in Request /\ thread[t] \in Thread
    BY DEF TransfersInv, TypeOK
  <2>2. /\ [req[t] EXCEPT !.pc = pc, !.answer = answer] \in Request
        /\ [thread[t] EXCEPT !.pc = "exec"] \in Thread
    BY <2>1 DEF Request, Thread
  <2>3. QED
    BY <1>1, <2>2 DEF TransfersInv, TypeOK
<1>3. /\ req'[t] = [req[t] EXCEPT !.pc = pc, !.answer = answer]
      /\ thread'[t] = [thread[t] EXCEPT !.pc = "exec"]
      /\ row'[t] = row[t] /\ file'[t] = file[t] /\ Others(t)
  BY <1>1 DEF TransfersInv, TypeOK, Others
<1>4. /\ req'[t].pc = pc /\ req'[t].answer = answer /\ req'[t].kind = req[t].kind
      /\ thread'[t].pc = "exec" /\ req[t].pc = "launch"
  <2>1. req[t] \in Request /\ thread[t] \in Thread
    BY Records
  <2>2. req'[t].pc = pc /\ req'[t].answer = answer /\ req'[t].kind = req[t].kind
    BY <1>3, <2>1 DEF Request
  <2>3. thread'[t].pc = "exec"
    BY <1>3, <2>1 DEF Thread
  <2>4. QED
    BY <1>1, <2>2, <2>3
<1>5. Sound(row'[t], file'[t], req'[t], thread'[t])
  BY <1>1, <1>3, <1>4, Records DEF Sound, Kind
<1>6. QED
  BY <1>1, <1>2, <1>3, <1>5, OneTransfer DEF TransfersInv

\* The answer of a cp or mv: the thread has recorded what went wrong.
LEMMA WaitThreadStep ==
  ASSUME TransfersInv, NEW t \in Transfers, WaitThread(t)
  PROVE  TransfersInv' /\ row' = row
<1>1. PICK answer \in {"error", "success"} :
        /\ req[t].pc = "join" /\ thread[t].pc = "done"
        /\ req' = [req EXCEPT ![t].pc = "done", ![t].answer = answer]
        /\ answer = "success" => ~row[t].error
        /\ faults' = faults \/ Fault
        /\ UNCHANGED <<row, file, thread, stop, todo, up>>
  BY DEF WaitThread, Answer
<1>2. TypeOK'
  <2>1. req[t] \in Request
    BY DEF TransfersInv, TypeOK
  <2>2. [req[t] EXCEPT !.pc = "done", !.answer = answer] \in Request
    BY <2>1 DEF Request
  <2>3. faults' \in 0 .. MaxFaults
    BY <1>1, MaxFaultsAssumption DEF Fault, TransfersInv, TypeOK
  <2>4. QED
    BY <1>1, <2>2, <2>3 DEF TransfersInv, TypeOK
<1>3. /\ req'[t] = [req[t] EXCEPT !.pc = "done", !.answer = answer]
      /\ row'[t] = row[t] /\ file'[t] = file[t] /\ thread'[t] = thread[t] /\ Others(t)
  BY <1>1 DEF TransfersInv, TypeOK, Others
<1>4. req'[t].pc = "done" /\ req'[t].answer = answer /\ req'[t].kind = req[t].kind
  BY <1>3, Records DEF Request
<1>5. Sound(row'[t], file'[t], req'[t], thread'[t])
  BY <1>1, <1>3, <1>4, Records DEF Sound
<1>6. QED
  BY <1>1, <1>2, <1>3, <1>5, OneTransfer DEF TransfersInv

-----------------------------------------------------------------------------
(* The thread *)

LEMMA CopyStep ==
  ASSUME TransfersInv, NEW t \in Transfers, Copy(t)
  PROVE  TransfersInv' /\ row' = row
<1>1. PICK copied, said \in BOOLEAN, pc \in {"again", "save"} :
        /\ thread[t].pc \in {"exec", "again"}
        /\ file' = [file EXCEPT ![t].dst = @ \/ copied]
        /\ thread' = [thread EXCEPT ![t].pc = pc, ![t].said = said]
        /\ UNCHANGED <<row, req, stop, todo, up, faults>>
  BY DEF Copy
<1>2. TypeOK'
  <2>1. /\ thread[t] \in Thread
        /\ file[t] \in [src : BOOLEAN, dst : BOOLEAN]
    BY DEF TransfersInv, TypeOK
  <2>2. /\ [thread[t] EXCEPT !.pc = pc, !.said = said] \in Thread
        /\ [file[t] EXCEPT !.dst = @ \/ copied] \in [src : BOOLEAN, dst : BOOLEAN]
    BY <2>1 DEF Thread
  <2>3. QED
    BY <1>1, <2>2 DEF TransfersInv, TypeOK
<1>3. /\ thread'[t] = [thread[t] EXCEPT !.pc = pc, !.said = said]
      /\ file'[t].src = file[t].src
      /\ row'[t] = row[t] /\ req'[t] = req[t] /\ Others(t)
  BY <1>1 DEF TransfersInv, TypeOK, Others
<1>4. thread'[t].pc = pc
  BY <1>3, Records DEF Thread
<1>5. Sound(row'[t], file'[t], req'[t], thread'[t])
  BY <1>1, <1>3, <1>4, Records DEF Sound
<1>6. QED
  BY <1>1, <1>2, <1>3, <1>5, OneTransfer DEF TransfersInv

\* The end of a copy: the thread writes its outcome once, over no message.
LEMMA SaveStatusStep ==
  ASSUME TransfersInv, NEW t \in Transfers, thread[t].pc = "save",
         UpdateStatus(t, IF thread[t].said THEN FAILED ELSE COMPLETED, thread[t].said),
         NEW pc \in {"remove", "done"}, pc = "done" => Kind(t).op # "move",
         thread' = [thread EXCEPT ![t].pc = pc],
         UNCHANGED <<file, req, stop, todo, up, faults>>
  PROVE  TransfersInv' /\ \A u \in Transfers : row[u].error => row'[u] = row[u]
<1> DEFINE status == IF thread[t].said THEN FAILED ELSE COMPLETED
           new == [status |-> status, error |-> thread[t].said]
<1>1. row' = [row EXCEPT ![t] = new]
  BY Records DEF UpdateStatus, Sound
<1>2. new \in Row /\ new.status = status /\ new.error = thread[t].said
  BY Records DEF Row, Thread, NULL, FAILED, COMPLETED, WAITING_CLIENT_RESPONSE
<1>3. [thread[t] EXCEPT !.pc = pc] \in Thread
  BY Records DEF Thread
<1> HIDE DEF new
<1>4. TypeOK'
  BY <1>1, <1>2, <1>3 DEF TransfersInv, TypeOK
<1>5. /\ row'[t] = new /\ thread'[t] = [thread[t] EXCEPT !.pc = pc]
      /\ req'[t] = req[t] /\ file'[t] = file[t] /\ Others(t)
  BY <1>1 DEF TransfersInv, TypeOK, Others
<1>6. thread'[t].pc = pc /\ thread'[t].said = thread[t].said
  BY <1>5, Records DEF Thread
<1>7. Sound(row'[t], file'[t], req'[t], thread'[t])
  <2>1. Sound(row[t], file[t], req[t], thread[t])
    BY Records
  <2>2. QED
    BY <1>2, <1>5, <1>6, <2>1 DEF Sound, Kind, FAILED, COMPLETED, CANCELLED
<1>8. \A u \in Transfers : row[u].error => row'[u] = row[u]
  BY <1>5, Records DEF Sound, Others
<1>9. QED
  BY <1>4, <1>5, <1>7, <1>8, OneTransfer DEF TransfersInv

LEMMA RemoveStep ==
  ASSUME TransfersInv, NEW t \in Transfers, Remove(t)
  PROVE  TransfersInv' /\ row' = row
<1>1. PICK pc \in {"done", "failed"}, src \in BOOLEAN :
        /\ thread[t].pc = "remove" /\ (pc = "done" => src = FALSE)
        /\ thread' = [thread EXCEPT ![t].pc = pc]
        /\ file' = [file EXCEPT ![t].src = src]
        /\ UNCHANGED <<row, req, stop, todo, up, faults>>
  <2>1. file[t] \in [src : BOOLEAN, dst : BOOLEAN]
    BY Records
  <2>2. file = [file EXCEPT ![t].src = file[t].src]
    BY <2>1 DEF TransfersInv, TypeOK
  <2>3. QED
    BY <2>1, <2>2 DEF Remove
<1>2. [thread[t] EXCEPT !.pc = pc] \in Thread /\ [file[t] EXCEPT !.src = src] \in [src : BOOLEAN, dst : BOOLEAN]
  BY Records DEF Thread
<1>3. TypeOK'
  BY <1>1, <1>2 DEF TransfersInv, TypeOK
<1>4. /\ thread'[t] = [thread[t] EXCEPT !.pc = pc] /\ file'[t] = [file[t] EXCEPT !.src = src]
      /\ row'[t] = row[t] /\ req'[t] = req[t] /\ Others(t)
  BY <1>1 DEF TransfersInv, TypeOK, Others
<1>5. thread'[t].pc = pc /\ thread'[t].said = thread[t].said /\ file'[t].src = src
  BY <1>4, Records DEF Thread
<1>6. Sound(row'[t], file'[t], req'[t], thread'[t])
  <2>1. Sound(row[t], file[t], req[t], thread[t])
    BY Records
  <2>2. QED
    BY <1>1, <1>4, <1>5, <2>1 DEF Sound
<1>7. QED
  BY <1>1, <1>3, <1>4, <1>6, OneTransfer DEF TransfersInv

\* The source could not be removed: the row is a failure from now on.
LEMMA RemoveFailedStep ==
  ASSUME TransfersInv, NEW t \in Transfers, thread[t].pc = "failed",
         UpdateStatus(t, FAILED, TRUE),
         thread' = [thread EXCEPT ![t].pc = "done"],
         UNCHANGED <<file, req, stop, todo, up, faults>>
  PROVE  TransfersInv' /\ \A u \in Transfers : row[u].error => row'[u] = row[u]
<1> DEFINE new == [status |-> FAILED, error |-> TRUE]
<1>1. row' = [row EXCEPT ![t] = new]
  BY Records DEF UpdateStatus, Sound
<1>2. new \in Row /\ new.status = FAILED /\ new.error = TRUE
  BY DEF Row, NULL, FAILED, WAITING_CLIENT_RESPONSE
<1>3. [thread[t] EXCEPT !.pc = "done"] \in Thread
  BY Records DEF Thread
<1>4. row[t].error => row[t] = new
  BY Records DEF Sound, Row
<1> HIDE DEF new
<1>5. TypeOK'
  BY <1>1, <1>2, <1>3 DEF TransfersInv, TypeOK
<1>6. /\ row'[t] = new /\ thread'[t] = [thread[t] EXCEPT !.pc = "done"]
      /\ req'[t] = req[t] /\ file'[t] = file[t] /\ Others(t)
  BY <1>1 DEF TransfersInv, TypeOK, Others
<1>7. thread'[t].pc = "done" /\ thread'[t].said = thread[t].said
  BY <1>6, Records DEF Thread
<1>8. Sound(row'[t], file'[t], req'[t], thread'[t])
  <2>1. Sound(row[t], file[t], req[t], thread[t])
    BY Records
  <2>2. QED
    BY <1>2, <1>6, <1>7, <2>1 DEF Sound, FAILED, COMPLETED, CANCELLED
<1>9. \A u \in Transfers : row[u].error => row'[u] = row[u]
  BY <1>4, <1>6 DEF Others
<1>10. QED
  BY <1>5, <1>6, <1>8, <1>9, OneTransfer DEF TransfersInv

-----------------------------------------------------------------------------
(* The end of the server, the client and the monitor *)

\* Whatever a thread was doing, its row says no more than it did.
LEMMA EndStep ==
  ASSUME TransfersInv, Fault, End, UNCHANGED <<row, stop, todo>>
  PROVE  TransfersInv'
<1>1. PICK copied \in SUBSET Transfers, removed \in SUBSET In({"remove"}) :
        file' = [t \in Transfers |-> [src |-> file[t].src /\ t \notin removed,
                                      dst |-> file[t].dst \/ t \in copied]]
  BY DEF End, In
<1>2. ASSUME NEW t \in Transfers
      PROVE  /\ row'[t] = row[t]
             /\ file'[t] \in [src : BOOLEAN, dst : BOOLEAN]
             /\ thread'[t] \in Thread /\ req'[t] \in Request
             /\ Sound(row'[t], file'[t], req'[t], thread'[t])
  <2>1. /\ row[t] \in Row /\ file[t] \in [src : BOOLEAN, dst : BOOLEAN]
        /\ req[t] \in Request /\ thread[t] \in Thread
        /\ Sound(row[t], file[t], req[t], thread[t])
    BY Records
  <2>2. /\ thread'[t] = IF thread[t].pc \in {"none", "done"} THEN thread[t]
                                                            ELSE [thread[t] EXCEPT !.pc = "killed"]
        /\ req'[t] = IF req[t].pc \in {"launch", "join"} THEN [req[t] EXCEPT !.pc = "done"] ELSE req[t]
    BY DEF End
  <2>3. /\ thread'[t] \in Thread /\ thread'[t].said = thread[t].said
        /\ thread[t].pc \in {"none", "done"} => thread'[t].pc = thread[t].pc
        /\ thread[t].pc \notin {"none", "done"} => thread'[t].pc = "killed"
    BY <2>1, <2>2 DEF Thread
  <2>4. /\ req'[t] \in Request /\ req'[t].kind = req[t].kind /\ req'[t].answer = req[t].answer
        /\ req[t].pc \in {"launch", "join"} => req'[t].pc = "done"
        /\ req[t].pc \notin {"launch", "join"} => req'[t].pc = req[t].pc
    BY <2>1, <2>2 DEF Request
  <2>5. /\ file'[t] \in [src : BOOLEAN, dst : BOOLEAN]
        /\ file'[t].src => file[t].src
    BY <1>1, <2>1
  <2>6. Sound(row'[t], file'[t], req'[t], thread'[t])
    BY <2>1, <2>3, <2>4, <2>5 DEF Sound
  <2>7. QED
    BY <2>3, <2>4, <2>5, <2>6
<1>3. AllSound'
  BY <1>2 DEF AllSound
<1>4. faults' \in 0 .. MaxFaults /\ up' \in BOOLEAN
  <2>1. faults \in 0 .. MaxFaults /\ faults < MaxFaults /\ faults' = faults + 1
    BY DEF Fault, TransfersInv, TypeOK
  <2>2. faults' \in 0 .. MaxFaults
    BY <2>1, MaxFaultsAssumption
  <2>3. QED
    BY <2>2 DEF End
<1>5. /\ file' \in [Transfers -> [src : BOOLEAN, dst : BOOLEAN]]
      /\ thread' \in [Transfers -> Thread] /\ req' \in [Transfers -> Request]
  BY <1>1, <1>2 DEF End
<1>6. QED
  BY <1>3, <1>4, <1>5 DEF TransfersInv, TypeOK

\* The client speaks last of a transfer that has no thread on the server.
LEMMA FinalizeTransferStep ==
  ASSUME TransfersInv, NEW t \in Transfers, FinalizeTransfer(t)
  PROVE  TransfersInv' /\ \A u \in Transfers : row[u].error => row'[u] = row[u]
<1>1. PICK copied \in BOOLEAN, said \in BOOLEAN :
        /\ req[t].pc = "client"
        /\ file' = [file EXCEPT ![t].dst = @ \/ copied]
        /\ thread' = [thread EXCEPT ![t].said = said]
        /\ UpdateDatabaseRecord(t, IF said THEN FAILED ELSE COMPLETED, said) \/ UNCHANGED row
        /\ req' = [req EXCEPT ![t].pc = "done"]
        /\ UNCHANGED <<stop, todo, up, faults>>
  BY DEF FinalizeTransfer
<1> DEFINE new == [status |-> IF said THEN FAILED ELSE COMPLETED, error |-> said]
<1>2. row' = row \/ row' = [row EXCEPT ![t] = new]
  BY <1>1 DEF UpdateDatabaseRecord
<1>3. new \in Row /\ new.status = (IF said THEN FAILED ELSE COMPLETED) /\ new.error = said
  BY DEF Row, NULL, FAILED, COMPLETED, WAITING_CLIENT_RESPONSE
<1> HIDE DEF new
<1>4. /\ [thread[t] EXCEPT !.said = said] \in Thread
      /\ [req[t] EXCEPT !.pc = "done"] \in Request
      /\ [file[t] EXCEPT !.dst = @ \/ copied] \in [src : BOOLEAN, dst : BOOLEAN]
  <2>1. req[t] \in Request /\ thread[t] \in Thread /\ file[t] \in [src : BOOLEAN, dst : BOOLEAN]
    BY Records
  <2>2. QED
    BY <2>1 DEF Thread, Request
<1>5. TypeOK'
  BY <1>1, <1>2, <1>3, <1>4 DEF TransfersInv, TypeOK
<1>6. /\ row'[t] = row[t] \/ row'[t] = new
      /\ thread'[t] = [thread[t] EXCEPT !.said = said]
      /\ req'[t] = [req[t] EXCEPT !.pc = "done"]
      /\ Others(t)
  BY <1>1, <1>2 DEF TransfersInv, TypeOK, Others
<1>7. /\ thread'[t].pc = thread[t].pc /\ req'[t].pc = "done"
      /\ req'[t].kind = req[t].kind /\ req'[t].answer = req[t].answer
  <2>1. req[t] \in Request /\ thread[t] \in Thread
    BY Records
  <2>2. QED
    BY <1>6, <2>1 DEF Thread, Request
<1>8. /\ Sound(row[t], file[t], req[t], thread[t])
      /\ thread[t].pc = "none" /\ row[t].status # COMPLETED /\ ~row[t].error
  BY <1>1, Records DEF Sound
<1>9. Sound(row'[t], file'[t], req'[t], thread'[t])
  BY <1>3, <1>6, <1>7, <1>8 DEF Sound, FAILED, COMPLETED, CANCELLED
<1>10. \A u \in Transfers : row[u].error => row'[u] = row[u]
  BY <1>6, <1>8 DEF Others
<1>11. QED
  BY <1>5, <1>6, <1>9, <1>10, OneTransfer DEF TransfersInv

\* The monitor changes the status alone, and to that of a message that is there.
LEMMA CheckFileStep ==
  ASSUME TransfersInv, NEW t \in Transfers, CheckFile(t)
  PROVE  TransfersInv' /\ \A u \in Transfers : row[u].error => row'[u] = row[u]
<1> DEFINE new == [row[t] EXCEPT !.status = FAILED]
<1>1. /\ row' = row \/ row' = [row EXCEPT ![t] = new]
      /\ todo' = todo \ {t} /\ (faults' = faults \/ Fault)
      /\ UNCHANGED <<file, req, thread, stop, up>>
  BY DEF CheckFile
<1>2. new \in Row /\ new.status = FAILED /\ new.error = row[t].error
  BY Records DEF Row, NULL, FAILED, WAITING_CLIENT_RESPONSE
<1>3. row[t].error => new = row[t]
  BY Records DEF Sound, Row
<1> HIDE DEF new
<1>4. TypeOK'
  <2>1. faults' \in 0 .. MaxFaults
    BY <1>1, MaxFaultsAssumption DEF Fault, TransfersInv, TypeOK
  <2>2. QED
    BY <1>1, <1>2, <2>1 DEF TransfersInv, TypeOK
<1>5. /\ row'[t] = row[t] \/ row'[t] = new
      /\ thread'[t] = thread[t] /\ req'[t] = req[t] /\ file'[t] = file[t] /\ Others(t)
  BY <1>1 DEF TransfersInv, TypeOK, Others
<1>6. Sound(row'[t], file'[t], req'[t], thread'[t])
  <2>1. Sound(row[t], file[t], req[t], thread[t])
    BY Records
  <2>2. QED
    BY <1>2, <1>5, <2>1 DEF Sound, FAILED, COMPLETED, CANCELLED
<1>7. \A u \in Transfers : row[u].error => row'[u] = row[u]
  BY <1>3, <1>5 DEF Others
<1>8. QED
  BY <1>4, <1>5, <1>6, <1>7, OneTransfer DEF TransfersInv

\* The steps that write neither a row nor a file, a request or a thread.
LEMMA OtherStep ==
  ASSUME TransfersInv,
         \/ \E s \in Stops : StopThread(s)
         \/ SelectFiles \/ Restart \/ UNCHANGED vars
  PROVE  TransfersInv' /\ row' = row
<1>1. UNCHANGED <<row, file, req, thread>>
  BY DEF StopThread, SelectFiles, Restart, vars
<1>2. AllSound'
  BY <1>1 DEF TransfersInv, AllSound
<1>3. TypeOK'
  <2>1. ASSUME NEW s \in Stops, StopThread(s)
        PROVE  stop' \in [Stops -> [chosen : SUBSET Transfers, answer : {"none", "success", "error"}]]
               /\ faults' \in 0 .. MaxFaults /\ todo' \subseteq Transfers /\ up' \in BOOLEAN
    <3>1. PICK asked \in {Transfers} \cup {{t} : t \in Transfers} :
            LET chosen == {t \in asked : row[t].status = INPROGRESS} IN
            \/ /\ stop' = [stop EXCEPT ![s] =
                    [chosen |-> chosen, answer |-> IF chosen = {} THEN "error" ELSE "success"]]
               /\ UNCHANGED faults
            \/ Fault /\ stop' = [stop EXCEPT ![s].answer = "error"]
      BY <2>1 DEF StopThread
    <3> DEFINE chosen == {t \in asked : row[t].status = INPROGRESS}
    <3>2. chosen \subseteq Transfers
      OBVIOUS
    <3>3. stop[s] \in [chosen : SUBSET Transfers, answer : {"none", "success", "error"}]
      BY DEF TransfersInv, TypeOK
    <3>4. [stop[s] EXCEPT !.answer = "error"] \in [chosen : SUBSET Transfers, answer : {"none", "success", "error"}]
      BY <3>3
    <3>5. [chosen |-> chosen, answer |-> IF chosen = {} THEN "error" ELSE "success"]
            \in [chosen : SUBSET Transfers, answer : {"none", "success", "error"}]
      BY <3>2
    <3> HIDE DEF chosen
    <3>6. \/ stop' = [stop EXCEPT ![s] =
                 [chosen |-> chosen, answer |-> IF chosen = {} THEN "error" ELSE "success"]]
          \/ stop' = [stop EXCEPT ![s].answer = "error"]
      BY <3>1 DEF chosen
    <3>7. faults' \in 0 .. MaxFaults
      BY <3>1, MaxFaultsAssumption DEF Fault, TransfersInv, TypeOK
    <3>8. stop' \in [Stops -> [chosen : SUBSET Transfers, answer : {"none", "success", "error"}]]
      BY <3>4, <3>5, <3>6 DEF TransfersInv, TypeOK
    <3>9. QED
      BY <2>1, <3>7, <3>8 DEF StopThread, TransfersInv, TypeOK
  <2>2. CASE \E s \in Stops : StopThread(s)
    BY <1>1, <2>1, <2>2 DEF TransfersInv, TypeOK
  <2>3. CASE SelectFiles
    BY <2>3 DEF SelectFiles, TransfersInv, TypeOK
  <2>4. CASE Restart
    BY <2>4 DEF Restart, TransfersInv, TypeOK
  <2>5. CASE UNCHANGED vars
    BY <2>5 DEF vars, TransfersInv, TypeOK
  <2>6. QED
    BY <2>2, <2>3, <2>4, <2>5
<1>4. QED
  BY <1>1, <1>2, <1>3 DEF TransfersInv

-----------------------------------------------------------------------------
(* The theorems *)

\* Every step keeps the invariant, and every row that carries a message.
LEMMA TransfersStep ==
  ASSUME TransfersInv, [Next]_vars
  PROVE  TransfersInv' /\ \A u \in Transfers : row[u].error => row'[u] = row[u]
<1>1. ASSUME NEW t \in Transfers, TransferFile(t)
      PROVE  TransfersInv' /\ \A u \in Transfers : row[u].error => row'[u] = row[u]
  <2>1. \A u \in Transfers \ {t} : row'[u] = row[u]
    BY <1>1 DEF TransferFile, UpdateDatabaseRecord, TransfersInv, TypeOK
  <2>2. QED
    BY <1>1, <2>1, TransferFileStep
<1>2. ASSUME NEW t \in Transfers, Launch(t) \/ WaitThread(t) \/ Copy(t) \/ Remove(t)
      PROVE  TransfersInv' /\ row' = row
  BY <1>2, LaunchStep, WaitThreadStep, CopyStep, RemoveStep
<1>3. ASSUME NEW t \in Transfers, SaveStatus(t)
      PROVE  TransfersInv' /\ \A u \in Transfers : row[u].error => row'[u] = row[u]
  <2>1. CASE Uncaught(t)
    BY <1>3, <2>1, EndStep DEF SaveStatus, Uncaught
  <2>2. CASE ~Uncaught(t)
    <3>1. PICK pc \in {"remove", "done"} :
            /\ pc = "done" => Kind(t).op # "move"
            /\ thread' = [thread EXCEPT ![t].pc = pc]
      BY <1>3, <2>2 DEF SaveStatus
    <3>2. /\ thread[t].pc = "save"
          /\ UpdateStatus(t, IF thread[t].said THEN FAILED ELSE COMPLETED, thread[t].said)
          /\ UNCHANGED <<file, req, stop, todo, up, faults>>
      BY <1>3, <2>2 DEF SaveStatus
    <3>3. QED
      BY <3>1, <3>2, SaveStatusStep
  <2>3. QED
    BY <2>1, <2>2
<1>4. ASSUME NEW t \in Transfers, RemoveFailed(t)
      PROVE  TransfersInv' /\ \A u \in Transfers : row[u].error => row'[u] = row[u]
  <2>1. CASE Uncaught(t)
    BY <1>4, <2>1, EndStep DEF RemoveFailed, Uncaught
  <2>2. CASE ~Uncaught(t)
    BY <1>4, <2>2, RemoveFailedStep DEF RemoveFailed
  <2>3. QED
    BY <2>1, <2>2
<1>5. CASE Crash
  BY <1>5, EndStep DEF Crash
<1>6. CASE (\E s \in Stops : StopThread(s)) \/ SelectFiles \/ Restart \/ UNCHANGED vars
  BY <1>6, OtherStep
<1>7. QED
  BY <1>1, <1>2, <1>3, <1>4, <1>5, <1>6, FinalizeTransferStep, CheckFileStep DEF Next, MonitorStep

\* The table, the files, the requests and the threads keep their types.
THEOREM TransfersTypeCorrect == Spec => []TypeOK
<1>1. TransfersInv => TypeOK
  BY DEF TransfersInv
<1>2. QED
  BY <1>1, TransfersInvInit, TransfersStep, PTL DEF Spec

\* A transfer said to be completed has ended with nothing said: neither the
\* monitor nor a thread, a client or a crash makes such a row of another.
THEOREM CompletedOnlyIfSilent == Spec => []CompletedIsTrue
<1>1. TransfersInv => CompletedIsTrue
  BY DEF TransfersInv, AllSound, Sound, CompletedIsTrue
<1>2. QED
  BY <1>1, TransfersInvInit, TransfersStep, PTL DEF Spec

\* cp and mv answer success only when the thread is over, said nothing and, for
\* a move, has removed the source.
THEOREM SuccessIsTrue == Spec => []AnswerIsTrue
<1>1. TransfersInv => AnswerIsTrue
  BY DEF TransfersInv, AllSound, Sound, AnswerIsTrue, Kind
<1>2. QED
  BY <1>1, TransfersInvInit, TransfersStep, PTL DEF Spec

\* Whoever writes a row that carries a message writes what it held.
THEOREM ErrorStays == Spec => ErrorIsFinal
<1>1. TransfersInv /\ [Next]_vars => [\A t \in Transfers : row[t].error => row'[t] = row[t]]_row
  BY TransfersStep
<1>2. QED
  BY <1>1, TransfersInvInit, TransfersStep, PTL DEF Spec, ErrorIsFinal
=============================================================================
