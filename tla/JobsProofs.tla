------------------------------- MODULE JobsProofs -------------------------------
(***************************************************************************)
(* Proofs about Jobs, for any jobs, requests, users, sessions and faults.  *)
(*                                                                         *)
(* The submission of a job saves its row last, so that nobody else touches *)
(* the row before; the other requests and the monitor work on rows they    *)
(* selected earlier.  JobsInv says what they still know of these rows: the *)
(* monitor and a request for output never hold the same one, and without a *)
(* fault a row that a request has handled is that of a job that has ended. *)
(***************************************************************************)
EXTENDS Jobs, TLAPS

\* Those who work on rows that they have selected.
Holders == Cancels \cup Outputs \cup {Monitor}

\* A row is saved at the end of its submission.
SubmissionSound(j) ==
  /\ job[j].saved => proc[j].pc = "done"
  /\ proc[j].pc = "record" /\ proc[j].seen >= COMPLETED => ~Alive(j)
  /\ proc[j].pc = "fail" => faults > 0

HolderSound(p) ==
  /\ \A j \in proc[p].todo : job[j].saved
  /\ proc[p].pc = "update" => proc[p].cur \in proc[p].todo

MonitorSound ==
  /\ \A j \in proc[Monitor].todo : job[j].status < COMPLETED \/ job[j].status = CANCELLED
  /\ proc[Monitor].pc = "update" /\ proc[Monitor].seen >= COMPLETED => ~Alive(proc[Monitor].cur)

OutputSound(o) ==
  \A j \in proc[o].todo :
    /\ job[j].status \in {COMPLETED, CANCELLED, DOWNLOADED}
    /\ faults = 0 => ~Alive(j)

\* The jobs that a request to cancel has handled have ended, when nothing failed.
CancelSound(c) ==
  /\ proc[c].pc = "idle" => proc[c].all = {} /\ proc[c].todo = {}
  /\ proc[c].pc # "done" => proc[c].result = "none"
  /\ proc[c].todo \subseteq proc[c].all
  /\ proc[c].result = "success" => proc[c].todo = {}
  /\ \A j \in proc[c].all :
       /\ job[j].saved
       /\ Admin(c) \/ User[job[j].session] = User[proc[c].session]
       /\ faults = 0 /\ proc[c].result # "error" /\ j \notin proc[c].todo => ~Alive(j)
  /\ faults = 0 /\ proc[c].result # "error" /\ proc[c].pc = "update" => ~Alive(proc[c].cur)

\* The monitor and a request for output never hold the same row.
Disjoint == \A o \in Outputs : proc[o].todo \cap proc[Monitor].todo = {}

Sound(p) ==
  /\ p \in Jobs => SubmissionSound(p)
  /\ p \in Holders => HolderSound(p)
  /\ p = Monitor => MonitorSound
  /\ p \in Outputs => OutputSound(p)
  /\ p \in Cancels => CancelSound(p)

JobsInv == TypeOK /\ EndedIsTrue /\ Disjoint /\ \A p \in Procs : Sound(p)

-----------------------------------------------------------------------------
(* What a step does to the processes *)

OthersStay(p) == \A q \in Procs \ {p} : proc'[q] = proc[q]

LEMMA Names ==
  /\ None \notin Jobs /\ All \notin Jobs /\ None # All
  /\ Monitor \in Procs /\ Jobs \subseteq Procs /\ Holders \subseteq Procs
  /\ \A p \in Holders : p \notin Jobs
  /\ \A c \in Cancels : c # Monitor /\ c \notin Outputs
  /\ \A o \in Outputs : o # Monitor
  /\ Cancels \subseteq Holders /\ Outputs \subseteq Holders /\ Monitor \in Holders
BY KeywordsAssumption, NamesAssumption DEF Procs, Holders

LEMMA ProcTypes ==
  ASSUME TypeOK, NEW p \in Procs
  PROVE  /\ proc[p] \in Process
         /\ proc[p].todo \subseteq Jobs /\ proc[p].all \subseteq Jobs
         /\ proc[p].seen \in UNREACHABLE .. FAILED
BY DEF TypeOK, Process

LEMMA JobTypes ==
  ASSUME TypeOK, NEW j \in Jobs
  PROVE  /\ job[j] \in Row /\ job[j].saved \in BOOLEAN
         /\ job[j].status \in UNREACHABLE .. FAILED
BY DEF TypeOK, Row

LEMMA GotoFacts ==
  ASSUME TypeOK, NEW p \in Procs, NEW pc \in PC, Goto(p, pc)
  PROVE  /\ proc' \in [Procs -> Process] /\ OthersStay(p)
         /\ proc'[p] = [proc[p] EXCEPT !.pc = pc]
         /\ proc'[p].pc = pc /\ proc'[p].todo = proc[p].todo /\ proc'[p].all = proc[p].all
         /\ proc'[p].session = proc[p].session /\ proc'[p].result = proc[p].result
         /\ proc'[p].seen = proc[p].seen /\ proc'[p].cur = proc[p].cur
<1>1. proc[p] \in Process
  BY DEF TypeOK
<1>2. [proc[p] EXCEPT !.pc = pc] \in Process
  BY <1>1 DEF Process
<1>3. proc'[p] = [proc[p] EXCEPT !.pc = pc] /\ OthersStay(p) /\ proc' \in [Procs -> Process]
  BY <1>2 DEF Goto, TypeOK, OthersStay
<1>4. QED
  BY <1>1, <1>3 DEF Process

LEMMA ReplyFacts ==
  ASSUME TypeOK, NEW p \in Procs, NEW result \in {"none", "success", "error"}, Reply(p, result)
  PROVE  /\ proc' \in [Procs -> Process] /\ OthersStay(p)
         /\ proc'[p].pc = "done" /\ proc'[p].result = result /\ proc'[p].todo = {}
         /\ proc'[p].all = proc[p].all /\ proc'[p].session = proc[p].session
<1> DEFINE new == [proc[p] EXCEPT !.pc = "done", !.result = result, !.todo = {}, !.cur = None,
                                  !.seen = UNDEFINED]
<1>1. proc[p] \in Process
  BY DEF TypeOK
<1>2. new \in Process
  <2>1. UNDEFINED \in UNREACHABLE .. FAILED
    BY DEF UNDEFINED, UNREACHABLE, FAILED
  <2>2. {} \in SUBSET Jobs
    OBVIOUS
  <2>3. QED
    BY <1>1, <2>1, <2>2 DEF Process, PC
<1>3. /\ new.pc = "done" /\ new.result = result /\ new.todo = {}
      /\ new.all = proc[p].all /\ new.session = proc[p].session
  BY <1>1 DEF Process
<1>4. proc' = [proc EXCEPT ![p] = new]
  BY DEF Reply
<1> HIDE DEF new
<1>5. proc'[p] = new /\ OthersStay(p) /\ proc' \in [Procs -> Process]
  BY <1>2, <1>4 DEF TypeOK, OthersStay
<1>6. QED
  BY <1>3, <1>5

LEMMA HandledFacts ==
  ASSUME TypeOK, NEW p \in Procs, NEW j \in Jobs, Handled(p, j)
  PROVE  /\ proc' \in [Procs -> Process] /\ OthersStay(p)
         /\ proc'[p].pc = "next" /\ proc'[p].todo = proc[p].todo \ {j}
         /\ proc'[p].all = proc[p].all /\ proc'[p].session = proc[p].session
         /\ proc'[p].result = proc[p].result
<1> DEFINE new == [proc[p] EXCEPT !.pc = "next", !.todo = @ \ {j}, !.cur = None, !.seen = UNDEFINED]
<1>1. proc[p] \in Process
  BY DEF TypeOK
<1>2. new \in Process
  <2>1. UNDEFINED \in UNREACHABLE .. FAILED
    BY DEF UNDEFINED, UNREACHABLE, FAILED
  <2>2. proc[p].todo \ {j} \in SUBSET Jobs
    BY <1>1 DEF Process
  <2>3. QED
    BY <1>1, <2>1, <2>2 DEF Process, PC
<1>3. /\ new.pc = "next" /\ new.todo = proc[p].todo \ {j} /\ new.result = proc[p].result
      /\ new.all = proc[p].all /\ new.session = proc[p].session
  BY <1>1 DEF Process
<1>4. proc' = [proc EXCEPT ![p] = new]
  BY DEF Handled
<1> HIDE DEF new
<1>5. proc'[p] = new /\ OthersStay(p) /\ proc' \in [Procs -> Process]
  BY <1>2, <1>4 DEF TypeOK, OthersStay
<1>6. QED
  BY <1>3, <1>5

\* The monitor or a cancellation moves to the update of row j.
Held(p, j, seen) ==
  proc' = [proc EXCEPT ![p] = [proc[p] EXCEPT !.pc = "update", !.cur = j, !.seen = seen]]

LEMMA HeldFacts ==
  ASSUME TypeOK, NEW p \in Procs, NEW j \in Jobs, NEW seen \in UNREACHABLE .. FAILED,
         Held(p, j, seen)
  PROVE  /\ proc' \in [Procs -> Process] /\ OthersStay(p)
         /\ proc'[p].pc = "update" /\ proc'[p].cur = j /\ proc'[p].seen = seen
         /\ proc'[p].todo = proc[p].todo /\ proc'[p].all = proc[p].all
         /\ proc'[p].session = proc[p].session /\ proc'[p].result = proc[p].result
<1>1. proc[p] \in Process
  BY DEF TypeOK
<1> DEFINE new == [proc[p] EXCEPT !.pc = "update", !.cur = j, !.seen = seen]
<1>2. new \in Process
  BY <1>1 DEF Process, PC
<1>3. /\ new.pc = "update" /\ new.cur = j /\ new.seen = seen
      /\ new.todo = proc[p].todo /\ new.all = proc[p].all
      /\ new.session = proc[p].session /\ new.result = proc[p].result
  BY <1>1 DEF Process
<1> HIDE DEF new
<1>4. proc'[p] = new /\ OthersStay(p) /\ proc' \in [Procs -> Process]
  BY <1>2 DEF TypeOK, OthersStay, new, Held
<1>5. QED
  BY <1>3, <1>4

LEMMA FaultType ==
  ASSUME TypeOK, NEW kind, faults' = faults \/ Fault(kind)
  PROVE  faults' \in 0 .. MaxFaults /\ faults' >= faults /\ (faults' # faults => faults' > 0)
<1>1. faults \in 0 .. MaxFaults
  BY DEF TypeOK
<1>2. CASE faults' = faults
  BY <1>1, <1>2, MaxFaultsAssumption
<1>3. CASE faults < MaxFaults /\ faults' = faults + 1
  BY <1>1, <1>3, MaxFaultsAssumption
<1>4. QED
  BY <1>2, <1>3 DEF Fault

LEMMA JobsInvInit == Init => JobsInv
<1> SUFFICES ASSUME Init PROVE JobsInv
  OBVIOUS
<1>1. TypeOK
  <2>1. job \in [Jobs -> Row]
    BY DEF Init, Row, UNDEFINED, UNREACHABLE, FAILED
  <2>2. ASSUME NEW p \in Procs
        PROVE  proc[p] \in Process
    <3>1. UNDEFINED \in UNREACHABLE .. FAILED
      BY DEF UNDEFINED, UNREACHABLE, FAILED
    <3>2. {} \in SUBSET Jobs
      OBVIOUS
    <3>3. proc[p] = [pc |-> IF p = Monitor THEN "select" ELSE "idle", session |-> None, todo |-> {},
                     all |-> {}, seen |-> UNDEFINED, cur |-> None, result |-> "none"]
      BY DEF Init
    <3>4. QED
      BY <3>1, <3>2, <3>3 DEF Process, PC
  <2>3. proc \in [Procs -> Process]
    BY <2>2 DEF Init
  <2>4. faults \in 0 .. MaxFaults /\ batch \in [Jobs -> {"none", "alive", "ended", "killed"}]
    BY MaxFaultsAssumption DEF Init
  <2>5. QED
    BY <2>1, <2>3, <2>4 DEF TypeOK
<1>2. /\ \A p \in Procs : /\ proc[p].todo = {} /\ proc[p].all = {} /\ proc[p].result = "none"
                         /\ proc[p].pc \in {"idle", "select"}
      /\ \A j \in Jobs : job[j].saved = FALSE
  BY DEF Init
<1>3. ASSUME NEW p \in Procs
      PROVE  Sound(p)
  <2>1. (p \in Jobs => SubmissionSound(p)) /\ HolderSound(p)
    BY <1>2 DEF SubmissionSound, HolderSound
  <2>2. (p = Monitor => MonitorSound) /\ OutputSound(p) /\ (p \in Cancels => CancelSound(p))
    BY <1>2 DEF MonitorSound, OutputSound, CancelSound
  <2>3. QED
    BY <2>1, <2>2 DEF Sound
<1>4. EndedIsTrue /\ Disjoint
  BY <1>2, Names DEF EndedIsTrue, Disjoint
<1>5. QED
  BY <1>1, <1>3, <1>4 DEF JobsInv

-----------------------------------------------------------------------------
(* What a step of process p does to the rest *)

RowFrame(j) ==
  /\ job'[j].saved = job[j].saved /\ job'[j].session = job[j].session
  /\ ~Alive(j) => batch'[j] # "alive"
  /\ \/ job'[j].status = job[j].status
     \/ /\ faults' = 0 /\ job'[j].status >= COMPLETED => batch'[j] # "alive"
        /\ \/ job'[j].status = CANCELLED
           \/ /\ j \notin proc'[Monitor].todo
              /\ job'[j].status = DOWNLOADED \/ \A o \in Outputs : j \notin proc'[o].todo

\* Only the submission of a job saves its row.
OwnRow(p) ==
  p \in Jobs =>
    /\ ~job[p].saved
    /\ faults' = 0 /\ job'[p].saved /\ job'[p].status >= COMPLETED => batch'[p] # "alive"

Frame(p) ==
  /\ job' \in [Jobs -> Row] /\ batch' \in [Jobs -> {"none", "alive", "ended", "killed"}]
  /\ proc' \in [Procs -> Process] /\ OthersStay(p)
  /\ faults' \in 0 .. MaxFaults /\ (faults' # faults => faults' > 0)
  /\ \A j \in Jobs \ {p} : RowFrame(j)
  /\ OwnRow(p)

\* What is known of the other processes stays true.
LEMMA FrameStep ==
  ASSUME JobsInv, NEW p \in Procs, Frame(p), Sound(p)',
         p \in Outputs \cup {Monitor} => Disjoint'
  PROVE  JobsInv'
<1>1. ASSUME NEW q \in Procs, q # p
      PROVE  Sound(q)'
  <2>1. proc'[q] = proc[q] /\ Sound(q)
    BY <1>1 DEF Frame, OthersStay, JobsInv
  <2>2. ASSUME NEW j \in Jobs, job[j].saved
        PROVE  RowFrame(j)
    <3>1. j # p
      <4>1. OwnRow(p)
        BY DEF Frame
      <4>2. SUFFICES ASSUME j = p PROVE FALSE
        OBVIOUS
      <4>3. QED
        BY <2>2, <4>1, <4>2 DEF OwnRow
    <3>2. QED
      BY <3>1 DEF Frame
  <2>3. proc[q].todo \subseteq Jobs /\ proc[q].all \subseteq Jobs
    BY ProcTypes DEF JobsInv
  <2>4. faults' \in 0 .. MaxFaults /\ (faults' # faults => faults' > 0) /\ faults \in 0 .. MaxFaults
    BY DEF Frame, JobsInv, TypeOK
  <2>5. q \in Jobs => SubmissionSound(q)'
    <3>1. CASE q \in Jobs
      <4>1. RowFrame(q)
        BY <1>1, <3>1 DEF Frame
      <4>2. SubmissionSound(q)
        BY <2>1, <3>1 DEF Sound
      <4>3. QED
        BY <2>1, <2>4, <4>1, <4>2, MaxFaultsAssumption DEF SubmissionSound, RowFrame, Alive
    <3>2. QED
      BY <3>1
  <2>6. q \in Holders => HolderSound(q)'
    BY <2>1, <2>2, <2>3 DEF Sound, HolderSound, RowFrame
  <2>7. q = Monitor => MonitorSound'
    <3>1. CASE q = Monitor
      <4>1. MonitorSound /\ HolderSound(Monitor)
        BY <2>1, <3>1, Names DEF Sound
      <4>2. \A j \in proc[Monitor].todo : RowFrame(j) /\ j \in proc'[Monitor].todo
        BY <2>1, <2>2, <2>3, <3>1, <4>1 DEF HolderSound
      <4>3. \A j \in proc'[Monitor].todo : job'[j].status < COMPLETED \/ job'[j].status = CANCELLED
        BY <2>1, <3>1, <4>1, <4>2 DEF MonitorSound, RowFrame
      <4>4. proc'[Monitor].pc = "update" /\ proc'[Monitor].seen >= COMPLETED =>
              batch'[proc'[Monitor].cur] # "alive"
        BY <2>1, <3>1, <4>1, <4>2 DEF MonitorSound, HolderSound, RowFrame, Alive
      <4>5. QED
        BY <4>3, <4>4 DEF MonitorSound, Alive
    <3>2. QED
      BY <3>1
  <2>8. q \in Outputs => OutputSound(q)'
    <3>1. CASE q \in Outputs
      <4>1. OutputSound(q) /\ HolderSound(q)
        BY <2>1, <3>1, Names DEF Sound
      <4>2. ASSUME NEW j \in proc'[q].todo
            PROVE  /\ job'[j].status \in {COMPLETED, CANCELLED, DOWNLOADED}
                   /\ faults' = 0 => ~Alive(j)'
        <5>1. RowFrame(j) /\ j \in proc[q].todo /\ j \in Jobs
          BY <2>1, <2>2, <2>3, <4>1, <4>2 DEF HolderSound
        <5>2. job[j].status \in {COMPLETED, CANCELLED, DOWNLOADED} /\ (faults = 0 => ~Alive(j))
          BY <4>1, <5>1 DEF OutputSound
        <5>3. faults' = 0 => faults = 0
          BY <2>4
        <5>4. QED
          BY <2>1, <3>1, <5>1, <5>2, <5>3 DEF RowFrame, Alive
      <4>3. QED
        BY <4>2 DEF OutputSound
    <3>2. QED
      BY <3>1
  <2>9. q \in Cancels => CancelSound(q)'
    <3>1. CASE q \in Cancels
      <4>1. CancelSound(q) /\ HolderSound(q)
        BY <2>1, <3>1, Names DEF Sound
      <4>2. \A j \in proc[q].all : RowFrame(j)
        BY <2>2, <2>3, <4>1 DEF CancelSound
      <4>3. faults' = 0 => faults = 0
        BY <2>4
      <4>4. proc[q].pc = "update" => RowFrame(proc[q].cur)
        BY <4>1, <4>2 DEF CancelSound, HolderSound
      <4>5. QED
        BY <2>1, <4>1, <4>2, <4>3, <4>4 DEF CancelSound, RowFrame, Alive, Admin
    <3>2. QED
      BY <3>1
  <2>10. QED
    BY <2>5, <2>6, <2>7, <2>8, <2>9 DEF Sound
<1>2. EndedIsTrue'
  <2>1. faults' = 0 => faults = 0
    BY DEF Frame, JobsInv, TypeOK
  <2>2. ASSUME NEW j \in Jobs, faults' = 0, job'[j].saved, job'[j].status >= COMPLETED
        PROVE  ~Alive(j)'
    <3>1. CASE j = p
      <4>1. OwnRow(p)
        BY DEF Frame
      <4>2. batch'[p] # "alive"
        BY <2>2, <3>1, <4>1 DEF OwnRow
      <4>3. QED
        BY <3>1, <4>2 DEF Alive
    <3>2. CASE j # p
      <4>1. RowFrame(j)
        BY <3>2 DEF Frame
      <4>2. job[j].saved /\ job[j].status >= COMPLETED => ~Alive(j)
        BY <2>1, <2>2 DEF JobsInv, EndedIsTrue
      <4>3. QED
        BY <2>2, <4>1, <4>2 DEF RowFrame, Alive
    <3>3. QED
      BY <3>1, <3>2
  <2>3. QED
    BY <2>2 DEF EndedIsTrue
<1>3. Disjoint'
  <2>1. CASE p \notin Outputs \cup {Monitor}
    <3>1. OthersStay(p) /\ Disjoint
      BY DEF Frame, JobsInv
    <3>2. proc'[Monitor] = proc[Monitor] /\ \A o \in Outputs : proc'[o] = proc[o]
      BY <2>1, <3>1 DEF OthersStay, Procs
    <3>3. QED
      BY <3>1, <3>2 DEF Disjoint
  <2>2. QED
    BY <2>1
<1>4. QED
  BY <1>1, <1>2, <1>3 DEF JobsInv, Frame, TypeOK

\* A step that submits job j.
LEMMA JobStep ==
  ASSUME JobsInv, NEW j \in Jobs, proc[j].pc # "done",
         job' \in [Jobs -> Row], batch' \in [Jobs -> {"none", "alive", "ended", "killed"}],
         proc' \in [Procs -> Process], OthersStay(j),
         faults' \in 0 .. MaxFaults, faults' # faults => faults' > 0,
         \A i \in Jobs \ {j} : job'[i] = job[i] /\ batch'[i] = batch[i],
         faults' = 0 /\ job'[j].saved /\ job'[j].status >= COMPLETED => batch'[j] # "alive",
         SubmissionSound(j)'
  PROVE  JobsInv'
<1>1. j \in Procs /\ j \notin Holders
  BY Names
<1>2. Sound(j) /\ ~job[j].saved
  BY <1>1 DEF JobsInv, Sound, SubmissionSound
<1>3. \A i \in Jobs \ {j} : RowFrame(i)
  BY DEF RowFrame, Alive
<1>4. Frame(j)
  BY <1>2, <1>3 DEF Frame, OwnRow
<1>5. Sound(j)' /\ j \notin Outputs \cup {Monitor}
  BY <1>1 DEF Sound, Holders
<1>6. QED
  BY <1>1, <1>4, <1>5, FrameStep

\* A step of a holder that changes no row and no job of the scheduler.
LEMMA HolderStep ==
  ASSUME JobsInv, NEW p \in Holders, UNCHANGED <<job, batch>>,
         proc' \in [Procs -> Process], OthersStay(p),
         faults' \in 0 .. MaxFaults, faults' # faults => faults' > 0,
         HolderSound(p)', p = Monitor => MonitorSound',
         p \in Outputs => OutputSound(p)', p \in Cancels => CancelSound(p)',
         p \in Outputs \cup {Monitor} => Disjoint'
  PROVE  JobsInv'
<1>1. p \in Procs /\ p \notin Jobs
  BY Names
<1>2. \A j \in Jobs : RowFrame(j)
  BY DEF RowFrame, Alive
<1>3. Frame(p)
  BY <1>1, <1>2 DEF Frame, OwnRow, JobsInv, TypeOK
<1>4. Sound(p)'
  BY <1>1 DEF Sound
<1>5. QED
  BY <1>1, <1>3, <1>4, FrameStep

\* A request ends with an error, or with success and nothing left to do.
LEMMA ReplyStep ==
  ASSUME JobsInv, NEW p \in Cancels \cup Outputs, NEW result \in {"success", "error"},
         result = "success" => proc[p].todo = {},
         proc[p].pc # "done",
         Reply(p, result), UNCHANGED <<job, batch>>, NEW kind, faults' = faults \/ Fault(kind)
  PROVE  JobsInv'
<1>1. p \in Holders /\ p \in Procs /\ p # Monitor /\ Monitor \in Procs
  BY Names DEF Holders
<1>2. /\ proc' \in [Procs -> Process] /\ OthersStay(p)
      /\ proc'[p].pc = "done" /\ proc'[p].result = result /\ proc'[p].todo = {}
      /\ proc'[p].all = proc[p].all /\ proc'[p].session = proc[p].session
  BY <1>1, ReplyFacts DEF JobsInv
<1>3. faults' \in 0 .. MaxFaults /\ (faults' # faults => faults' > 0) /\ (faults' = 0 => faults = 0)
  BY FaultType DEF JobsInv, TypeOK
<1>4. HolderSound(p)' /\ OutputSound(p)'
  BY <1>2 DEF HolderSound, OutputSound
<1>5. p \in Cancels => CancelSound(p)'
  <2>1. p \in Cancels => CancelSound(p)
    BY <1>1 DEF JobsInv, Sound
  <2>2. QED
    BY <1>2, <1>3, <2>1 DEF CancelSound, Alive, Admin
<1>6. Disjoint'
  <2>1. proc'[Monitor] = proc[Monitor] /\ \A o \in Outputs : proc'[o] = proc[o] \/ proc'[o].todo = {}
    BY <1>1, <1>2 DEF OthersStay, Procs
  <2>2. QED
    BY <2>1 DEF JobsInv, Disjoint
<1>7. QED
  BY <1>1, <1>2, <1>3, <1>4, <1>5, <1>6, HolderStep

-----------------------------------------------------------------------------
(* submitJob *)

LEMMA ReserveStep ==
  ASSUME JobsInv, NEW j \in Jobs, Reserve(j)
  PROVE  JobsInv'
<1>1. PICK s \in Sessions, pc \in {"done", "submit"}, result \in {"none", "error"} :
        proc' = [proc EXCEPT ![j].pc = pc, ![j].result = result, ![j].session = s]
  BY DEF Reserve
<1> DEFINE new == [proc[j] EXCEPT !.pc = pc, !.result = result, !.session = s]
<1>2. proc[j] \in Process /\ j \in Procs
  BY Names DEF JobsInv, TypeOK
<1>3. new \in Process /\ new.pc = pc
  BY <1>2 DEF Process, PC
<1>4. proc' = [proc EXCEPT ![j] = new]
  BY <1>1
<1> HIDE DEF new
<1>5. proc' \in [Procs -> Process] /\ proc'[j].pc = pc /\ OthersStay(j)
  BY <1>2, <1>3, <1>4 DEF JobsInv, TypeOK, OthersStay
<1>6. proc[j].pc = "idle" /\ UNCHANGED <<job, batch, faults>>
  BY DEF Reserve
<1>7. ~job[j].saved
  BY <1>2, <1>6 DEF JobsInv, Sound, SubmissionSound
<1>8. SubmissionSound(j)'
  BY <1>5, <1>6, <1>7 DEF SubmissionSound
<1>9. QED
  BY <1>5, <1>6, <1>7, <1>8, JobStep DEF JobsInv, TypeOK

LEMMA SubmitStep ==
  ASSUME JobsInv, NEW j \in Jobs, Submit(j)
  PROVE  JobsInv'
<1>1. proc[j].pc = "submit" /\ job' = job /\ j \in Procs /\ TypeOK
  BY Names DEF Submit, JobsInv
<1>2. ~job[j].saved /\ ~job'[j].saved
  BY <1>1 DEF JobsInv, Sound, SubmissionSound
<1>3. ASSUME NEW ended \in BOOLEAN,
             batch' = [batch EXCEPT ![j] = IF ended THEN "ended" ELSE "alive"],
             proc' = [proc EXCEPT ![j].pc = "record", ![j].seen = IF ended THEN COMPLETED ELSE QUEUED],
             UNCHANGED faults
      PROVE  JobsInv'
  <2> DEFINE seen == IF ended THEN COMPLETED ELSE QUEUED
             new == [proc[j] EXCEPT !.pc = "record", !.seen = seen]
  <2>1. seen \in UNREACHABLE .. FAILED /\ (seen >= COMPLETED => ended)
    BY DEF UNREACHABLE, FAILED, COMPLETED, QUEUED
  <2>2. proc[j] \in Process
    BY <1>1 DEF TypeOK
  <2> HIDE DEF seen
  <2>3. new \in Process /\ new.pc = "record" /\ new.seen = seen
    BY <2>1, <2>2 DEF Process, PC
  <2>4. proc' = [proc EXCEPT ![j] = new]
    BY <1>3 DEF seen
  <2> HIDE DEF new
  <2>5. /\ proc' \in [Procs -> Process] /\ OthersStay(j)
        /\ proc'[j].pc = "record" /\ proc'[j].seen = seen
    BY <1>1, <2>3, <2>4 DEF TypeOK, OthersStay
  <2>6. /\ batch' \in [Jobs -> {"none", "alive", "ended", "killed"}]
        /\ ended => batch'[j] = "ended"
        /\ \A i \in Jobs \ {j} : batch'[i] = batch[i]
    BY <1>1, <1>3 DEF TypeOK
  <2>7. SubmissionSound(j)'
    BY <1>2, <2>1, <2>5, <2>6 DEF SubmissionSound, Alive
  <2>8. QED
    BY <1>1, <1>2, <1>3, <2>5, <2>6, <2>7, JobStep DEF TypeOK
<1>4. ASSUME Fault("refused"), Goto(j, "fail"), UNCHANGED batch
      PROVE  JobsInv'
  <2>1. proc' \in [Procs -> Process] /\ OthersStay(j) /\ proc'[j].pc = "fail"
    BY <1>1, <1>4, GotoFacts DEF PC
  <2>2. faults' \in 0 .. MaxFaults /\ faults' > 0
    BY <1>1, <1>4, MaxFaultsAssumption DEF TypeOK, Fault
  <2>3. SubmissionSound(j)'
    BY <1>2, <2>1, <2>2 DEF SubmissionSound
  <2>4. QED
    BY <1>1, <1>2, <1>4, <2>1, <2>2, <2>3, JobStep DEF TypeOK
<1>5. ASSUME Fault("fork"), Reply(j, "success"), UNCHANGED batch
      PROVE  JobsInv'
  <2>1. proc' \in [Procs -> Process] /\ OthersStay(j) /\ proc'[j].pc = "done"
    BY <1>1, <1>5, ReplyFacts
  <2>2. faults' \in 0 .. MaxFaults /\ faults' > 0
    BY <1>1, <1>5, MaxFaultsAssumption DEF TypeOK, Fault
  <2>3. SubmissionSound(j)'
    BY <1>2, <2>1, <2>2 DEF SubmissionSound
  <2>4. QED
    BY <1>1, <1>2, <1>5, <2>1, <2>2, <2>3, JobStep DEF TypeOK
<1>6. QED
  BY <1>3, <1>4, <1>5 DEF Submit

\* The row is saved with what the scheduler answered, or with a failure.
LEMMA RecordStep ==
  ASSUME JobsInv, NEW j \in Jobs, Record(j) \/ RecordFailure(j)
  PROVE  JobsInv'
<1>1. proc[j].pc \in {"record", "fail"} /\ batch' = batch /\ j \in Procs /\ TypeOK
  BY Names DEF Record, RecordFailure, JobsInv
<1>2. SubmissionSound(j) /\ ~job[j].saved
  BY <1>1 DEF JobsInv, Sound, SubmissionSound
<1>3. ASSUME NEW status \in UNREACHABLE .. FAILED, Save(j, status) \/ UNCHANGED job,
             NEW result \in {"success", "error"}, Reply(j, result),
             NEW kind, faults' = faults \/ Fault(kind),
             faults' = 0 /\ status >= COMPLETED => ~Alive(j)
      PROVE  JobsInv'
  <2>1. proc' \in [Procs -> Process] /\ OthersStay(j) /\ proc'[j].pc = "done"
    BY <1>1, <1>3, ReplyFacts
  <2> DEFINE new == [saved |-> TRUE, status |-> status, session |-> proc[j].session]
  <2>2. new \in Row /\ new.saved = TRUE /\ new.status = status
    <3>1. proc[j] \in Process
      BY <1>1 DEF TypeOK
    <3>2. QED
      BY <3>1 DEF Row, Process
  <2>3. job' = [job EXCEPT ![j] = new] \/ job' = job
    BY <1>3 DEF Save
  <2> HIDE DEF new
  <2>4. /\ job' \in [Jobs -> Row] /\ \A i \in Jobs \ {j} : job'[i] = job[i]
        /\ job'[j] = new \/ job'[j] = job[j]
    BY <1>1, <2>2, <2>3 DEF TypeOK
  <2>5. faults' \in 0 .. MaxFaults /\ (faults' # faults => faults' > 0)
    BY <1>1, <1>3, FaultType
  <2>6. faults' = 0 /\ job'[j].saved /\ job'[j].status >= COMPLETED => batch'[j] # "alive"
    BY <1>1, <1>2, <1>3, <2>2, <2>4 DEF Alive
  <2>7. SubmissionSound(j)'
    BY <2>1 DEF SubmissionSound
  <2>8. QED
    BY <1>1, <2>1, <2>4, <2>5, <2>6, <2>7, JobStep DEF TypeOK
<1>4. CASE Record(j) /\ Reply(j, "success")
  <2>1. proc[j].seen \in UNREACHABLE .. FAILED /\ proc[j].pc = "record"
    BY <1>1, <1>4, ProcTypes DEF Record
  <2>2. Save(j, proc[j].seen) /\ faults' = faults
    <3>1. CASE Goto(j, "fail")
      BY <1>1, <1>4, <3>1, GotoFacts, ReplyFacts DEF PC
    <3>2. QED
      BY <1>4, <3>1 DEF Record
  <2>3. proc[j].seen >= COMPLETED => ~Alive(j)
    BY <1>2, <2>1 DEF SubmissionSound
  <2>4. QED
    BY <1>3, <1>4, <2>1, <2>2, <2>3
<1>5. CASE Record(j) /\ Fault("database") /\ Goto(j, "fail") /\ UNCHANGED job
  <2>1. proc' \in [Procs -> Process] /\ OthersStay(j) /\ proc'[j].pc = "fail"
    BY <1>1, <1>5, GotoFacts DEF PC
  <2>2. faults' \in 0 .. MaxFaults /\ faults' > 0
    BY <1>1, <1>5, MaxFaultsAssumption DEF TypeOK, Fault
  <2>3. SubmissionSound(j)'
    BY <1>2, <1>5, <2>1, <2>2 DEF SubmissionSound
  <2>4. QED
    BY <1>1, <1>2, <1>5, <2>1, <2>2, <2>3, JobStep DEF TypeOK
<1>6. CASE RecordFailure(j)
  <2>1. FAILED \in UNREACHABLE .. FAILED
    BY DEF UNREACHABLE, FAILED
  <2>2. faults' = faults \/ Fault("database")
    BY <1>6 DEF RecordFailure
  <2>3. faults > 0
    BY <1>2, <1>6 DEF RecordFailure, SubmissionSound
  <2>4. ~(faults' = 0)
    BY <1>1, <2>2, <2>3, FaultType DEF TypeOK
  <2>5. QED
    BY <1>3, <1>6, <2>1, <2>2, <2>4 DEF RecordFailure
<1>7. QED
  BY <1>4, <1>5, <1>6 DEF Record

LEMMA CrashStep ==
  ASSUME JobsInv, NEW j \in Jobs, Crash(j)
  PROVE  JobsInv'
<1>1. proc[j].pc # "done" /\ UNCHANGED <<job, batch>> /\ j \in Procs /\ TypeOK
  BY Names DEF Crash, JobsInv
<1>2. ~job[j].saved
  BY <1>1 DEF JobsInv, Sound, SubmissionSound
<1>3. proc' \in [Procs -> Process] /\ OthersStay(j) /\ proc'[j].pc = "done"
  BY <1>1, GotoFacts DEF Crash, PC
<1>4. faults' \in 0 .. MaxFaults /\ (faults' # faults => faults' > 0)
  BY <1>1, FaultType DEF Crash
<1>5. SubmissionSound(j)'
  BY <1>3 DEF SubmissionSound
<1>6. QED
  BY <1>1, <1>2, <1>3, <1>4, <1>5, JobStep DEF TypeOK

-----------------------------------------------------------------------------
(* cancelJob *)

LEMMA CancelFacts ==
  ASSUME JobsInv, NEW c \in Cancels
  PROVE  /\ TypeOK /\ c \in Procs /\ c \in Holders /\ c # Monitor /\ c \notin Outputs /\ c \notin Jobs
         /\ CancelSound(c) /\ HolderSound(c)
BY Names DEF JobsInv, Sound

\* What Permitted and Cancellable let a caller select is his, or he may do it.
LEMMA SelectedByOwner ==
  ASSUME NEW s \in Sessions, NEW id \in Jobs \cup {None, All}, NEW user \in Users \cup {None, All},
         Permitted(s, id, user), NEW j \in Cancellable(s, id, user)
  PROVE  User[s] \in Admins \/ User[job[j].session] = User[s]
<1>1. SUFFICES ASSUME User[s] \notin Admins
               PROVE  User[job[j].session] = User[s]
  OBVIOUS
<1>2. user = None /\ (id = None \/ \E i \in Jobs : i = id /\ job[i].session = s)
  BY <1>1 DEF Permitted
<1>3. user # All
  BY <1>2, Names
<1>4. CASE id \in Jobs
  <2>1. j = id /\ id # None
    BY <1>3, <1>4, Names DEF Cancellable
  <2>2. QED
    BY <1>2, <2>1
<1>5. CASE id \notin Jobs
  BY <1>2, <1>3, <1>5 DEF Cancellable
<1>6. QED
  BY <1>4, <1>5

LEMMA CancelJobStep ==
  ASSUME JobsInv, NEW c \in Cancels, CancelJob(c)
  PROVE  JobsInv'
<1>1. /\ TypeOK /\ c \in Procs /\ c \in Holders /\ c # Monitor /\ c \notin Outputs
      /\ CancelSound(c) /\ proc[c].pc = "idle" /\ UNCHANGED <<job, batch, faults>>
  BY CancelFacts DEF CancelJob
<1>2. CASE Reply(c, "error")
  BY <1>1, <1>2, ReplyStep
<1>3. ASSUME NEW s \in Sessions, NEW id \in Jobs \cup {None, All}, NEW user \in Users \cup {None, All},
             Permitted(s, id, user),
             proc' = [proc EXCEPT ![c].pc = "next", ![c].session = s,
                                  ![c].todo = Cancellable(s, id, user),
                                  ![c].all = Cancellable(s, id, user)]
      PROVE  JobsInv'
  <2> DEFINE rows == Cancellable(s, id, user)
             new == [proc[c] EXCEPT !.pc = "next", !.session = s, !.todo = rows, !.all = rows]
  <2>1. rows \in SUBSET Jobs /\ \A j \in rows : job[j].saved
    BY DEF Cancellable
  <2>2. \A j \in rows : User[s] \in Admins \/ User[job[j].session] = User[s]
    BY <1>3, SelectedByOwner
  <2>3. proc' = [proc EXCEPT ![c] = new]
    BY <1>3
  <2> HIDE DEF rows
  <2>4. proc[c] \in Process /\ proc[c].result = "none"
    BY <1>1 DEF TypeOK, CancelSound
  <2>5. /\ new \in Process /\ new.pc = "next" /\ new.session = s /\ new.todo = rows /\ new.all = rows
        /\ new.result = "none"
    BY <2>1, <2>4 DEF Process, PC
  <2> HIDE DEF new
  <2>6. proc' \in [Procs -> Process] /\ OthersStay(c) /\ proc'[c] = new
    BY <1>1, <2>3, <2>5 DEF TypeOK, OthersStay
  <2>7. HolderSound(c)'
    BY <1>1, <2>1, <2>5, <2>6 DEF HolderSound
  <2>8. CancelSound(c)'
    BY <1>1, <2>1, <2>2, <2>5, <2>6 DEF CancelSound, Admin
  <2>9. QED
    BY <1>1, <2>6, <2>7, <2>8, HolderStep DEF TypeOK
<1>4. QED
  BY <1>2, <1>3 DEF CancelJob

LEMMA CancelBatchStep ==
  ASSUME JobsInv, NEW c \in Cancels, CancelBatch(c)
  PROVE  JobsInv'
<1>1. PICK j \in Jobs :
        /\ At(c, j) /\ job' = job
        /\ \/ /\ batch' = [batch EXCEPT ![j] = IF Alive(j) THEN "killed" ELSE @]
              /\ proc' = [proc EXCEPT ![c].pc = "update", ![c].cur = j]
              /\ UNCHANGED faults
           \/ ~Alive(j) /\ Reply(c, "error") /\ UNCHANGED <<batch, faults>>
           \/ Fault("refused") /\ Reply(c, "error") /\ UNCHANGED batch
           \/ /\ Fault("ignored")
              /\ proc' = [proc EXCEPT ![c].pc = "update", ![c].cur = j]
              /\ UNCHANGED batch
  BY DEF CancelBatch
<1>2. /\ TypeOK /\ c \in Procs /\ c \in Holders /\ c # Monitor /\ c \notin Outputs /\ c \notin Jobs
      /\ CancelSound(c) /\ HolderSound(c)
      /\ proc[c].pc = "next" /\ j \in proc[c].todo
  BY <1>1, CancelFacts DEF At
<1>3. CASE Reply(c, "error") /\ UNCHANGED batch /\ (faults' = faults \/ Fault("refused"))
  BY <1>1, <1>2, <1>3, ReplyStep
<1>4. CASE /\ proc' = [proc EXCEPT ![c].pc = "update", ![c].cur = j]
           /\ \/ /\ batch' = [batch EXCEPT ![j] = IF Alive(j) THEN "killed" ELSE @]
                 /\ UNCHANGED faults
              \/ Fault("ignored") /\ UNCHANGED batch
  <2>1. proc[c] \in Process /\ proc[c].seen \in UNREACHABLE .. FAILED
    BY <1>2, ProcTypes DEF TypeOK
  <2>2. Held(c, j, proc[c].seen)
    <3>1. [proc[c] EXCEPT !.pc = "update", !.cur = j] =
            [proc[c] EXCEPT !.pc = "update", !.cur = j, !.seen = proc[c].seen]
      BY <2>1 DEF Process
    <3>2. proc' = [proc EXCEPT ![c] = [proc[c] EXCEPT !.pc = "update", !.cur = j]]
      BY <1>4
    <3>3. QED
      BY <3>1, <3>2 DEF Held
  <2>3. /\ proc' \in [Procs -> Process] /\ OthersStay(c)
        /\ proc'[c].pc = "update" /\ proc'[c].cur = j
        /\ proc'[c].todo = proc[c].todo /\ proc'[c].all = proc[c].all
        /\ proc'[c].session = proc[c].session /\ proc'[c].result = proc[c].result
    BY <1>2, <2>1, <2>2, HeldFacts
  <2>4. /\ faults' \in 0 .. MaxFaults /\ (faults' # faults => faults' > 0)
        /\ faults' = 0 => faults' = faults
    <3>1. faults' = faults \/ Fault("ignored")
      BY <1>4
    <3>2. QED
      BY <1>2, <3>1, FaultType DEF TypeOK
  <2>5. faults' = 0 => batch'[j] # "alive"
    <3>1. CASE Fault("ignored")
      BY <1>2, <3>1, MaxFaultsAssumption DEF Fault, TypeOK
    <3>2. CASE batch' = [batch EXCEPT ![j] = IF Alive(j) THEN "killed" ELSE @]
      BY <1>2, <3>2 DEF Alive, TypeOK
    <3>3. QED
      BY <1>4, <3>1, <3>2
  <2>6. /\ batch' \in [Jobs -> {"none", "alive", "ended", "killed"}]
        /\ \A i \in Jobs : ~Alive(i) => batch'[i] # "alive"
    BY <1>2, <1>4 DEF TypeOK, Alive
  <2>7. HolderSound(c)'
    BY <1>1, <1>2, <2>3 DEF HolderSound
  <2>8. CancelSound(c)'
    <3>1. \A i \in proc[c].all : i \in Jobs
      BY <1>2, ProcTypes
    <3>2. QED
      BY <1>1, <1>2, <2>3, <2>4, <2>5, <2>6, <3>1 DEF CancelSound, Alive, Admin
  <2>9. \A i \in Jobs : RowFrame(i)
    BY <1>1, <2>6 DEF RowFrame
  <2>10. Frame(c)
    BY <1>1, <1>2, <2>3, <2>4, <2>6, <2>9 DEF Frame, OwnRow, TypeOK
  <2>11. Sound(c)'
    BY <1>2, <2>7, <2>8 DEF Sound
  <2>12. QED
    BY <1>2, <2>10, <2>11, FrameStep
<1>5. QED
  BY <1>1, <1>3, <1>4

LEMMA CancelUpdateStep ==
  ASSUME JobsInv, NEW c \in Cancels, CancelUpdate(c)
  PROVE  JobsInv'
<1> DEFINE j == proc[c].cur
<1>1. /\ TypeOK /\ c \in Procs /\ c \in Holders /\ c # Monitor /\ c \notin Outputs /\ c \notin Jobs
      /\ CancelSound(c) /\ HolderSound(c)
      /\ proc[c].pc = "update" /\ batch' = batch
  BY CancelFacts DEF CancelUpdate
<1>2. j \in proc[c].todo /\ j \in Jobs /\ proc[c].result = "none"
  BY <1>1, ProcTypes DEF HolderSound, CancelSound
<1>3. CASE Fault("database") /\ Reply(c, "error") /\ UNCHANGED job
  BY <1>1, <1>3, ReplyStep
<1>4. CASE job' = [job EXCEPT ![j].status = CANCELLED] /\ Handled(c, j) /\ UNCHANGED faults
  <2> HIDE DEF j
  <2>1. /\ proc' \in [Procs -> Process] /\ OthersStay(c)
        /\ proc'[c].pc = "next" /\ proc'[c].todo = proc[c].todo \ {j}
        /\ proc'[c].all = proc[c].all /\ proc'[c].session = proc[c].session
        /\ proc'[c].result = proc[c].result
    BY <1>1, <1>2, <1>4, HandledFacts
  <2>2. job[j] \in Row /\ [job[j] EXCEPT !.status = CANCELLED] \in Row
    BY <1>1, <1>2, JobTypes DEF Row, UNREACHABLE, CANCELLED, FAILED
  <2>3. /\ job' \in [Jobs -> Row] /\ job'[j] = [job[j] EXCEPT !.status = CANCELLED]
        /\ \A i \in Jobs \ {j} : job'[i] = job[i]
    BY <1>1, <1>2, <1>4, <2>2 DEF TypeOK
  <2>4. job'[j].saved = job[j].saved /\ job'[j].session = job[j].session /\ job'[j].status = CANCELLED
    BY <2>2, <2>3 DEF Row
  <2>5. faults = 0 => ~Alive(j)
    BY <1>1, <1>2 DEF CancelSound, j
  <2>6. \A i \in Jobs : RowFrame(i)
    BY <1>1, <1>4, <2>3, <2>4, <2>5 DEF RowFrame, Alive
  <2>7. Frame(c)
    BY <1>1, <1>4, <2>1, <2>3, <2>6 DEF Frame, OwnRow, TypeOK
  <2>8. HolderSound(c)'
    <3>1. \A i \in proc[c].todo : i \in Jobs
      BY <1>1, ProcTypes
    <3>2. QED
      BY <1>1, <2>1, <2>6, <3>1 DEF HolderSound, RowFrame
  <2>9. CancelSound(c)'
    <3>1. \A i \in proc[c].all : i \in Jobs
      BY <1>1, ProcTypes
    <3>2. QED
      BY <1>1, <1>2, <1>4, <2>1, <2>5, <2>6, <3>1 DEF CancelSound, RowFrame, Alive, Admin
  <2>10. Sound(c)'
    BY <1>1, <2>8, <2>9 DEF Sound
  <2>11. QED
    BY <1>1, <2>7, <2>10, FrameStep
<1>5. QED
  BY <1>3, <1>4 DEF CancelUpdate

LEMMA FinishStep ==
  ASSUME JobsInv, NEW p \in Cancels \cup Outputs, Finish(p)
  PROVE  JobsInv'
BY ReplyStep DEF Finish

-----------------------------------------------------------------------------
(* getCompletedJobsOutput *)

LEMMA OutputFacts ==
  ASSUME JobsInv, NEW o \in Outputs
  PROVE  /\ TypeOK /\ o \in Procs /\ o \in Holders /\ o # Monitor /\ o \notin Cancels /\ o \notin Jobs
         /\ OutputSound(o) /\ HolderSound(o)
         /\ proc[o].todo \subseteq Jobs /\ proc[o].todo \cap proc[Monitor].todo = {}
<1>1. o \in Procs /\ o \in Holders /\ o # Monitor /\ o \notin Cancels /\ o \notin Jobs
  BY Names
<1>2. QED
  BY <1>1, ProcTypes DEF JobsInv, Sound, Disjoint

LEMMA MonitorFacts ==
  ASSUME JobsInv
  PROVE  /\ TypeOK /\ Monitor \in Procs /\ Monitor \in Holders /\ Monitor \notin Cancels
         /\ Monitor \notin Outputs /\ Monitor \notin Jobs
         /\ MonitorSound /\ HolderSound(Monitor) /\ proc[Monitor].todo \subseteq Jobs
         /\ \A o \in Outputs : proc[o].todo \cap proc[Monitor].todo = {}
<1>1. /\ Monitor \in Procs /\ Monitor \in Holders /\ Monitor \notin Cancels
      /\ Monitor \notin Outputs /\ Monitor \notin Jobs
  BY Names
<1>2. QED
  BY <1>1, ProcTypes DEF JobsInv, Sound, Disjoint

\* Only rows that have ended are selected, which the monitor does not hold.
LEMMA GetOutputStep ==
  ASSUME JobsInv, NEW o \in Outputs, GetOutput(o)
  PROVE  JobsInv'
<1>1. PICK s \in Sessions : proc' = [proc EXCEPT ![o].pc = "next", ![o].todo = CompletedJobs(s)]
  BY DEF GetOutput
<1> DEFINE rows == CompletedJobs(s)
           new == [proc[o] EXCEPT !.pc = "next", !.todo = rows]
<1>2. /\ TypeOK /\ o \in Procs /\ o \in Holders /\ o # Monitor /\ o \notin Cancels
      /\ UNCHANGED <<job, batch, faults>>
  BY OutputFacts DEF GetOutput
<1>3. rows \in SUBSET Jobs /\ \A j \in rows : job[j].saved /\ job[j].status = COMPLETED
  BY DEF CompletedJobs
<1>4. proc' = [proc EXCEPT ![o] = new]
  BY <1>1
<1> HIDE DEF rows
<1>5. new \in Process /\ new.pc = "next" /\ new.todo = rows
  <2>1. proc[o] \in Process
    BY <1>2 DEF TypeOK
  <2>2. QED
    BY <1>3, <2>1 DEF Process, PC
<1> HIDE DEF new
<1>6. proc' \in [Procs -> Process] /\ OthersStay(o) /\ proc'[o].pc = "next" /\ proc'[o].todo = rows
  BY <1>2, <1>4, <1>5 DEF TypeOK, OthersStay
<1>7. HolderSound(o)'
  BY <1>2, <1>3, <1>6 DEF HolderSound
<1>8. OutputSound(o)'
  <2>1. \A j \in rows : faults = 0 => ~Alive(j)
    <3>1. COMPLETED >= COMPLETED
      BY DEF COMPLETED
    <3>2. QED
      BY <1>3, <3>1 DEF JobsInv, EndedIsTrue
  <2>2. QED
    BY <1>2, <1>3, <1>6, <2>1 DEF OutputSound, Alive
<1>9. Disjoint'
  <2>1. proc'[Monitor] = proc[Monitor]
    BY <1>2, <1>6, Names DEF OthersStay
  <2>2. rows \cap proc[Monitor].todo = {}
    BY <1>3, MonitorFacts DEF MonitorSound, COMPLETED, CANCELLED
  <2>3. \A q \in Outputs \ {o} : proc'[q] = proc[q]
    BY <1>6 DEF OthersStay, Procs
  <2>4. QED
    BY <1>6, <2>1, <2>2, <2>3 DEF JobsInv, Disjoint
<1>10. QED
  BY <1>2, <1>6, <1>7, <1>8, <1>9, HolderStep DEF TypeOK

LEMMA MarkDownloadedStep ==
  ASSUME JobsInv, NEW o \in Outputs, MarkDownloaded(o)
  PROVE  JobsInv'
<1>1. PICK j \in Jobs :
        /\ At(o, j) /\ batch' = batch
        /\ \/ /\ job' = [job EXCEPT ![j].status = DOWNLOADED]
              /\ Handled(o, j)
              /\ UNCHANGED faults
           \/ Fault("database") /\ Reply(o, "error") /\ UNCHANGED job
  BY DEF MarkDownloaded
<1>2. /\ TypeOK /\ o \in Procs /\ o \in Holders /\ o # Monitor /\ o \notin Cancels /\ o \notin Jobs
      /\ OutputSound(o) /\ HolderSound(o)
      /\ proc[o].todo \subseteq Jobs /\ proc[o].todo \cap proc[Monitor].todo = {}
      /\ proc[o].pc = "next" /\ j \in proc[o].todo
  BY <1>1, OutputFacts DEF At
<1>3. CASE Fault("database") /\ Reply(o, "error") /\ UNCHANGED job
  BY <1>1, <1>2, <1>3, ReplyStep
<1>4. CASE job' = [job EXCEPT ![j].status = DOWNLOADED] /\ Handled(o, j) /\ UNCHANGED faults
  <2>1. /\ proc' \in [Procs -> Process] /\ OthersStay(o)
        /\ proc'[o].pc = "next" /\ proc'[o].todo = proc[o].todo \ {j}
    BY <1>2, <1>4, HandledFacts
  <2>2. job[j] \in Row /\ [job[j] EXCEPT !.status = DOWNLOADED] \in Row
    BY <1>2, JobTypes DEF Row, UNREACHABLE, DOWNLOADED, FAILED
  <2>3. /\ job' \in [Jobs -> Row] /\ job'[j] = [job[j] EXCEPT !.status = DOWNLOADED]
        /\ \A i \in Jobs \ {j} : job'[i] = job[i]
    BY <1>2, <1>4, <2>2 DEF TypeOK
  <2>4. job'[j].saved = job[j].saved /\ job'[j].session = job[j].session /\ job'[j].status = DOWNLOADED
    BY <2>2, <2>3 DEF Row
  <2>5. proc'[Monitor] = proc[Monitor] /\ \A q \in Outputs \ {o} : proc'[q] = proc[q]
    BY <1>2, <2>1, Names DEF OthersStay, Procs
  <2>6. (faults = 0 => ~Alive(j)) /\ j \notin proc'[Monitor].todo
    BY <1>2, <2>5 DEF OutputSound
  <2>7. \A i \in Jobs : RowFrame(i)
    BY <1>1, <1>4, <2>3, <2>4, <2>6 DEF RowFrame, Alive
  <2>8. Frame(o)
    BY <1>1, <1>2, <1>4, <2>1, <2>3, <2>7 DEF Frame, OwnRow, TypeOK
  <2>9. HolderSound(o)'
    BY <1>2, <2>1, <2>7 DEF HolderSound, RowFrame
  <2>10. OutputSound(o)'
    BY <1>1, <1>2, <1>4, <2>1, <2>3 DEF OutputSound, Alive
  <2>11. Disjoint'
    BY <2>1, <2>5 DEF JobsInv, Disjoint
  <2>12. Sound(o)'
    BY <1>2, <2>9, <2>10 DEF Sound
  <2>13. QED
    BY <1>2, <2>8, <2>11, <2>12, FrameStep
<1>5. QED
  BY <1>1, <1>3, <1>4

-----------------------------------------------------------------------------
(* The monitor and the scheduler *)

LEMMA SelectJobsStep == ASSUME JobsInv, SelectJobs PROVE JobsInv'
<1> DEFINE new == [proc[Monitor] EXCEPT !.pc = "next", !.todo = Monitored]
<1>1. /\ TypeOK /\ Monitor \in Procs /\ Monitor \in Holders /\ Monitor \notin Cancels
      /\ Monitor \notin Outputs /\ UNCHANGED <<job, batch, faults>>
  BY MonitorFacts DEF SelectJobs
<1>2. Monitored \in SUBSET Jobs /\ \A j \in Monitored : job[j].saved /\ job[j].status < COMPLETED
  BY DEF Monitored
<1>3. new \in Process /\ new.pc = "next" /\ new.todo = Monitored
  <2>1. proc[Monitor] \in Process
    BY <1>1 DEF TypeOK
  <2>2. QED
    BY <1>2, <2>1 DEF Process, PC
<1>4. proc' = [proc EXCEPT ![Monitor] = new]
  BY DEF SelectJobs
<1> HIDE DEF new
<1>5. /\ proc' \in [Procs -> Process] /\ OthersStay(Monitor)
      /\ proc'[Monitor].pc = "next" /\ proc'[Monitor].todo = Monitored
  BY <1>1, <1>3, <1>4 DEF TypeOK, OthersStay
<1>6. HolderSound(Monitor)' /\ MonitorSound'
  BY <1>1, <1>2, <1>5 DEF HolderSound, MonitorSound
<1>7. Disjoint'
  <2>1. ASSUME NEW o \in Outputs
        PROVE  proc'[o] = proc[o] /\ proc[o].todo \cap Monitored = {}
    <3>1. o \in Procs /\ o # Monitor /\ OutputSound(o)
      BY OutputFacts
    <3>2. \A j \in proc[o].todo : ~(job[j].status < COMPLETED)
      BY <3>1 DEF OutputSound, COMPLETED, CANCELLED, DOWNLOADED
    <3>3. QED
      BY <1>2, <1>5, <3>1, <3>2 DEF OthersStay
  <2>2. QED
    BY <1>5, <2>1 DEF Disjoint
<1>8. QED
  BY <1>1, <1>5, <1>6, <1>7, HolderStep DEF TypeOK

LEMMA GetJobStateStep == ASSUME JobsInv, GetJobState PROVE JobsInv'
<1>1. PICK j \in Jobs :
        /\ At(Monitor, j)
        /\ \/ /\ \E seen \in States(j) :
                   proc' = [proc EXCEPT ![Monitor].pc = "update", ![Monitor].cur = j, ![Monitor].seen = seen]
              /\ UNCHANGED faults
           \/ /\ Fault("unreachable")
              /\ proc' = [proc EXCEPT ![Monitor].pc = "update", ![Monitor].cur = j,
                                      ![Monitor].seen = UNREACHABLE]
           \/ Fault("unreachable") /\ Handled(Monitor, j)
        /\ UNCHANGED <<job, batch>>
  BY DEF GetJobState
<1>2. /\ TypeOK /\ Monitor \in Procs /\ Monitor \in Holders /\ Monitor \notin Cancels
      /\ Monitor \notin Outputs
      /\ MonitorSound /\ HolderSound(Monitor)
      /\ \A o \in Outputs : proc[o].todo \cap proc[Monitor].todo = {}
      /\ proc[Monitor].pc = "next" /\ j \in proc[Monitor].todo
  BY <1>1, MonitorFacts DEF At
<1>3. faults' \in 0 .. MaxFaults /\ (faults' # faults => faults' > 0)
  <2>1. faults' = faults \/ Fault("unreachable")
    BY <1>1
  <2>2. QED
    BY <1>2, <2>1, FaultType
<1>4. ASSUME NEW todo \in SUBSET proc[Monitor].todo, OthersStay(Monitor), proc'[Monitor].todo = todo
      PROVE  Disjoint'
  <2>1. \A o \in Outputs : proc'[o] = proc[o]
    BY <1>4, Names DEF OthersStay, Procs
  <2>2. QED
    BY <1>2, <1>4, <2>1 DEF Disjoint
<1>5. ASSUME NEW seen \in UNREACHABLE .. FAILED, seen >= COMPLETED => ~Alive(j),
             proc' = [proc EXCEPT ![Monitor].pc = "update", ![Monitor].cur = j, ![Monitor].seen = seen]
      PROVE  JobsInv'
  <2>1. Held(Monitor, j, seen)
    BY <1>5 DEF Held
  <2>2. /\ proc' \in [Procs -> Process] /\ OthersStay(Monitor)
        /\ proc'[Monitor].pc = "update" /\ proc'[Monitor].cur = j /\ proc'[Monitor].seen = seen
        /\ proc'[Monitor].todo = proc[Monitor].todo
    <3>1. TypeOK /\ Monitor \in Procs
      BY <1>2
    <3>2. QED
      BY <1>5, <2>1, <3>1, HeldFacts
  <2>3. HolderSound(Monitor)' /\ MonitorSound'
    BY <1>1, <1>2, <1>5, <2>2 DEF HolderSound, MonitorSound, Alive
  <2>4. Disjoint'
    BY <1>4, <2>2
  <2>5. QED
    BY <1>1, <1>2, <1>3, <2>2, <2>3, <2>4, HolderStep
<1>6. ASSUME NEW seen \in States(j)
      PROVE  seen \in UNREACHABLE .. FAILED /\ (seen >= COMPLETED => ~Alive(j))
  <2>1. CASE batch[j] = "alive"
    BY <1>6, <2>1 DEF States, WAITING, RUNNING, COMPLETED, UNREACHABLE, FAILED
  <2>2. CASE batch[j] # "alive"
    <3>1. seen \in {COMPLETED, CANCELLED}
      BY <1>6, <2>2 DEF States
    <3>2. QED
      BY <2>2, <3>1 DEF Alive, COMPLETED, CANCELLED, UNREACHABLE, FAILED
  <2>3. QED
    BY <2>1, <2>2
<1>7. UNREACHABLE \in UNREACHABLE .. FAILED /\ ~(UNREACHABLE >= COMPLETED)
  BY DEF UNREACHABLE, FAILED, COMPLETED
<1>8. CASE Handled(Monitor, j)
  <2>1. /\ proc' \in [Procs -> Process] /\ OthersStay(Monitor)
        /\ proc'[Monitor].pc = "next" /\ proc'[Monitor].todo = proc[Monitor].todo \ {j}
    BY <1>2, <1>8, HandledFacts
  <2>2. HolderSound(Monitor)' /\ MonitorSound'
    BY <1>1, <1>2, <2>1 DEF HolderSound, MonitorSound, Alive
  <2>3. Disjoint'
    BY <1>4, <2>1
  <2>4. QED
    BY <1>1, <1>2, <1>3, <2>1, <2>2, <2>3, HolderStep
<1>9. QED
  BY <1>1, <1>5, <1>6, <1>7, <1>8

\* The answer of the scheduler is written to a row that no request for output has.
LEMMA UpdateStatusStep == ASSUME JobsInv, UpdateStatus PROVE JobsInv'
<1> DEFINE j == proc[Monitor].cur
           seen == proc[Monitor].seen
<1>1. /\ TypeOK /\ Monitor \in Procs /\ Monitor \in Holders /\ Monitor \notin Cancels
      /\ Monitor \notin Outputs /\ Monitor \notin Jobs
      /\ MonitorSound /\ HolderSound(Monitor) /\ proc[Monitor].todo \subseteq Jobs
      /\ \A o \in Outputs : proc[o].todo \cap proc[Monitor].todo = {}
      /\ proc[Monitor].pc = "update" /\ batch' = batch /\ Handled(Monitor, j)
  BY MonitorFacts DEF UpdateStatus
<1>2. /\ j \in proc[Monitor].todo /\ j \in Jobs
      /\ seen \in UNREACHABLE .. FAILED /\ (seen >= COMPLETED => ~Alive(j))
  BY <1>1, ProcTypes DEF HolderSound, MonitorSound
<1>3. job' = [job EXCEPT ![j].status = seen] \/ job' = job
  BY DEF UpdateStatus
<1>4. faults' \in 0 .. MaxFaults /\ (faults' # faults => faults' > 0)
  <2>1. faults' = faults \/ Fault("database")
    BY DEF UpdateStatus
  <2>2. QED
    BY <1>1, <2>1, FaultType
<1> HIDE DEF j, seen
<1>5. /\ proc' \in [Procs -> Process] /\ OthersStay(Monitor)
      /\ proc'[Monitor].pc = "next" /\ proc'[Monitor].todo = proc[Monitor].todo \ {j}
  BY <1>1, <1>2, HandledFacts
<1>6. job[j] \in Row /\ [job[j] EXCEPT !.status = seen] \in Row
  BY <1>1, <1>2, JobTypes DEF Row
<1>7. /\ job' \in [Jobs -> Row] /\ (job'[j] = [job[j] EXCEPT !.status = seen] \/ job'[j] = job[j])
      /\ \A i \in Jobs \ {j} : job'[i] = job[i]
  BY <1>1, <1>2, <1>3, <1>6 DEF TypeOK
<1>8. /\ job'[j].saved = job[j].saved /\ job'[j].session = job[j].session
      /\ job'[j].status = seen \/ job'[j].status = job[j].status
  BY <1>6, <1>7 DEF Row
<1>9. \A o \in Outputs : proc'[o] = proc[o]
  BY <1>1, <1>5, Names DEF OthersStay, Procs
<1>10. j \notin proc'[Monitor].todo /\ \A o \in Outputs : j \notin proc'[o].todo
  BY <1>1, <1>2, <1>5, <1>9
<1>11. \A i \in Jobs : RowFrame(i)
  BY <1>1, <1>2, <1>7, <1>8, <1>10 DEF RowFrame, Alive
<1>12. Frame(Monitor)
  BY <1>1, <1>4, <1>5, <1>7, <1>11 DEF Frame, OwnRow, TypeOK
<1>13. HolderSound(Monitor)' /\ MonitorSound'
  BY <1>1, <1>5, <1>7, <1>11 DEF HolderSound, MonitorSound, RowFrame
<1>14. Disjoint'
  BY <1>1, <1>5, <1>9 DEF Disjoint
<1>15. Sound(Monitor)'
  BY <1>1, <1>13 DEF Sound
<1>16. QED
  BY <1>1, <1>12, <1>14, <1>15, FrameStep

LEMMA SleepStep == ASSUME JobsInv, Sleep PROVE JobsInv'
<1>1. /\ TypeOK /\ Monitor \in Procs /\ Monitor \in Holders /\ Monitor \notin Cancels
      /\ Monitor \notin Outputs /\ proc[Monitor].todo = {} /\ UNCHANGED <<job, batch, faults>>
  BY MonitorFacts DEF Sleep
<1>2. /\ proc' \in [Procs -> Process] /\ OthersStay(Monitor)
      /\ proc'[Monitor].pc = "select" /\ proc'[Monitor].todo = {}
  BY <1>1, GotoFacts DEF Sleep, PC
<1>3. HolderSound(Monitor)' /\ MonitorSound' /\ Disjoint'
  BY <1>2 DEF HolderSound, MonitorSound, Disjoint
<1>4. QED
  BY <1>1, <1>2, <1>3, HolderStep DEF TypeOK

\* A job ends by itself.
LEMMA EndStep == ASSUME JobsInv, NEW j \in Jobs, End(j) PROVE JobsInv'
<1>1. /\ TypeOK /\ Monitor \in Procs /\ Monitor \in Holders /\ Monitor \notin Cancels
      /\ Monitor \notin Outputs /\ Monitor \notin Jobs
      /\ MonitorSound /\ HolderSound(Monitor) /\ proc[Monitor].todo \subseteq Jobs
      /\ UNCHANGED <<job, proc, faults>>
  BY MonitorFacts DEF End
<1>2. /\ batch' \in [Jobs -> {"none", "alive", "ended", "killed"}]
      /\ \A i \in Jobs : batch'[i] = batch[i] \/ batch'[i] = "ended"
  BY <1>1 DEF End, TypeOK
<1>3. \A i \in Jobs : RowFrame(i)
  BY <1>1, <1>2 DEF RowFrame, Alive
<1>4. Frame(Monitor)
  BY <1>1, <1>2, <1>3 DEF Frame, OwnRow, OthersStay, TypeOK
<1>5. HolderSound(Monitor)' /\ MonitorSound' /\ Disjoint'
  BY <1>1, <1>2 DEF HolderSound, MonitorSound, Disjoint, Alive, JobsInv
<1>6. Sound(Monitor)'
  BY <1>1, <1>5 DEF Sound
<1>7. QED
  BY <1>1, <1>4, <1>5, <1>6, FrameStep

-----------------------------------------------------------------------------
(* The theorems *)

LEMMA JobsStep == JobsInv /\ [Next]_vars => JobsInv'
<1> SUFFICES ASSUME JobsInv, [Next]_vars PROVE JobsInv'
  OBVIOUS
<1>1. ASSUME NEW j \in Jobs, Reserve(j) \/ Submit(j) \/ Record(j) \/ RecordFailure(j) \/ Crash(j) \/ End(j)
      PROVE  JobsInv'
  BY <1>1, ReserveStep, SubmitStep, RecordStep, CrashStep, EndStep
<1>2. ASSUME NEW c \in Cancels, CancelJob(c) \/ CancelBatch(c) \/ CancelUpdate(c) \/ Finish(c)
      PROVE  JobsInv'
  BY <1>2, CancelJobStep, CancelBatchStep, CancelUpdateStep, FinishStep
<1>3. ASSUME NEW o \in Outputs, GetOutput(o) \/ MarkDownloaded(o) \/ Finish(o)
      PROVE  JobsInv'
  BY <1>3, GetOutputStep, MarkDownloadedStep, FinishStep
<1>4. CASE MonitorStep
  BY <1>4, SelectJobsStep, GetJobStateStep, UpdateStatusStep, SleepStep DEF MonitorStep
<1>5. CASE UNCHANGED vars
  BY <1>5 DEF vars, JobsInv, TypeOK, EndedIsTrue, Disjoint, Sound, SubmissionSound, HolderSound,
              MonitorSound, OutputSound, CancelSound, Alive, Admin
<1>6. QED
  BY <1>1, <1>2, <1>3, <1>4, <1>5 DEF Next

\* JobsInv always holds.
THEOREM JobsInvariant == Spec => []JobsInv
BY JobsInvInit, JobsStep, PTL DEF Spec

\* The table, the scheduler, the requests and the monitor keep their types.
THEOREM JobsTypeCorrect == Spec => []TypeOK
<1>1. JobsInv => TypeOK
  BY DEF JobsInv
<1>2. QED
  BY <1>1, JobsInvariant, PTL

\* While nothing fails, a job that the table says has ended is not in the
\* scheduler, whoever wrote its row and in whatever order.
THEOREM EndedOnlyIfEnded == Spec => []EndedIsTrue
<1>1. JobsInv => EndedIsTrue
  BY DEF JobsInv
<1>2. QED
  BY <1>1, JobsInvariant, PTL

\* While nothing fails, a cancellation that answers success has ended every job
\* that it selected.
THEOREM SuccessfulCancelKills == Spec => []CancelKills
<1>1. JobsInv => CancelKills
  <2> SUFFICES ASSUME JobsInv, faults = 0, NEW c \in Cancels, proc[c].result = "success",
                      NEW j \in proc[c].all
               PROVE  ~Alive(j)
    BY DEF CancelKills
  <2>1. CancelSound(c)
    BY CancelFacts
  <2>2. QED
    BY <2>1 DEF CancelSound
<1>2. QED
  BY <1>1, JobsInvariant, PTL

\* No request cancels a job of another user, administrators' excepted.
THEOREM OnlyOwnersCancel == Spec => []OwnersCancel
<1>1. JobsInv => OwnersCancel
  <2>1. ASSUME JobsInv, NEW c \in Cancels, NEW j \in Jobs, j \in proc[c].all
        PROVE  Admin(c) \/ User[job[j].session] = User[proc[c].session]
    <3>1. CancelSound(c)
      BY <2>1, CancelFacts
    <3>2. QED
      BY <2>1, <3>1 DEF CancelSound
  <2>2. QED
    BY <2>1 DEF OwnersCancel
<1>2. QED
  BY <1>1, JobsInvariant, PTL

\* A step that changes the status of a job that has ended.
LEMMA EndedChanges ==
  ASSUME JobsInv, [Next]_vars, NEW j \in Jobs, job[j].saved, job[j].status >= COMPLETED,
         job'[j].status # job[j].status
  PROVE  \/ job[j].status = COMPLETED /\ job'[j].status = DOWNLOADED
         \/ \E c \in Cancels : proc[c].pc = "update" /\ proc[c].cur = j
         \/ /\ job[j].status = CANCELLED
            /\ \/ proc[Monitor].pc = "update" /\ proc[Monitor].cur = j
               \/ \E o \in Outputs : j \in proc[o].todo
<1>1. TypeOK
  BY DEF JobsInv
<1>2. \A i \in Jobs : Record(i) \/ RecordFailure(i) => job'[j] = job[j]
  <2>1. ASSUME NEW i \in Jobs, Record(i) \/ RecordFailure(i)
        PROVE  job'[j] = job[j]
    <3>1. proc[i].pc # "done"
      BY <2>1 DEF Record, RecordFailure
    <3>2. i # j
      <4>1. SubmissionSound(j)
        BY Names DEF JobsInv, Sound
      <4>2. QED
        BY <3>1, <4>1 DEF SubmissionSound
    <3>3. QED
      BY <1>1, <2>1, <3>2 DEF Record, RecordFailure, Save, TypeOK
  <2>2. QED
    BY <2>1
<1>3. ASSUME NEW c \in Cancels, CancelUpdate(c)
      PROVE  proc[c].pc = "update" /\ proc[c].cur = j
  <2>1. proc[c].pc = "update"
    BY <1>3 DEF CancelUpdate
  <2>2. job' = [job EXCEPT ![proc[c].cur].status = CANCELLED] \/ job' = job
    BY <1>3 DEF CancelUpdate
  <2>3. QED
    BY <1>1, <2>1, <2>2 DEF TypeOK
<1>4. ASSUME NEW o \in Outputs, MarkDownloaded(o)
      PROVE  /\ j \in proc[o].todo /\ job[j].status \in {COMPLETED, CANCELLED}
             /\ job'[j].status = DOWNLOADED
  <2>1. PICK i \in Jobs :
          i \in proc[o].todo /\ (job' = [job EXCEPT ![i].status = DOWNLOADED] \/ job' = job)
    BY <1>4 DEF MarkDownloaded, At
  <2>2. i = j /\ job' = [job EXCEPT ![j].status = DOWNLOADED]
    BY <1>1, <2>1 DEF TypeOK
  <2>3. job[j] \in Row /\ job'[j] = [job[j] EXCEPT !.status = DOWNLOADED]
    BY <1>1, <2>2 DEF TypeOK
  <2>4. job'[j].status = DOWNLOADED
    BY <2>3 DEF Row
  <2>5. OutputSound(o)
    BY OutputFacts
  <2>6. QED
    BY <2>1, <2>2, <2>4, <2>5 DEF OutputSound
<1>5. ASSUME UpdateStatus
      PROVE  job[j].status = CANCELLED /\ proc[Monitor].pc = "update" /\ proc[Monitor].cur = j
  <2>1. proc[Monitor].pc = "update" /\ proc[Monitor].cur \in proc[Monitor].todo /\ MonitorSound
    BY <1>5, MonitorFacts DEF UpdateStatus, HolderSound
  <2>2. job' = [job EXCEPT ![proc[Monitor].cur].status = proc[Monitor].seen] \/ job' = job
    BY <1>5 DEF UpdateStatus
  <2>3. proc[Monitor].cur = j
    BY <1>1, <2>2 DEF TypeOK
  <2>4. ~(job[j].status < COMPLETED)
    BY <1>1, JobTypes DEF COMPLETED, UNREACHABLE, FAILED
  <2>5. QED
    BY <2>1, <2>3, <2>4 DEF MonitorSound
<1>6. ASSUME UNCHANGED job
      PROVE  FALSE
  BY <1>6
<1>7. \/ \E i \in Jobs : Record(i) \/ RecordFailure(i)
      \/ \E c \in Cancels : CancelUpdate(c)
      \/ \E o \in Outputs : MarkDownloaded(o)
      \/ UpdateStatus
      \/ UNCHANGED job
  BY DEF Next, vars, MonitorStep, Reserve, Submit, Crash, CancelJob, CancelBatch, Finish, GetOutput,
         SelectJobs, GetJobState, Sleep, End
<1>8. QED
  BY <1>2, <1>3, <1>4, <1>5, <1>6, <1>7

\* The status of a job that has ended changes in the three ways of EndedIsFinal
\* alone: neither the monitor nor a submission brings it back to life.
THEOREM EndedStaysEnded == Spec => EndedIsFinal
<1>1. JobsInv /\ [Next]_vars =>
        [\A j \in Jobs :
           /\ job[j].saved /\ job[j].status >= COMPLETED
           /\ job'[j].status # job[j].status
           => \/ job[j].status = COMPLETED /\ job'[j].status = DOWNLOADED
              \/ \E c \in Cancels : proc[c].pc = "update" /\ proc[c].cur = j
              \/ /\ job[j].status = CANCELLED
                 /\ \/ proc[Monitor].pc = "update" /\ proc[Monitor].cur = j
                    \/ \E o \in Outputs : j \in proc[o].todo]_vars
  BY EndedChanges
<1>2. QED
  BY <1>1, JobsInvariant, PTL DEF Spec, EndedIsFinal

-----------------------------------------------------------------------------
(* The jobs of the table live in a scheduler as BatchSystem has them *)

\* The scheduler has a job from its submission on, and only from then.
Started(j) ==
  /\ proc[j].pc \in {"idle", "submit"} => batch[j] = "none"
  /\ faults = 0 /\ (job[j].saved \/ proc[j].pc = "record") => batch[j] # "none"

StartedInv == \A j \in Jobs : Started(j)

Submits(j) == Reserve(j) \/ Submit(j) \/ Record(j) \/ RecordFailure(j) \/ Crash(j)

LEMMA FaultsGrow ==
  ASSUME JobsInv, [Next]_vars
  PROVE  faults' \in Nat /\ (faults' = 0 => faults = 0)
<1>1. faults' = faults \/ faults' = faults + 1
  BY DEF Next, vars, MonitorStep, Reserve, Submit, Record, RecordFailure, Crash, CancelJob, CancelBatch,
         CancelUpdate, Finish, GetOutput, MarkDownloaded, SelectJobs, GetJobState, UpdateStatus, Sleep,
         End, Fault
<1>2. QED
  BY <1>1, MaxFaultsAssumption DEF JobsInv, TypeOK

\* A submission is the work of one process and of nobody else.
LEMMA SubmissionIsAlone ==
  ASSUME JobsInv, [Next]_vars, NEW j \in Jobs, ~Submits(j)
  PROVE  proc'[j].pc = proc[j].pc /\ job'[j].saved = job[j].saved
<1>1. TypeOK /\ j \in Procs
  BY Names DEF JobsInv
<1>2. ASSUME NEW i \in Jobs, Submits(i)
      PROVE  proc'[j] = proc[j] /\ job'[j] = job[j]
  <2>1. i # j
    BY <1>2
  <2>2. QED
    BY <1>1, <1>2, <2>1 DEF Submits, Reserve, Submit, Record, RecordFailure, Crash, Save, Reply, Goto, TypeOK
<1>3. ASSUME NEW c \in Cancels, CancelJob(c) \/ CancelBatch(c) \/ CancelUpdate(c) \/ Finish(c)
      PROVE  proc'[j] = proc[j]
  <2>1. j # c
    BY Names
  <2>2. QED
    BY <1>1, <1>3, <2>1 DEF CancelJob, CancelBatch, CancelUpdate, Finish, Reply, Handled, TypeOK
<1>4. ASSUME NEW o \in Outputs, GetOutput(o) \/ MarkDownloaded(o) \/ Finish(o)
      PROVE  proc'[j] = proc[j]
  <2>1. j # o
    BY Names
  <2>2. QED
    BY <1>1, <1>4, <2>1 DEF GetOutput, MarkDownloaded, Finish, Reply, Handled, TypeOK
<1>5. CASE MonitorStep
  <2>1. j # Monitor
    BY Names
  <2>2. proc'[j] = proc[j]
    BY <1>1, <1>5, <2>1 DEF MonitorStep, SelectJobs, GetJobState, UpdateStatus, Sleep, Handled, Goto, TypeOK
  <2>3. job'[j].saved = job[j].saved
    <3>1. job' = job \/ job' = [job EXCEPT ![proc[Monitor].cur].status = proc[Monitor].seen]
      BY <1>5 DEF MonitorStep, SelectJobs, GetJobState, UpdateStatus, Sleep
    <3>2. QED
      BY <1>1, <3>1, JobTypes DEF TypeOK, Row
  <2>4. QED
    BY <2>2, <2>3
<1>6. ASSUME NEW p, NEW status, job' = [job EXCEPT ![p].status = status]
      PROVE  job'[j].saved = job[j].saved
  BY <1>1, <1>6, JobTypes DEF TypeOK, Row
<1>7. ASSUME NEW c \in Cancels, CancelJob(c) \/ CancelBatch(c) \/ CancelUpdate(c) \/ Finish(c)
      PROVE  job'[j].saved = job[j].saved
  BY <1>6, <1>7 DEF CancelJob, CancelBatch, CancelUpdate, Finish
<1>8. ASSUME NEW o \in Outputs, GetOutput(o) \/ MarkDownloaded(o) \/ Finish(o)
      PROVE  job'[j].saved = job[j].saved
  BY <1>6, <1>8 DEF GetOutput, MarkDownloaded, Finish
<1>9. CASE UNCHANGED <<proc, job>>
  BY <1>9
<1>10. QED
  BY <1>2, <1>3, <1>4, <1>5, <1>7, <1>8, <1>9 DEF Next, Submits, End, vars

\* In the scheduler a job is started by its submission, and ends once.
LEMMA BatchMoves ==
  ASSUME JobsInv, [Next]_vars, NEW j \in Jobs
  PROVE  \/ batch'[j] = batch[j]
         \/ Submit(j)
         \/ batch[j] = "alive" /\ batch'[j] \in {"ended", "killed"}
<1>1. TypeOK
  BY DEF JobsInv
<1>2. ASSUME NEW i \in Jobs, Submit(i), i # j
      PROVE  batch'[j] = batch[j]
  BY <1>1, <1>2 DEF Submit, TypeOK
<1>3. ASSUME NEW i \in Jobs, batch' = [batch EXCEPT ![i] = IF Alive(i) THEN "killed" ELSE @]
      PROVE  batch'[j] = batch[j] \/ (batch[j] = "alive" /\ batch'[j] = "killed")
  BY <1>1, <1>3 DEF Alive, TypeOK
<1>4. ASSUME NEW i \in Jobs, End(i)
      PROVE  batch'[j] = batch[j] \/ (batch[j] = "alive" /\ batch'[j] = "ended")
  BY <1>1, <1>4 DEF End, TypeOK
<1>5. ASSUME NEW c \in Cancels, CancelBatch(c)
      PROVE  UNCHANGED batch \/ \E i \in Jobs : batch' = [batch EXCEPT ![i] = IF Alive(i) THEN "killed" ELSE @]
  BY <1>5 DEF CancelBatch
<1>6. \/ UNCHANGED batch
      \/ \E i \in Jobs : Submit(i) \/ End(i)
      \/ \E c \in Cancels : CancelBatch(c)
  BY DEF Next, vars, MonitorStep, Reserve, Record, RecordFailure, Crash, CancelJob, CancelUpdate, Finish,
         GetOutput, MarkDownloaded, SelectJobs, GetJobState, UpdateStatus, Sleep
<1>7. QED
  BY <1>2, <1>3, <1>4, <1>5, <1>6

LEMMA StartedStep ==
  ASSUME JobsInv, StartedInv, [Next]_vars
  PROVE  StartedInv'
<1> SUFFICES ASSUME NEW j \in Jobs PROVE Started(j)'
  BY DEF StartedInv
<1>1. TypeOK /\ j \in Procs /\ proc[j] \in Process /\ Started(j)
  BY Names, ProcTypes DEF JobsInv, StartedInv
<1>2. faults' = 0 => faults = 0
  BY FaultsGrow
<1>3. batch[j] # "none" => batch'[j] # "none" \/ Submit(j)
  BY BatchMoves
<1>4. CASE ~Submits(j)
  <2>1. proc'[j].pc = proc[j].pc /\ job'[j].saved = job[j].saved
    BY <1>4, SubmissionIsAlone
  <2>2. batch'[j] = batch[j] \/ (batch[j] = "alive" /\ batch'[j] # "none")
    BY <1>4, BatchMoves DEF Submits
  <2>3. QED
    BY <1>1, <1>2, <2>1, <2>2 DEF Started
<1>5. CASE Reserve(j)
  <2>1. proc[j].pc = "idle" /\ UNCHANGED <<job, batch>>
    BY <1>5 DEF Reserve
  <2>2. proc'[j].pc \in {"submit", "done"}
    BY <1>1, <1>5 DEF Reserve, TypeOK, Process
  <2>3. QED
    BY <1>1, <1>2, <2>1, <2>2 DEF Started
<1>6. CASE Submit(j)
  <2>1. proc[j].pc = "submit" /\ UNCHANGED job
    BY <1>6 DEF Submit
  <2>2. \/ proc'[j].pc = "record" /\ batch'[j] \in {"ended", "alive"}
        \/ proc'[j].pc \in {"fail", "done"} /\ UNCHANGED batch
    <3>1. CASE \E ended \in BOOLEAN :
                 /\ batch' = [batch EXCEPT ![j] = IF ended THEN "ended" ELSE "alive"]
                 /\ proc' = [proc EXCEPT ![j].pc = "record", ![j].seen = IF ended THEN COMPLETED ELSE QUEUED]
      BY <1>1, <3>1 DEF TypeOK, Process
    <3>2. CASE Goto(j, "fail") /\ UNCHANGED batch
      BY <1>1, <3>2, GotoFacts DEF PC
    <3>3. CASE Reply(j, "success") /\ UNCHANGED batch
      BY <1>1, <3>3, ReplyFacts
    <3>4. QED
      BY <1>6, <3>1, <3>2, <3>3 DEF Submit
  <2>3. QED
    BY <1>1, <1>2, <2>1, <2>2 DEF Started
<1>7. CASE Record(j)
  <2>1. proc[j].pc = "record" /\ UNCHANGED batch
    BY <1>7 DEF Record
  <2>2. proc'[j].pc \in {"fail", "done"}
    <3>1. Goto(j, "fail") \/ Reply(j, "success")
      BY <1>7 DEF Record
    <3>2. QED
      BY <1>1, <3>1, GotoFacts, ReplyFacts DEF PC
  <2>3. QED
    BY <1>1, <1>2, <2>1, <2>2 DEF Started
<1>8. CASE RecordFailure(j)
  <2>1. faults # 0
    <3>1. SubmissionSound(j)
      BY <1>1 DEF JobsInv, Sound
    <3>2. QED
      BY <1>1, <1>8, <3>1, MaxFaultsAssumption DEF RecordFailure, SubmissionSound, TypeOK
  <2>2. proc'[j].pc = "done"
    BY <1>1, <1>8, ReplyFacts DEF RecordFailure
  <2>3. QED
    BY <1>2, <2>1, <2>2 DEF Started
<1>9. CASE Crash(j)
  <2>1. proc'[j].pc = "done"
    BY <1>1, <1>9, GotoFacts DEF Crash, PC
  <2>2. faults' # 0
    BY <1>1, <1>9, MaxFaultsAssumption DEF Crash, Fault, TypeOK
  <2>3. QED
    BY <2>1, <2>2 DEF Started
<1>10. QED
  BY <1>4, <1>5, <1>6, <1>7, <1>8, <1>9 DEF Submits

LEMMA StartedInvariant == Spec => []StartedInv
<1>1. Init => StartedInv
  <2> SUFFICES ASSUME Init, NEW j \in Jobs PROVE Started(j)
    BY DEF StartedInv
  <2>1. j \in Procs /\ j # Monitor
    BY Names, NamesAssumption
  <2>2. proc[j].pc = "idle" /\ batch[j] = "none" /\ ~job[j].saved
    BY <2>1 DEF Init
  <2>3. QED
    BY <2>2 DEF Started
<1>2. JobsInv /\ StartedInv /\ [Next]_vars => StartedInv'
  BY StartedStep
<1>3. QED
  BY <1>1, <1>2, JobsInvariant, PTL DEF Spec

\* Whatever requests and the monitor do in whatever order, each job lives once in
\* the scheduler; and barring failures the table says over of a job only when the
\* scheduler has ended it.
THEOREM TableFollowsTheScheduler == Spec => SchedulerSpec
<1>1. Init => Scheduler!Init
  BY DEF Init, Scheduler!Init, Over
<1>2. JobsInv /\ JobsInv' /\ StartedInv /\ StartedInv' /\ [Next]_vars => Scheduler!Next
  <2> SUFFICES ASSUME JobsInv, JobsInv', StartedInv, StartedInv', [Next]_vars PROVE Scheduler!Next
    OBVIOUS
  <2>1. /\ batch \in [Jobs -> {"none", "alive", "ended", "killed"}]
        /\ batch' \in [Jobs -> {"none", "alive", "ended", "killed"}]
    BY DEF JobsInv, TypeOK
  <2>2. ASSUME NEW j \in Jobs
        PROVE  batch'[j] \in Scheduler!Later(batch[j])
    <3>1. \/ batch'[j] = batch[j]
          \/ batch[j] = "none"
          \/ batch[j] = "alive" /\ batch'[j] \in {"ended", "killed"}
      <4>1. Submit(j) => batch[j] = "none"
        BY DEF Submit, StartedInv, Started
      <4>2. QED
        BY <4>1, BatchMoves
    <3>2. QED
      BY <2>1, <3>1 DEF Scheduler!Later, Scheduler!Lives
  <2>3. Scheduler!Live
    BY <2>1, <2>2 DEF Scheduler!Live, Scheduler!Lives
  <2>4. ASSUME faults' = 0, NEW j \in Jobs, job'[j].saved, job'[j].status >= COMPLETED
        PROVE  batch'[j] \in {"ended", "killed"}
    <3>1. batch'[j] # "none"
      BY <2>4 DEF StartedInv, Started
    <3>2. batch'[j] # "alive"
      BY <2>4 DEF JobsInv, EndedIsTrue, Alive
    <3>3. QED
      BY <2>1, <3>1, <3>2
  <2>5. Scheduler!Learn
    BY <2>4, FaultsGrow DEF Scheduler!Learn, Over
  <2>6. QED
    BY <2>3, <2>5 DEF Scheduler!Next
<1>3. QED
  BY <1>1, <1>2, JobsInvariant, StartedInvariant, PTL DEF Spec, SchedulerSpec, Scheduler!Spec
=================================================================================
