--------------------------- MODULE PosixDaemonProofs ---------------------------
(* Theorems about PosixDaemon. *)
EXTENDS PosixDaemon, TLAPS

\* The daemon reads from a client.
ServedKnown == pc \in {"read", "interrupted"} => served \in Clients

\* The daemon decides to end when there is nothing on the board, and looks at its
\* decision before it takes another request.
EndsWithoutEntries ==
  /\ terminated => pc \in {"alarm", "end"} /\ Entries = {}
  /\ pc = "end" => terminated

PosixInv == TypeOK /\ ServedKnown /\ EndsWithoutEntries /\ AliveIsOnBoard

-----------------------------------------------------------------------------
(* The helpers *)

\* A signalled process is the same one, and told to end.
LEMMA SignalledTypes ==
  ASSUME NEW p \in Process
  PROVE  Signalled(p) \in Process /\ Signalled(p).state = p.state /\ Signalled(p).term
BY DEF Signalled, Process

\* An entry keeps its type when its state changes.
LEMMA BecomesTypes ==
  ASSUME NEW e \in Entry, NEW s \in {"none", "RUNNING", "KILL", "KILL9", "TERMINATED"}
  PROVE  Becomes(e, s) \in Entry /\ Becomes(e, s).state = s
BY DEF Becomes, Entry

\* SIGTERM goes to the given processes that are alive and changes nothing else.
LEMMA SigtermSignals ==
  ASSUME TypeOK, NEW S
  PROVE  /\ AfterSigterm(S) \in [Jobs -> Process]
         /\ \A j \in Jobs : /\ AfterSigterm(S)[j].state = process[j].state
                            /\ process[j].term => AfterSigterm(S)[j].term
                            /\ j \in S /\ Alive(j) => AfterSigterm(S)[j].term
BY SignalledTypes DEF TypeOK, AfterSigterm

LEMMA KilledMarks ==
  ASSUME TypeOK, NEW S
  PROVE  /\ Killed(S) \in [Jobs -> Entry]
         /\ \A j \in Jobs \ S : Killed(S)[j] = board[j]
BY BecomesTypes DEF TypeOK, Killed

\* The clean-up does not touch running processes' entries.
LEMMA CleanedKeepsTheLiving ==
  ASSUME TypeOK
  PROVE  /\ Cleaned \in [Jobs -> Entry]
         /\ \A j \in Jobs : Alive(j) /\ board[j].state = "RUNNING" => Cleaned[j] = board[j]
<1>1. NoEntry \in Entry
  BY DEF NoEntry, Entry
<1>2. \A j \in Jobs : board[j] \in Entry
  BY DEF TypeOK
<1>3. \A j \in Jobs : Becomes(board[j], "TERMINATED") \in Entry
  BY <1>2, BecomesTypes
<1>4. Cleaned \in [Jobs -> Entry]
  BY <1>1, <1>2, <1>3 DEF Cleaned
<1>5. \A j \in Jobs : Alive(j) /\ board[j].state = "RUNNING" => Cleaned[j] = board[j]
  BY DEF Cleaned, Ended
<1>6. QED
  BY <1>4, <1>5

\* Only entries that were to be killed are marked.
LEMMA MarkedKeepsTheRunning ==
  ASSUME TypeOK
  PROVE  /\ Marked \in [Jobs -> Entry]
         /\ \A j \in Jobs : board[j].state = "RUNNING" => Marked[j] = board[j]
<1>1. \A j \in Jobs : board[j] \in Entry
  BY DEF TypeOK
<1>2. \A j \in Jobs : Becomes(board[j], "TERMINATED") \in Entry /\ Becomes(board[j], "KILL9") \in Entry
  BY <1>1, BecomesTypes
<1>3. Marked \in [Jobs -> Entry]
  BY <1>1, <1>2 DEF Marked
<1>4. \A j \in Jobs : board[j].state = "RUNNING" => Marked[j] = board[j]
  BY DEF Marked, KillsAlive, KillsEnded, InState
<1>5. QED
  BY <1>3, <1>4

\* The answer of a request keeps the types of what it changes.
LEMMA RespondTypes ==
  ASSUME TypeOK, ServedKnown, NEW answers \in SUBSET {"running", "ended"}, Respond(answers),
         pc \in {"read", "interrupted"}
  PROVE  /\ pc' = "children" /\ served' = None
         /\ req' \in Request \cup {None}
         /\ client' \in [Clients -> [pc : {"idle", "waits", "stuck"}, ask : Request \cup {None}]]
         /\ told' \in [Jobs -> {"running", "ended", "cancelled"}]
         /\ terminated' = terminated /\ races' = races
<1>1. served \in Clients
  BY DEF ServedKnown
<1>2. client[served].ask \in Request \cup {None}
  BY <1>1 DEF TypeOK
<1>3. req' \in Request \cup {None}
  BY <1>2 DEF Respond, Got, TypeOK
<1>4. NoAsk \in [pc : {"idle", "waits", "stuck"}, ask : Request \cup {None}]
  BY DEF NoAsk
<1>5. client' \in [Clients -> [pc : {"idle", "waits", "stuck"}, ask : Request \cup {None}]]
  BY <1>4 DEF Respond, TypeOK
<1>6. told' \in [Jobs -> {"running", "ended", "cancelled"}]
  BY DEF Respond, Tell, TypeOK
<1>7. QED
  BY <1>3, <1>5, <1>6 DEF Respond

\* A signal moves the daemon only out of accept and read.
LEMMA InterruptMoves ==
  ASSUME TypeOK, Interrupt
  PROVE  /\ pc' \in {"enter", "accept", "read", "interrupted", "children", "clear", "alarm", "end", "gone"}
         /\ races' \in 0 .. MaxRaces
         /\ pc' = pc \/ (pc = "accept" /\ pc' = "children") \/ (pc = "read" /\ pc' = "interrupted")
BY MaxRacesAssumption DEF Interrupt, Race, TypeOK

-----------------------------------------------------------------------------
(* Init and the actions *)

LEMMA InitImpliesPosixInv == Init => PosixInv
<1> SUFFICES ASSUME Init PROVE PosixInv
  OBVIOUS
<1>1. TypeOK
  <2>1. process \in [Jobs -> Process]
    BY DEF Init, Process
  <2>2. board \in [Jobs -> Entry]
    BY DEF Init, Entry, NoEntry
  <2>3. client \in [Clients -> [pc : {"idle", "waits", "stuck"}, ask : Request \cup {None}]]
    BY DEF Init, NoAsk
  <2>4. races \in 0 .. MaxRaces
    BY MaxRacesAssumption DEF Init
  <2>5. QED
    BY <2>1, <2>2, <2>3, <2>4 DEF Init, TypeOK
<1>2. ServedKnown /\ EndsWithoutEntries
  BY DEF Init, ServedKnown, EndsWithoutEntries
<1>3. AliveIsOnBoard
  BY DEF Init, AliveIsOnBoard, Alive
<1>4. QED
  BY <1>1, <1>2, <1>3 DEF PosixInv

\* The clients only change what they ask and what they are told.
LEMMA ClientsKeepPosixInv ==
  ASSUME PosixInv,
         \/ \E c \in Users, ask \in Request : Ask(c, ask)
         \/ \E j \in Jobs : Poll(j) \/ PollNobody(j) \/ CancelNobody(j)
  PROVE  PosixInv'
<1> USE DEF PosixInv
<1>1. UNCHANGED <<process, daemon, races>>
  BY DEF Ask, Poll, PollNobody, CancelNobody
<1>2. client' \in [Clients -> [pc : {"idle", "waits", "stuck"}, ask : Request \cup {None}]]
  <2>1. ASSUME NEW c, NEW ask \in Request, Ask(c, ask)
        PROVE  client' \in [Clients -> [pc : {"idle", "waits", "stuck"}, ask : Request \cup {None}]]
    <3>1. [pc |-> "waits", ask |-> ask] \in [pc : {"idle", "waits", "stuck"}, ask : Request \cup {None}]
      OBVIOUS
    <3>2. QED
      BY <2>1, <3>1 DEF Ask, TypeOK
  <2>2. ASSUME NEW j \in Jobs, Poll(j)
        PROVE  client' \in [Clients -> [pc : {"idle", "waits", "stuck"}, ask : Request \cup {None}]]
    <3>1. [op |-> "GINFO", job |-> j] \in Request
      BY DEF Request
    <3>2. QED
      BY <2>1, <2>2, <3>1 DEF Poll
  <2>3. ASSUME NEW j \in Jobs, PollNobody(j) \/ CancelNobody(j)
        PROVE  client' \in [Clients -> [pc : {"idle", "waits", "stuck"}, ask : Request \cup {None}]]
    BY <2>3 DEF PollNobody, CancelNobody, TypeOK
  <2>4. QED
    BY <2>1, <2>2, <2>3
<1>3. told' \in [Jobs -> {"running", "ended", "cancelled"}]
  BY DEF Ask, Poll, PollNobody, CancelNobody, Tell, TypeOK
<1>4. TypeOK'
  BY <1>1, <1>2, <1>3 DEF TypeOK, daemon
<1>5. ServedKnown' /\ EndsWithoutEntries' /\ AliveIsOnBoard'
  BY <1>1 DEF daemon, ServedKnown, EndsWithoutEntries, Entries, AliveIsOnBoard, Alive
<1>6. QED
  BY <1>4, <1>5

\* A process that ends is no longer alive; the others stay on the board.
LEMMA ProcessEndsKeepsPosixInv ==
  ASSUME PosixInv, NEW k \in Jobs, ProcessEnds(k)
  PROVE  PosixInv'
<1> USE DEF PosixInv
<1>1. /\ pc' \in {"enter", "accept", "read", "interrupted", "children", "clear", "alarm", "end", "gone"}
      /\ races' \in 0 .. MaxRaces
      /\ ChildSigs' \in BOOLEAN
      /\ pc' = pc \/ (pc = "accept" /\ pc' = "children") \/ (pc = "read" /\ pc' = "interrupted")
  <2>1. CASE pc = "gone" /\ UNCHANGED <<ChildSigs, pc, races>>
    BY <2>1 DEF TypeOK
  <2>2. CASE pc = "clear" /\ ChildSigs' = TRUE /\ Race /\ UNCHANGED pc
    BY <2>2, MaxRacesAssumption DEF Race, TypeOK
  <2>3. CASE pc \notin {"gone", "clear"} /\ ChildSigs' = TRUE /\ Interrupt
    BY <2>3, InterruptMoves
  <2>4. QED
    BY <2>1, <2>2, <2>3 DEF ProcessEnds
<1>2. process' = [process EXCEPT ![k] = [state |-> "ended", term |-> FALSE]]
  BY DEF ProcessEnds
<1>3. process' \in [Jobs -> Process]
  BY <1>2 DEF TypeOK, Process
<1>4. TypeOK'
  BY <1>1, <1>3 DEF ProcessEnds, TypeOK
<1>5. ServedKnown' /\ EndsWithoutEntries'
  BY <1>1 DEF ProcessEnds, ServedKnown, EndsWithoutEntries, Entries
<1>6. AliveIsOnBoard'
  <2>1. \A j \in Jobs : Alive(j)' => j # k /\ process'[j] = process[j]
    BY <1>2 DEF TypeOK, Alive
  <2>2. pc' = "gone" => pc = "gone"
    BY <1>1
  <2>3. QED
    BY <2>1, <2>2 DEF AliveIsOnBoard, Alive, ProcessEnds
<1>7. QED
  BY <1>4, <1>5, <1>6

LEMMA AlarmRingsKeepsPosixInv ==
  ASSUME PosixInv, AlarmRings
  PROVE  PosixInv'
<1> USE DEF PosixInv
<1>1. /\ pc' \in {"enter", "accept", "read", "interrupted", "children", "clear", "alarm", "end", "gone"}
      /\ races' \in 0 .. MaxRaces
      /\ pc' = pc \/ (pc = "accept" /\ pc' = "children") \/ (pc = "read" /\ pc' = "interrupted")
  BY InterruptMoves DEF AlarmRings
<1>2. TypeOK'
  BY <1>1 DEF AlarmRings, TypeOK
<1>3. ServedKnown' /\ EndsWithoutEntries'
  BY <1>1 DEF AlarmRings, ServedKnown, EndsWithoutEntries, Entries
<1>4. AliveIsOnBoard'
  BY <1>1 DEF AlarmRings, AliveIsOnBoard, Alive
<1>5. QED
  BY <1>2, <1>3, <1>4

LEMMA LimitPassesKeepsPosixInv ==
  ASSUME PosixInv, NEW k \in Jobs, LimitPasses(k)
  PROVE  PosixInv'
<1> USE DEF PosixInv
<1>1. k \in Entries /\ UNCHANGED <<process, ChildSigs, AlarmSig, alarm, terminated, pc, served, req, client, told, races>>
  BY DEF LimitPasses
<1>2. /\ board' \in [Jobs -> Entry]
      /\ \A j \in Jobs : board'[j].state = board[j].state
  <2>1. board[k] \in Entry /\ board' = [board EXCEPT ![k].over = TRUE]
    BY DEF LimitPasses, TypeOK
  <2>2. /\ [board[k] EXCEPT !.over = TRUE] \in Entry
        /\ [board[k] EXCEPT !.over = TRUE].state = board[k].state
    BY <2>1 DEF Entry
  <2>3. board' = [board EXCEPT ![k] = [board[k] EXCEPT !.over = TRUE]]
    BY <2>1
  <2>4. QED
    BY <2>2, <2>3 DEF TypeOK
<1>3. TypeOK'
  BY <1>1, <1>2 DEF TypeOK
<1>4. ServedKnown' /\ EndsWithoutEntries' /\ AliveIsOnBoard'
  BY <1>1, <1>2 DEF ServedKnown, EndsWithoutEntries, Entries, AliveIsOnBoard, Alive
<1>5. QED
  BY <1>3, <1>4

\* Launch, Block, Accept and NoSignature touch neither processes nor the board.
LEMMA WaitingKeepsPosixInv ==
  ASSUME PosixInv, Launch \/ Block \/ (\E c \in Clients : Accept(c)) \/ NoSignature
  PROVE  PosixInv'
<1> USE DEF PosixInv
<1>1. /\ UNCHANGED <<process, board, ChildSigs, AlarmSig, alarm, terminated, req, told, races>>
      /\ pc \notin {"alarm", "end"}
      /\ pc' \in {"enter", "accept", "read"}
      /\ served' \in Clients \cup {None}
      /\ pc' = "read" => served' \in Clients
  BY DEF Launch, Block, Accept, NoSignature, TypeOK
<1>2. client' \in [Clients -> [pc : {"idle", "waits", "stuck"}, ask : Request \cup {None}]]
  BY DEF Launch, Block, Accept, NoSignature, TypeOK
<1>3. TypeOK'
  BY <1>1, <1>2 DEF TypeOK
<1>4. ServedKnown' /\ EndsWithoutEntries' /\ AliveIsOnBoard'
  BY <1>1 DEF ServedKnown, EndsWithoutEntries, Entries, AliveIsOnBoard, Alive
<1>5. QED
  BY <1>3, <1>4

\* Requests: what they answer is RespondTypes; none comes when the daemon ends.
LEMMA RequestsKeepPosixInv ==
  ASSUME PosixInv, RequestEcho \/ RequestSubmit \/ RequestCancel \/ RequestGetInfo
  PROVE  PosixInv'
<1> USE DEF PosixInv
<1>1. pc \in {"read", "interrupted"} /\ Got \in Request /\ ~terminated
  <2>1. pc \in {"read", "interrupted"} /\ Got # None
    BY DEF RequestEcho, RequestSubmit, RequestCancel, RequestGetInfo, Gets
  <2>2. Got \in Request \cup {None}
    BY <2>1 DEF Got, TypeOK, ServedKnown
  <2>3. QED
    BY <2>1, <2>2 DEF EndsWithoutEntries
<1>2. PICK answers \in SUBSET {"running", "ended"} : Respond(answers)
  BY DEF RequestEcho, RequestSubmit, RequestCancel, RequestGetInfo
<1>3. /\ pc' = "children" /\ served' = None
      /\ req' \in Request \cup {None}
      /\ client' \in [Clients -> [pc : {"idle", "waits", "stuck"}, ask : Request \cup {None}]]
      /\ told' \in [Jobs -> {"running", "ended", "cancelled"}]
      /\ terminated' = terminated /\ races' = races
  BY <1>1, <1>2, RespondTypes
<1>4. /\ process' \in [Jobs -> Process] /\ board' \in [Jobs -> Entry]
      /\ ChildSigs' \in BOOLEAN /\ AlarmSig' \in BOOLEAN /\ alarm' \in BOOLEAN
      /\ \A j \in Jobs : Alive(j)' /\ ~process'[j].term => board'[j].state = "RUNNING"
  <2>1. CASE RequestEcho \/ RequestGetInfo
    BY <2>1 DEF RequestEcho, RequestGetInfo, TypeOK, AliveIsOnBoard, Alive
  <2>2. CASE RequestSubmit
    <3>1. PICK k \in Free : /\ process' = [process EXCEPT ![k].state = "alive"]
                            /\ board' = [board EXCEPT ![k] = [state |-> "RUNNING", over |-> FALSE]]
      BY <2>2 DEF RequestSubmit
    <3>2. k \in Jobs
      BY DEF Free
    <3>3. [state |-> "RUNNING", over |-> FALSE] \in Entry
      BY DEF Entry
    <3>4. board' \in [Jobs -> Entry] /\ process' \in [Jobs -> Process]
      <4>1. process[k] \in Process
        BY <3>2 DEF TypeOK
      <4>2. [process[k] EXCEPT !.state = "alive"] \in Process
        BY <4>1 DEF Process
      <4>3. QED
        BY <3>1, <3>3, <4>2 DEF TypeOK
    <3>5. board'[k].state = "RUNNING"
      BY <3>1, <3>2 DEF TypeOK
    <3>6. \A j \in Jobs \ {k} : board'[j] = board[j] /\ process'[j] = process[j]
      BY <3>1 DEF TypeOK
    <3>7. \A j \in Jobs : Alive(j)' /\ ~process'[j].term => board'[j].state = "RUNNING"
      BY <3>5, <3>6 DEF AliveIsOnBoard, Alive
    <3>8. QED
      BY <2>2, <3>4, <3>7 DEF RequestSubmit, TypeOK
  <2>3. CASE RequestCancel
    <3>1. CASE Got.job \notin Entries
      BY <2>3, <3>1 DEF RequestCancel, TypeOK, AliveIsOnBoard, Alive
    <3>2. CASE Got.job \in Entries
      <4>1. process' = AfterSigterm({Got.job}) /\ board' = Killed({Got.job})
        BY <2>3, <3>2 DEF RequestCancel
      <4>2. /\ process' \in [Jobs -> Process] /\ board' \in [Jobs -> Entry]
            /\ \A j \in Jobs : /\ process'[j].state = process[j].state
                               /\ process[j].term => process'[j].term
                               /\ j = Got.job /\ Alive(j) => process'[j].term
            /\ \A j \in Jobs \ {Got.job} : board'[j] = board[j]
        BY <4>1, SigtermSignals, KilledMarks
      <4>3. \A j \in Jobs : Alive(j)' /\ ~process'[j].term => board'[j].state = "RUNNING"
        BY <4>2 DEF AliveIsOnBoard, Alive
      <4>4. QED
        BY <2>3, <4>2, <4>3 DEF RequestCancel, TypeOK
    <3>3. QED
      BY <3>1, <3>2
  <2>4. QED
    BY <2>1, <2>2, <2>3
<1>5. TypeOK'
  BY <1>3, <1>4 DEF TypeOK
<1>6. ServedKnown' /\ EndsWithoutEntries' /\ AliveIsOnBoard'
  BY <1>1, <1>3, <1>4 DEF ServedKnown, EndsWithoutEntries, AliveIsOnBoard
<1>7. QED
  BY <1>5, <1>6

\* checkJobs removes no entry of a running process, and decides to end only when
\* it finds no entry at all.
LEMMA CheckJobsKeepsPosixInv ==
  ASSUME PosixInv, CheckJobs \/ ClearChildSigs
  PROVE  PosixInv'
<1> USE DEF PosixInv
<1>1. /\ UNCHANGED <<process, AlarmSig, served, req, client, told, races>>
      /\ pc \notin {"alarm", "end", "gone"} /\ pc' \in {"alarm", "clear"}
      /\ ~terminated
  BY DEF CheckJobs, ClearChildSigs, EndsWithoutEntries
<1>2. board' = board \/ board' = Cleaned
  BY DEF CheckJobs, ClearChildSigs
<1>3. /\ board' \in [Jobs -> Entry]
      /\ \A j \in Jobs : Alive(j) /\ board[j].state = "RUNNING" => board'[j] = board[j]
  BY <1>2, CleanedKeepsTheLiving DEF TypeOK
<1>4. ChildSigs' \in BOOLEAN /\ alarm' \in BOOLEAN /\ terminated' \in BOOLEAN
  BY DEF CheckJobs, ClearChildSigs, TypeOK
<1>5. TypeOK'
  BY <1>1, <1>3, <1>4 DEF TypeOK
<1>6. AliveIsOnBoard'
  BY <1>1, <1>3 DEF AliveIsOnBoard, Alive
<1>7. terminated' => pc' = "alarm" /\ Entries' = {}
  BY <1>1 DEF CheckJobs, ClearChildSigs, Entries
<1>8. ServedKnown' /\ EndsWithoutEntries'
  BY <1>1, <1>7 DEF ServedKnown, EndsWithoutEntries
<1>9. QED
  BY <1>5, <1>6, <1>8

\* timeStatement signals every process whose entry it turns to KILL, and adds no
\* entry.
LEMMA TimeStatementKeepsPosixInv ==
  ASSUME PosixInv, TimeStatement
  PROVE  PosixInv'
<1> USE DEF PosixInv
<1>1. /\ UNCHANGED <<ChildSigs, terminated, served, req, client, told, races>>
      /\ AlarmSig' = FALSE
      /\ pc' = IF terminated THEN "end" ELSE "enter"
  BY DEF TimeStatement
<1>2. alarm' \in BOOLEAN
  BY DEF TimeStatement, TypeOK
<1>3. /\ process' \in [Jobs -> Process] /\ board' \in [Jobs -> Entry]
      /\ \A j \in Jobs : Alive(j)' /\ ~process'[j].term => board'[j].state = "RUNNING"
  <2>1. CASE UNCHANGED <<process, board>>
    BY <2>1 DEF TypeOK, AliveIsOnBoard, Alive
  <2>2. CASE board' = Marked /\ UNCHANGED process
    BY <2>2, MarkedKeepsTheRunning DEF TypeOK, AliveIsOnBoard, Alive
  <2>3. CASE /\ board' = [j \in Jobs |-> IF j \in OverLimit THEN Killed(OverLimit)[j] ELSE Marked[j]]
             /\ process' = AfterSigterm(OverLimit)
    <3>1. /\ process' \in [Jobs -> Process]
          /\ \A j \in Jobs : /\ process'[j].state = process[j].state
                             /\ process[j].term => process'[j].term
                             /\ j \in OverLimit /\ Alive(j) => process'[j].term
      BY <2>3, SigtermSignals
    <3>2. /\ board' \in [Jobs -> Entry]
          /\ \A j \in Jobs \ OverLimit : board[j].state = "RUNNING" => board'[j] = board[j]
      BY <2>3, KilledMarks, MarkedKeepsTheRunning
    <3>3. QED
      BY <3>1, <3>2 DEF AliveIsOnBoard, Alive
  <2>4. QED
    BY <2>1, <2>2, <2>3 DEF TimeStatement
<1>4. TypeOK'
  BY <1>1, <1>2, <1>3 DEF TypeOK
<1>5. AliveIsOnBoard'
  BY <1>1, <1>3 DEF AliveIsOnBoard
<1>6. terminated => Entries' = {}
  <2>1. SUFFICES ASSUME terminated PROVE UNCHANGED board
    BY <2>1 DEF EndsWithoutEntries, Entries
  <2>2. \A j \in Jobs : board[j].state = "none"
    BY <2>1 DEF EndsWithoutEntries, Entries
  <2>3. OverLimit = {} /\ KillsAlive = {} /\ KillsEnded = {}
    BY <2>2 DEF OverLimit, Limited, Entries, KillsAlive, KillsEnded, InState
  <2>4. Marked = board
    BY <2>3 DEF Marked, TypeOK
  <2>5. QED
    BY <2>3, <2>4 DEF TimeStatement, TypeOK
<1>7. ServedKnown' /\ EndsWithoutEntries'
  BY <1>1, <1>6 DEF ServedKnown, EndsWithoutEntries
<1>8. QED
  BY <1>4, <1>5, <1>7

\* The daemon that ends leaves no process behind that was not told to end.
LEMMA EndKeepsPosixInv ==
  ASSUME PosixInv, End
  PROVE  PosixInv'
<1> USE DEF PosixInv
<1>1. \A j \in Jobs : Alive(j) => process[j].term
  BY DEF End, EndsWithoutEntries, Entries, AliveIsOnBoard
<1>2. board' \in [Jobs -> Entry]
  BY DEF End, Entry, NoEntry
<1>3. client' \in [Clients -> [pc : {"idle", "waits", "stuck"}, ask : Request \cup {None}]]
  BY DEF End, NoAsk
<1>4. told' \in [Jobs -> {"running", "ended", "cancelled"}]
  BY DEF End, TypeOK
<1>5. TypeOK'
  BY <1>2, <1>3, <1>4 DEF End, TypeOK
<1>6. ServedKnown' /\ EndsWithoutEntries' /\ AliveIsOnBoard'
  BY <1>1 DEF End, ServedKnown, EndsWithoutEntries, AliveIsOnBoard, Alive
<1>7. QED
  BY <1>5, <1>6

-----------------------------------------------------------------------------
(* Theorems *)

\* PosixInv is inductive.
THEOREM PosixInvariant == Spec => []PosixInv
<1>1. Init => PosixInv
  BY InitImpliesPosixInv
<1>2. PosixInv /\ [Next]_vars => PosixInv'
  <2> SUFFICES ASSUME PosixInv, [Next]_vars PROVE PosixInv'
    OBVIOUS
  <2>1. CASE \E c \in Users, ask \in Request : Ask(c, ask)
    BY <2>1, ClientsKeepPosixInv
  <2>2. CASE \E j \in Jobs : Poll(j) \/ PollNobody(j) \/ CancelNobody(j)
    BY <2>2, ClientsKeepPosixInv
  <2>3. CASE \E j \in Jobs : ProcessEnds(j)
    BY <2>3, ProcessEndsKeepsPosixInv
  <2>4. CASE \E j \in Jobs : LimitPasses(j)
    BY <2>4, LimitPassesKeepsPosixInv
  <2>5. CASE AlarmRings
    BY <2>5, AlarmRingsKeepsPosixInv
  <2>6. CASE Launch \/ Block \/ (\E c \in Clients : Accept(c)) \/ NoSignature
    BY <2>6, WaitingKeepsPosixInv
  <2>7. CASE RequestEcho \/ RequestSubmit \/ RequestCancel \/ RequestGetInfo
    BY <2>7, RequestsKeepPosixInv
  <2>8. CASE CheckJobs \/ ClearChildSigs
    BY <2>8, CheckJobsKeepsPosixInv
  <2>9. CASE TimeStatement
    BY <2>9, TimeStatementKeepsPosixInv
  <2>10. CASE End
    BY <2>10, EndKeepsPosixInv
  <2>11. CASE UNCHANGED vars
    BY <2>11 DEF vars, daemon, PosixInv, TypeOK, ServedKnown, EndsWithoutEntries, Entries,
                 AliveIsOnBoard, Alive
  <2>12. QED
    BY <2>1, <2>2, <2>3, <2>4, <2>5, <2>6, <2>7, <2>8, <2>9, <2>10, <2>11 DEF Next, DaemonStep
<1>3. QED
  BY <1>1, <1>2, PTL DEF Spec

\* Whatever number of jobs and clients, and whenever signals come: a process that
\* was not told to end is on the board as running, and the daemon has not ended.
THEOREM LivingJobsAreWatched == Spec => []AliveIsOnBoard
<1>1. PosixInv => AliveIsOnBoard
  BY DEF PosixInv
<1>2. QED
  BY <1>1, PosixInvariant, PTL

\* The daemon's variables, processes and clients keep their types.
THEOREM PosixTypeCorrect == Spec => []TypeOK
<1>1. PosixInv => TypeOK
  BY DEF PosixInv
<1>2. QED
  BY <1>1, PosixInvariant, PTL

-----------------------------------------------------------------------------
(* What VISHNU is told, as long as no signal comes at a wrong moment *)

ToldKnown ==
  /\ pc # "interrupted"
  /\ \A c \in Clients : client[c].ask # None /\ client[c].ask.job # None
                          => process[client[c].ask.job].state # "none"
  /\ \A j \in Jobs : told[j] # "running"
                       => process[j].state # "none" /\ (~Alive(j) \/ process[j].term)

\* A step starts a process, ends one, or sends SIGTERM to some; nobody takes a
\* signal back.
LEMMA ProcessMoves ==
  ASSUME PosixInv, [Next]_vars, NEW j \in Jobs
  PROVE  \/ process[j].state = "none"
         \/ process'[j].state = "ended"
         \/ /\ process'[j].state = process[j].state
            /\ process[j].term => process'[j].term
<1>1. CASE UNCHANGED process
  BY <1>1
<1>2. ASSUME NEW k \in Jobs, ProcessEnds(k)
      PROVE  process'[j].state = "ended" \/ process'[j] = process[j]
  BY <1>2 DEF ProcessEnds, PosixInv, TypeOK
<1>3. CASE RequestSubmit
  <2>1. PICK k \in Free : process' = [process EXCEPT ![k].state = "alive"]
    BY <1>3 DEF RequestSubmit
  <2>2. process[k].state = "none" /\ (j # k => process'[j] = process[j])
    BY <2>1 DEF Free, PosixInv, TypeOK
  <2>3. QED
    BY <2>2
<1>4. ASSUME NEW S, process' = AfterSigterm(S)
      PROVE  process'[j].state = process[j].state /\ (process[j].term => process'[j].term)
  BY <1>4, SigtermSignals DEF PosixInv
<1>5. RequestCancel \/ TimeStatement => UNCHANGED process \/ \E S : process' = AfterSigterm(S)
  BY DEF RequestCancel, TimeStatement
<1>6. UNCHANGED process \/ (\E k \in Jobs : ProcessEnds(k)) \/ RequestSubmit \/ RequestCancel \/ TimeStatement
  BY DEF Next, DaemonStep, Ask, Poll, PollNobody, CancelNobody, LimitPasses, AlarmRings, Launch, Block, Accept,
         NoSignature, RequestEcho, RequestGetInfo, CheckJobs, ClearChildSigs, End, vars
<1>7. QED
  BY <1>1, <1>2, <1>3, <1>4, <1>5, <1>6

\* A process that has ended, or was told to, does not come to life again.
LEMMA ProcessesProgress ==
  ASSUME PosixInv, [Next]_vars
  PROVE  \A j \in Jobs : process[j].state # "none" =>
            /\ process'[j].state # "none"
            /\ (~Alive(j) \/ process[j].term) => (process'[j].state # "alive" \/ process'[j].term)
BY ProcessMoves DEF Alive

\* Only a signal at a wrong moment makes the daemon read an old request.
LEMMA NotInterrupted ==
  ASSUME PosixInv, races = 0, races' = 0, ToldKnown, [Next]_vars
  PROVE  pc' # "interrupted"
<1>1. Interrupt => pc' # "interrupted"
  BY DEF Interrupt, Race, ToldKnown
<1>2. QED
  BY <1>1 DEF Next, DaemonStep, Ask, Poll, PollNobody, CancelNobody, ProcessEnds, Race, LimitPasses, AlarmRings, Launch,
         Block, Accept, NoSignature, RequestEcho, RequestSubmit, RequestCancel, RequestGetInfo, Respond,
         CheckJobs, ClearChildSigs, TimeStatement, End, vars, daemon, ToldKnown

\* Clients ask about jobs that were started.
LEMMA AsksAreKnown ==
  ASSUME PosixInv, ToldKnown, [Next]_vars, NEW c \in Clients,
         client'[c].ask # None, client'[c].ask.job # None
  PROVE  process[client'[c].ask.job].state # "none"
<1> USE DEF PosixInv, TypeOK
<1>1. CASE client'[c].ask = client[c].ask
  BY <1>1 DEF ToldKnown
<1>2. ASSUME NEW d, NEW ask \in Request, Ask(d, ask)
      PROVE  process[client'[c].ask.job].state # "none"
  <2>1. client'[c] = client[c] \/ client'[c] = [pc |-> "waits", ask |-> ask]
    BY <1>2 DEF Ask
  <2>2. ask.job # None => process[ask.job].state # "none"
    BY <1>2 DEF Ask
  <2>3. QED
    BY <1>1, <2>1, <2>2
<1>3. ASSUME NEW j \in Jobs, Poll(j)
      PROVE  process[client'[c].ask.job].state # "none"
  <2>1. [op |-> "GINFO", job |-> j] \in Request
    BY DEF Request
  <2>2. QED
    BY <1>2, <1>3, <2>1 DEF Poll
<1>4. CASE End \/ \E answers : Respond(answers)
  <2>1. CASE End
    BY <2>1 DEF End, NoAsk
  <2>2. ASSUME NEW answers, Respond(answers)
        PROVE  client'[c] = client[c] \/ client'[c].ask = None
    <3>1. client' = [client EXCEPT ![served] = NoAsk]
      BY <2>2 DEF Respond
    <3>2. QED
      BY <3>1 DEF NoAsk
  <2>3. QED
    BY <1>1, <1>4, <2>1, <2>2
<1>5. \/ client' = client
      \/ \E d \in Users, ask \in Request : Ask(d, ask)
      \/ \E j \in Jobs : Poll(j)
      \/ End \/ \E answers : Respond(answers)
  <2>1. CASE RequestEcho \/ RequestSubmit \/ RequestCancel \/ RequestGetInfo
    <3>1. CASE RequestEcho
      <4>1. Respond({"ended"})
        BY <3>1 DEF RequestEcho
      <4>2. QED
        BY <4>1
    <3>2. CASE RequestSubmit
      <4>1. Respond({"running"})
        BY <3>2 DEF RequestSubmit
      <4>2. QED
        BY <4>1
    <3>3. CASE RequestCancel
      <4>1. Respond({"running", "ended"})
        BY <3>3 DEF RequestCancel
      <4>2. QED
        BY <4>1
    <3>4. CASE RequestGetInfo
      <4>1. Respond({IF Got.job \in InState("RUNNING") THEN "running" ELSE "ended"})
        BY <3>4 DEF RequestGetInfo
      <4>2. QED
        BY <4>1
    <3>5. QED
      BY <2>1, <3>1, <3>2, <3>3, <3>4
  <2>2. CASE \E d \in Users, ask \in Request : Ask(d, ask)
    BY <2>2
  <2>3. ~NoSignature
    BY DEF NoSignature, ToldKnown
  <2>4. CASE UNCHANGED client
    BY <2>4
  <2>5. \/ RequestEcho \/ RequestSubmit \/ RequestCancel \/ RequestGetInfo
        \/ (\E d \in Users, ask \in Request : Ask(d, ask))
        \/ (\E j \in Jobs : Poll(j)) \/ End \/ UNCHANGED client
    BY <2>3 DEF Next, DaemonStep, PollNobody, CancelNobody, ProcessEnds, LimitPasses, AlarmRings, Launch, Block,
           Accept, CheckJobs, ClearChildSigs, TimeStatement, vars
  <2>6. QED
    BY <2>1, <2>2, <2>4, <2>5
<1>6. QED
  BY <1>1, <1>2, <1>3, <1>4, <1>5

\* What is told of a job by this step is about a started job, and true.
LEMMA TellsTruth ==
  ASSUME PosixInv, ToldKnown, [Next]_vars, NEW j \in Jobs,
         told'[j] # told[j], told'[j] # "running"
  PROVE  process[j].state # "none" /\ (process'[j].state # "alive" \/ process'[j].term)
<1> USE DEF PosixInv
<1>1. ASSUME NEW k \in Jobs, PollNobody(k) \/ CancelNobody(k)
      PROVE  process[j].state # "none" /\ (process'[j].state # "alive" \/ process'[j].term)
  <2>1. j = k
    BY <1>1 DEF PollNobody, CancelNobody, Tell, TypeOK
  <2>2. QED
    BY <1>1, <2>1 DEF PollNobody, CancelNobody, AliveIsOnBoard, Alive
<1>2. CASE End
  <2>1. ~Alive(j) \/ process[j].term
    BY <1>2 DEF End, EndsWithoutEntries, Entries, AliveIsOnBoard
  <2>2. PICK c \in Clients, op \in {"CANCEL", "GINFO"} : client[c].ask = [op |-> op, job |-> j]
    BY <1>2 DEF End, Cancelling, Asked, TypeOK
  <2>3. j # None
    BY NamesAssumption
  <2>4. [op |-> op, job |-> j].job = j
    OBVIOUS
  <2>5. client[c].ask # None
    BY <2>2, NoneAssumption DEF Request
  <2>6. process[j].state # "none"
    BY <2>2, <2>3, <2>4, <2>5 DEF ToldKnown
  <2>7. QED
    BY <1>2, <2>1, <2>6 DEF End, Alive
<1>3. CASE RequestEcho \/ RequestSubmit
  <2>1. pc = "read" /\ client[served].ask.op \in {"ECHO", "SUBMIT"}
    BY <1>3 DEF RequestEcho, RequestSubmit, Gets, Got, ToldKnown
  <2>2. told' = told
    BY <1>3, <2>1 DEF RequestEcho, RequestSubmit, Respond
  <2>3. QED
    BY <2>2
<1>4. CASE RequestCancel \/ RequestGetInfo
  <2>1. /\ pc = "read" /\ served \in Clients /\ Got = client[served].ask
        /\ Got # None /\ Got.op \in {"CANCEL", "GINFO"}
    BY <1>4 DEF RequestCancel, RequestGetInfo, Gets, Got, ToldKnown, ServedKnown
  <2>2. Got \in Request /\ Got.job \in Jobs
    BY <2>1 DEF TypeOK, Request
  <2>3. process[Got.job].state # "none"
    BY <2>1, <2>2, NamesAssumption DEF ToldKnown
  <2>4. j = Got.job
    BY <1>4, <2>1 DEF RequestCancel, RequestGetInfo, Respond, Tell, TypeOK
  <2>5. CASE RequestCancel
    <3>1. CASE Got.job \notin Entries
      BY <2>3, <2>4, <2>5, <3>1 DEF RequestCancel, Entries, AliveIsOnBoard, Alive
    <3>2. CASE Got.job \in Entries
      <4>1. process' = AfterSigterm({j})
        BY <2>4, <2>5, <3>2 DEF RequestCancel
      <4>2. process'[j].state = process[j].state /\ (Alive(j) => process'[j].term)
        BY <4>1, SigtermSignals
      <4>3. QED
        BY <2>3, <2>4, <4>2 DEF Alive
    <3>3. QED
      BY <3>1, <3>2
  <2>6. CASE RequestGetInfo
    <3>1. Got.op = "GINFO" /\ UNCHANGED process
      BY <2>6 DEF RequestGetInfo, Gets
    <3>2. j \notin InState("RUNNING")
      BY <2>1, <2>4, <2>6, <3>1 DEF RequestGetInfo, Respond, Tell, TypeOK
    <3>3. QED
      BY <2>3, <2>4, <3>1, <3>2 DEF InState, AliveIsOnBoard, Alive
  <2>7. QED
    BY <1>4, <2>5, <2>6
<1>5. \/ told' = told
      \/ \E k \in Jobs : PollNobody(k) \/ CancelNobody(k)
      \/ End \/ RequestEcho \/ RequestSubmit \/ RequestCancel \/ RequestGetInfo
  BY DEF Next, DaemonStep, Ask, Poll, ProcessEnds, LimitPasses, AlarmRings, Launch, Block, Accept,
         NoSignature, CheckJobs, ClearChildSigs, TimeStatement, vars
<1>6. QED
  BY <1>1, <1>2, <1>3, <1>4, <1>5

LEMMA ToldKnownStep ==
  ASSUME PosixInv, PosixInv', races = 0, races' = 0, ToldKnown, [Next]_vars
  PROVE  ToldKnown'
<1>1. pc' # "interrupted"
  BY NotInterrupted
<1>2. ASSUME NEW c \in Clients, client'[c].ask # None, client'[c].ask.job # None
      PROVE  process'[client'[c].ask.job].state # "none"
  <2>1. client'[c].ask.job \in Jobs
    BY <1>2 DEF PosixInv, TypeOK, Request
  <2>2. QED
    BY <1>2, <2>1, AsksAreKnown, ProcessesProgress
<1>3. ASSUME NEW j \in Jobs, told'[j] # "running"
      PROVE  process'[j].state # "none" /\ (process'[j].state # "alive" \/ process'[j].term)
  <2>1. CASE told'[j] = told[j]
    BY <1>3, <2>1, ProcessesProgress DEF ToldKnown
  <2>2. CASE told'[j] # told[j]
    BY <1>3, <2>2, TellsTruth, ProcessesProgress
  <2>3. QED
    BY <2>1, <2>2
<1>4. QED
  BY <1>1, <1>2, <1>3 DEF ToldKnown, Alive

\* What is told is known as long as races is 0.
ToldInv == races = 0 => ToldKnown

LEMMA RacesGrow ==
  ASSUME PosixInv, [Next]_vars
  PROVE  races' = 0 => races = 0
<1>1. races' = races \/ races' = races + 1
  BY DEF Next, DaemonStep, Ask, Poll, PollNobody, CancelNobody, ProcessEnds, Race, Interrupt, LimitPasses,
         AlarmRings, Launch, Block, Accept, NoSignature, RequestEcho, RequestSubmit, RequestCancel,
         RequestGetInfo, Respond, CheckJobs, ClearChildSigs, TimeStatement, End, vars
<1>2. QED
  BY <1>1, MaxRacesAssumption DEF PosixInv, TypeOK

LEMMA ToldInvariant == Spec => []ToldInv
<1>1. Init => ToldInv
  BY DEF Init, ToldInv, ToldKnown, NoAsk
<1>2. PosixInv /\ PosixInv' /\ ToldInv /\ [Next]_vars => ToldInv'
  BY RacesGrow, ToldKnownStep DEF ToldInv
<1>3. QED
  BY <1>1, <1>2, PosixInvariant, PTL DEF Spec

\* As long as no signal comes at a wrong moment: a job that VISHNU was told has
\* ended, or whose cancellation was answered, has ended or was sent SIGTERM.
THEOREM TellingIsTrue == Spec => []ToldIsTrue
<1>1. ToldInv => ToldIsTrue
  BY DEF ToldInv, ToldKnown, ToldIsTrue
<1>2. QED
  BY <1>1, ToldInvariant, PTL

-----------------------------------------------------------------------------
(* The daemon implements BatchSystem *)

\* The life of a job, in terms of its process.
LEMMA Lifes ==
  ASSUME TypeOK, NEW j \in Jobs
  PROVE  /\ Life(j) \in Scheduler!Lives
         /\ Life(j) = "none" <=> process[j].state = "none"
         /\ Life(j) = "ended" <=> process[j].state = "ended"
         /\ Life(j) = "killed" <=> Alive(j) /\ process[j].term
         /\ Life(j) = "alive" <=> Alive(j) /\ ~process[j].term
BY DEF TypeOK, Process, Life, Alive, Scheduler!Lives

\* A job's life goes one way, whatever the daemon and its clients do.
LEMMA LivesGoOn ==
  ASSUME PosixInv, PosixInv', [Next]_vars, NEW j \in Jobs
  PROVE  Life(j)' \in Scheduler!Later(Life(j))
<1>1. TypeOK /\ TypeOK'
  BY DEF PosixInv
<1>2. /\ Life(j) \in Scheduler!Lives
      /\ Life(j) = "none" <=> process[j].state = "none"
      /\ Life(j) = "ended" <=> process[j].state = "ended"
      /\ Life(j) = "killed" <=> Alive(j) /\ process[j].term
  BY <1>1, Lifes
<1>3. /\ Life(j)' \in Scheduler!Lives
      /\ Life(j)' = "none" <=> process'[j].state = "none"
      /\ Life(j)' = "ended" <=> process'[j].state = "ended"
      /\ Life(j)' = "killed" <=> process'[j].state = "alive" /\ process'[j].term
  BY <1>1 DEF TypeOK, Process, Life, Alive, Scheduler!Lives
<1>4. \/ Life(j) = "none"
      \/ Life(j)' = "ended"
      \/ /\ Life(j)' = "none" <=> Life(j) = "none"
         /\ Life(j)' = "ended" <=> Life(j) = "ended"
         /\ Life(j) = "killed" => Life(j)' = "killed"
  BY <1>2, <1>3, ProcessMoves DEF Alive
<1> DEFINE l == Life(j)
           m == Life(j)'
<1>5. /\ l \in {"none", "alive", "ended", "killed"} /\ m \in {"none", "alive", "ended", "killed"}
      /\ \/ l = "none" \/ m = "ended"
         \/ (m = "none" <=> l = "none") /\ (m = "ended" <=> l = "ended") /\ (l = "killed" => m = "killed")
  BY <1>2, <1>3, <1>4 DEF Scheduler!Lives
<1> HIDE DEF l, m
<1>6. m \in Scheduler!Later(l)
  BY <1>5 DEF Scheduler!Later, Scheduler!Lives
<1>7. QED
  BY <1>6 DEF l, m

\* What VISHNU is told is of jobs that have ended or were sent SIGTERM.
LEMMA OverIsKnown ==
  ASSUME TypeOK', ToldInv', races' = 0, NEW j \in Jobs, told'[j] # "running"
  PROVE  Life(j)' \in {"ended", "killed"}
<1>1. process'[j].state # "none" /\ (process'[j].state # "alive" \/ process'[j].term)
  BY DEF ToldInv, ToldKnown, Alive
<1>2. process'[j].state \in {"none", "alive", "ended"}
  BY DEF TypeOK, Process
<1>3. QED
  BY <1>1, <1>2 DEF Life, Alive

\* Whatever signals, requests and limits do, the daemon is a scheduler whose jobs
\* live once; and what its clients learn is true, as long as no signal comes at a
\* wrong moment.
THEOREM DaemonIsAScheduler == Spec => SchedulerSpec
<1>1. Init => Scheduler!Init
  BY DEF Init, Scheduler!Init, Life, Alive
<1>2. PosixInv /\ PosixInv' /\ ToldInv' /\ [Next]_vars => Scheduler!Next
  <2> SUFFICES ASSUME PosixInv, PosixInv', ToldInv', [Next]_vars PROVE Scheduler!Next
    OBVIOUS
  <2>1. ASSUME NEW j \in Jobs
        PROVE  Life(j)' \in Scheduler!Lives /\ Life(j)' \in Scheduler!Later(Life(j))
    <3>1. Life(j)' \in Scheduler!Lives
      BY DEF PosixInv, TypeOK, Process, Life, Alive, Scheduler!Lives
    <3>2. QED
      BY <3>1, LivesGoOn
  <2>2. Scheduler!Live
    BY <2>1 DEF Scheduler!Live
  <2>3. races' = 0 => races = 0 /\ \A j \in Jobs : told'[j] # "running" => Life(j)' \in {"ended", "killed"}
    BY RacesGrow, OverIsKnown DEF PosixInv
  <2>4. Scheduler!Learn
    BY <2>3 DEF Scheduler!Learn
  <2>5. QED
    BY <2>2, <2>4 DEF Scheduler!Next
<1>3. QED
  BY <1>1, <1>2, PosixInvariant, ToldInvariant, PTL DEF Spec, SchedulerSpec, Scheduler!Spec
=============================================================================
