----------------------------- MODULE DispatchProofs -----------------------------
(* Theorems about Dispatch. *)
EXTENDS Dispatch, FiniteSetTheorems, TLAPS

\* The parts of an attempt.
Fields == {"call", "to", "k", "i", "j"}
Caller == [pc : {"idle", "wait", "done"}, k : Nat, i : Nat,
           answer : {"none", "success", "error", "failed"}]

CallersKnown ==
  /\ client \in [Calls -> Caller]
  /\ ran \in [Calls -> [times : Nat, success : BOOLEAN]]

\* Every request on its way, and every one a worker handles, is of a call.
RequestsKnown ==
  /\ \A m \in requests : DOMAIN m = Fields /\ m.call \in Calls
  /\ \A w \in work : DOMAIN w.job = Fields /\ w.job.call \in Calls

\* A success on its way was executed.
SuccessesExecuted ==
  \A r \in replies : r.result = "success" => r.to.call \in Calls /\ ran[r.to.call].success

\* A caller has an answer only when its call is over.
Unanswered == \A c \in Calls : client[c].pc # "done" => client[c].answer = "none"

DispatchInv ==
  CallersKnown /\ RequestsKnown /\ SuccessesExecuted /\ Unanswered /\ SuccessIsExecuted

-----------------------------------------------------------------------------
\* What a worker sends on is of the call it handles.
LEMMA ForwardKeepsTheCall ==
  ASSUME NEW w, DOMAIN w.job = Fields
  PROVE  DOMAIN Forward(w) = Fields /\ Forward(w).call = w.job.call
BY DEF Forward, Fields

\* The attempts of a caller are of its call.
LEMMA TryIsOfItsCall ==
  ASSUME NEW c \in Calls, NEW k, NEW i
  PROVE  DOMAIN Try(c, k, i) = Fields /\ Try(c, k, i).call = c
BY DEF Try, Fields

\* A caller that sends its request keeps its answer.
LEMMA SendTryKeepsTheInvariant ==
  ASSUME DispatchInv, NEW c \in Calls, NEW k \in Nat, NEW i \in Nat, SendTry(c, k, i),
         client[c].pc # "done", UNCHANGED ran
  PROVE  /\ client' \in [Calls -> Caller]
         /\ \A m \in requests' : DOMAIN m = Fields /\ m.call \in Calls
         /\ Unanswered' /\ SuccessIsExecuted'
<1>1. client' \in [Calls -> Caller]
  <2>1. client[c] \in Caller
    BY DEF DispatchInv, CallersKnown
  <2>2. [client[c] EXCEPT !.pc = "wait", !.k = k, !.i = i] \in Caller
    BY <2>1 DEF Caller
  <2>3. client' = [client EXCEPT ![c] = [client[c] EXCEPT !.pc = "wait", !.k = k, !.i = i]]
    BY DEF SendTry
  <2>4. QED
    BY <2>2, <2>3 DEF DispatchInv, CallersKnown
<1>2. \A m \in requests' : DOMAIN m = Fields /\ m.call \in Calls
  BY TryIsOfItsCall DEF DispatchInv, RequestsKnown, SendTry
<1>3. Unanswered'
  BY DEF DispatchInv, CallersKnown, Caller, Unanswered, SendTry
<1>4. SuccessIsExecuted'
  BY DEF DispatchInv, CallersKnown, Caller, Unanswered, SuccessIsExecuted, SendTry
<1>5. QED
  BY <1>1, <1>2, <1>3, <1>4

\* A caller that is told a result is told of a success only if there was one.
LEMMA AnswerKeepsTheInvariant ==
  ASSUME DispatchInv, NEW c \in Calls, NEW answer \in {"none", "success", "error", "failed"},
         Answer(c, answer), answer = "success" => ran[c].success, UNCHANGED ran
  PROVE  /\ client' \in [Calls -> Caller]
         /\ \A m \in requests' : DOMAIN m = Fields /\ m.call \in Calls
         /\ Unanswered' /\ SuccessIsExecuted'
<1>1. client' \in [Calls -> Caller]
  <2>1. client[c] \in Caller
    BY DEF DispatchInv, CallersKnown
  <2>2. [client[c] EXCEPT !.pc = "done", !.answer = answer] \in Caller
    BY <2>1 DEF Caller
  <2>3. client' = [client EXCEPT ![c] = [client[c] EXCEPT !.pc = "done", !.answer = answer]]
    BY DEF Answer
  <2>4. QED
    BY <2>2, <2>3 DEF DispatchInv, CallersKnown
<1>2. \A m \in requests' : DOMAIN m = Fields /\ m.call \in Calls
  BY DEF DispatchInv, RequestsKnown, Answer
<1>3. Unanswered'
  BY DEF DispatchInv, CallersKnown, Caller, Unanswered, Answer
<1>4. SuccessIsExecuted'
  BY DEF DispatchInv, CallersKnown, Caller, Unanswered, SuccessIsExecuted, Answer
<1>5. QED
  BY <1>1, <1>2, <1>3, <1>4

\* A caller that goes on to its next target is told of no success.
LEMMA NextTargetKeepsTheInvariant ==
  ASSUME DispatchInv, NEW c \in Calls, NextTarget(c), client[c].pc # "done", UNCHANGED ran
  PROVE  /\ client' \in [Calls -> Caller]
         /\ \A m \in requests' : DOMAIN m = Fields /\ m.call \in Calls
         /\ Unanswered' /\ SuccessIsExecuted'
<1>1. client[c].k + 1 \in Nat
  BY DEF DispatchInv, CallersKnown, Caller
<1>2. CASE client[c].k < Last
  BY <1>1, <1>2, SendTryKeepsTheInvariant DEF NextTarget
<1>3. CASE ~(client[c].k < Last)
  BY <1>3, AnswerKeepsTheInvariant DEF NextTarget
<1>4. QED
  BY <1>2, <1>3

\* The three actions of a caller.
LEMMA CallerStep ==
  ASSUME DispatchInv, NEW c \in Calls, Call(c) \/ TimeOut(c) \/ Receive(c)
  PROVE  DispatchInv'
<1>1. CASE Call(c)
  <2>1. SendTry(c, 1, 1) /\ client[c].pc # "done" /\ UNCHANGED <<replies, work, ran>>
    BY <1>1 DEF Call
  <2>2. QED
    BY <2>1, SendTryKeepsTheInvariant DEF DispatchInv, CallersKnown, RequestsKnown, SuccessesExecuted
<1>2. CASE TimeOut(c)
  <2>1. client[c].pc # "done" /\ UNCHANGED <<work, ran>> /\ replies' \subseteq replies
    BY <1>2 DEF TimeOut, Closed
  <2>2. \/ client[c].i + 1 \in Nat /\ client[c].k \in Nat /\ SendTry(c, client[c].k, client[c].i + 1)
        \/ NextTarget(c)
    BY <1>2 DEF TimeOut, DispatchInv, CallersKnown, Caller
  <2>3. /\ client' \in [Calls -> Caller]
        /\ \A m \in requests' : DOMAIN m = Fields /\ m.call \in Calls
        /\ Unanswered' /\ SuccessIsExecuted'
    BY <2>1, <2>2, SendTryKeepsTheInvariant, NextTargetKeepsTheInvariant
  <2>4. QED
    BY <2>1, <2>3 DEF DispatchInv, CallersKnown, RequestsKnown, SuccessesExecuted
<1>3. CASE Receive(c)
  <2>1. PICK r \in replies :
          /\ r.to = Current(c)
          /\ replies' = replies \ {r}
          /\ NextTarget(c) \/ Answer(c, Told(r.result))
    BY <1>3 DEF Receive
  <2>2. client[c].pc # "done" /\ UNCHANGED <<work, ran>> /\ replies' \subseteq replies
    BY <1>3, <2>1 DEF Receive
  <2>3. r.to.call = c
    BY <2>1, TryIsOfItsCall DEF Current
  <2>4. Told(r.result) = "success" => ran[c].success
    BY <2>3 DEF Told, DispatchInv, SuccessesExecuted
  <2>5. Told(r.result) \in {"none", "success", "error", "failed"}
    BY DEF Told
  <2>6. /\ client' \in [Calls -> Caller]
        /\ \A m \in requests' : DOMAIN m = Fields /\ m.call \in Calls
        /\ Unanswered' /\ SuccessIsExecuted'
    BY <2>1, <2>2, <2>4, <2>5, AnswerKeepsTheInvariant, NextTargetKeepsTheInvariant
  <2>7. QED
    BY <2>2, <2>6 DEF DispatchInv, CallersKnown, RequestsKnown, SuccessesExecuted
<1>4. QED
  BY <1>1, <1>2, <1>3

\* What a server or a worker delivers is a success only if there was one.
LEMMA DeliveredIsOfItsRequest ==
  ASSUME NEW m, NEW result, NEW r \in Delivered(m, result)
  PROVE  r.to = m /\ r.result = result
BY DEF Delivered

\* A server that executes a call with success says so in ran.
LEMMA ExecuteStep ==
  ASSUME DispatchInv, NEW s \in Servers, Execute(s)
  PROVE  DispatchInv'
<1>1. PICK m \in requests, result \in {"success", "error", "unknown"} :
        /\ requests' = requests \ {m}
        /\ replies' = replies \cup Delivered(m, result)
        /\ ran' = [ran EXCEPT ![m.call].times = @ + (IF s \in provides THEN 1 ELSE 0),
                              ![m.call].success = @ \/ result = "success"]
  BY DEF Execute
<1>2. UNCHANGED <<client, work>>
  BY DEF Execute
<1>3. m.call \in Calls
  BY DEF DispatchInv, RequestsKnown
<1>4. ran' \in [Calls -> [times : Nat, success : BOOLEAN]]
  BY <1>1, <1>3 DEF DispatchInv, CallersKnown
<1>5. \A c \in Calls : ran[c].success => ran'[c].success
  BY <1>1, <1>3 DEF DispatchInv, CallersKnown
<1>6. result = "success" => ran'[m.call].success
  BY <1>1, <1>3 DEF DispatchInv, CallersKnown
<1>7. SuccessesExecuted'
  <2>1. SUFFICES ASSUME NEW r \in replies', r.result = "success"
                 PROVE  r.to.call \in Calls /\ ran'[r.to.call].success
    BY DEF SuccessesExecuted
  <2>2. CASE r \in replies
    BY <2>1, <2>2, <1>5 DEF DispatchInv, SuccessesExecuted
  <2>3. CASE r \in Delivered(m, result)
    <3>1. r.to = m /\ r.result = result
      BY <2>3, DeliveredIsOfItsRequest
    <3>2. QED
      BY <2>1, <3>1, <1>3, <1>6
  <2>4. QED
    BY <1>1, <2>2, <2>3
<1>8. QED
  BY <1>1, <1>2, <1>4, <1>5, <1>7
  DEF DispatchInv, CallersKnown, RequestsKnown, Unanswered, SuccessIsExecuted

\* A worker elects a server for its request, or answers that there is none.
LEMMA ElectCases ==
  ASSUME Elect
  PROVE  /\ UNCHANGED <<client, ran, provides>>
         /\ \E m \in requests :
              /\ m.to = Disp
              /\ \/ \E uri \in Servers :
                      /\ work' = work \cup {Work(m, uri, 1)}
                      /\ requests' = (requests \ {m}) \cup {Forward(Work(m, uri, 1))}
                      /\ UNCHANGED replies
                 \/ /\ requests' = requests \ {m}
                    /\ replies' = replies \cup Delivered(m, "error")
                    /\ UNCHANGED work
BY DEF Elect, Elected, HasService, Entry

LEMMA ElectStep ==
  ASSUME DispatchInv, Elect
  PROVE  DispatchInv'
<1>1. UNCHANGED <<client, ran>>
  BY ElectCases
<1>2. PICK m \in requests : \E uri :
        \/ /\ work' = work \cup {Work(m, uri, 1)}
           /\ requests' = (requests \ {m}) \cup {Forward(Work(m, uri, 1))}
           /\ UNCHANGED replies
        \/ /\ requests' = requests \ {m}
           /\ replies' = replies \cup Delivered(m, "error")
           /\ UNCHANGED work
  BY ElectCases
<1>3. PICK uri :
        \/ /\ work' = work \cup {Work(m, uri, 1)}
           /\ requests' = (requests \ {m}) \cup {Forward(Work(m, uri, 1))}
           /\ UNCHANGED replies
        \/ /\ requests' = requests \ {m}
           /\ replies' = replies \cup Delivered(m, "error")
           /\ UNCHANGED work
  BY <1>2
<1>4. DOMAIN m = Fields /\ m.call \in Calls /\ Work(m, uri, 1).job = m
  BY DEF DispatchInv, RequestsKnown, Work
<1>5. DOMAIN Forward(Work(m, uri, 1)) = Fields /\ Forward(Work(m, uri, 1)).call \in Calls
  BY <1>4, ForwardKeepsTheCall
<1>6. RequestsKnown'
  BY <1>3, <1>4, <1>5 DEF DispatchInv, RequestsKnown
<1>7. \A r \in replies' : r.result = "success" => r \in replies
  BY <1>3, DeliveredIsOfItsRequest
<1>8. QED
  BY <1>1, <1>6, <1>7
  DEF DispatchInv, CallersKnown, SuccessesExecuted, Unanswered, SuccessIsExecuted

\* A worker whose server does not answer tries again or sends the request back.
LEMMA ForwardTimeOutStep ==
  ASSUME DispatchInv, ForwardTimeOut
  PROVE  DispatchInv'
<1>1. PICK w \in work :
        LET again == Work(w.job, w.uri, w.j + 1) IN
        IF MayRetry(w.j)
        THEN /\ work' = (work \ {w}) \cup {again}
             /\ requests' = (requests \ Dropped(Forward(w))) \cup {Forward(again)}
             /\ Closed(Forward(w))
        ELSE /\ work' = work \ {w}
             /\ replies' = {r \in replies : r.to # Forward(w)} \cup Delivered(w.job, "echo")
             /\ requests' = requests \ Dropped(Forward(w))
  BY DEF ForwardTimeOut
<1> DEFINE again == Work(w.job, w.uri, w.j + 1)
<1>2. UNCHANGED <<client, ran>>
  BY DEF ForwardTimeOut
<1>3. \A r \in replies' : r.result = "success" => r \in replies
  BY <1>1, DeliveredIsOfItsRequest DEF Closed
<1>4. DOMAIN w.job = Fields /\ w.job.call \in Calls /\ again.job = w.job
  BY DEF DispatchInv, RequestsKnown, Work
<1>5. DOMAIN Forward(again) = Fields /\ Forward(again).call \in Calls
  BY <1>4, ForwardKeepsTheCall
<1>6. work' \subseteq work \cup {again} /\ requests' \subseteq requests \cup {Forward(again)}
  BY <1>1
<1> HIDE DEF again
<1>7. RequestsKnown'
  BY <1>4, <1>5, <1>6 DEF DispatchInv, RequestsKnown
<1>8. QED
  BY <1>2, <1>3, <1>7
  DEF DispatchInv, CallersKnown, SuccessesExecuted, Unanswered, SuccessIsExecuted

\* A worker hands the answer of the server on to the caller of its request.
LEMMA ForwardReceiveStep ==
  ASSUME DispatchInv, ForwardReceive
  PROVE  DispatchInv'
<1>1. PICK w \in work, r \in replies :
        /\ r.to = Forward(w)
        /\ work' = work \ {w}
        /\ replies' = (replies \ {r}) \cup Delivered(w.job, r.result)
  BY DEF ForwardReceive
<1>2. UNCHANGED <<client, requests, ran>>
  BY DEF ForwardReceive
<1>3. r.to.call = w.job.call
  BY <1>1, ForwardKeepsTheCall DEF DispatchInv, RequestsKnown
<1>4. SuccessesExecuted'
  BY <1>1, <1>2, <1>3, DeliveredIsOfItsRequest DEF DispatchInv, SuccessesExecuted
<1>5. QED
  BY <1>1, <1>2, <1>4
  DEF DispatchInv, CallersKnown, RequestsKnown, Unanswered, SuccessIsExecuted

\* Whatever happens to the servers and to the directory.
LEMMA DirectoryStep ==
  ASSUME DispatchInv,
         \/ BayWatch \/ RestartDispatcher
         \/ \E s \in Servers : EndServer(s) \/ StartServer(s) \/ Subscribe(s)
         \/ UNCHANGED vars
  PROVE  DispatchInv'
<1>1. /\ UNCHANGED <<client, ran>>
      /\ requests' \subseteq requests /\ work' \subseteq work /\ replies' \subseteq replies
  BY DEF BayWatch, Snapshot, Heartbeat, RestartDispatcher, EndServer, StartServer, Subscribe, vars
<1>2. QED
  BY <1>1
  DEF DispatchInv, CallersKnown, RequestsKnown, SuccessesExecuted, Unanswered, SuccessIsExecuted

-----------------------------------------------------------------------------
\* The invariant holds for any calls, servers, configuration and retries.
THEOREM DispatchInvariant == Spec => []DispatchInv
<1>1. Init => DispatchInv
  <2>1. Init => CallersKnown
    BY DEF Init, CallersKnown, Caller
  <2>2. QED
    BY <2>1 DEF Init, DispatchInv, RequestsKnown, SuccessesExecuted, Unanswered, SuccessIsExecuted
<1>2. DispatchInv /\ [Next]_vars => DispatchInv'
  BY CallerStep, ExecuteStep, ElectStep, ForwardTimeOutStep, ForwardReceiveStep, DirectoryStep
  DEF Next
<1>3. QED
  BY <1>1, <1>2, PTL DEF Spec

\* A caller who is told "success" is told the truth, however often its request
\* timed out, was sent again, relayed, or met a server or a dispatcher that
\* ended (diet_call, LazyPirateClient, ServiceWorker).
THEOREM SuccessIsTrue == Spec => []SuccessIsExecuted
<1>1. DispatchInv => SuccessIsExecuted
  BY DEF DispatchInv
<1>2. QED
  BY <1>1, DispatchInvariant, PTL

-----------------------------------------------------------------------------
(* How often a call is executed.  A call may be sent to the target k for the *)
(* ith time, and from the dispatcher, for its request i, for the jth time:   *)
(* each of these turns is used once.  DirectTurns and RelayedTurns are those *)
(* that have not been used up.                                               *)

AllDirect == (1 .. Len(Targets)) \X (1 .. Tries)
AllRelayed == (1 .. Tries) \X (1 .. Tries)

\* The caller has not come to the try i of its target k.
ToCome(c, k, i) ==
  \/ client[c].pc = "idle"
  \/ k > client[c].k
  \/ k = client[c].k /\ i > client[c].i

\* A request on its way that is this turn of the call.
OnItsWay(c, k, i, j) ==
  \E m \in requests : m.call = c /\ m.k = k /\ m.i = i /\ m.j = j

DirectTurns(c) ==
  {p \in AllDirect : ToCome(c, p[1], p[2]) \/ OnItsWay(c, p[1], p[2], 0)}

RelayedTurns(c) ==
  {p \in AllRelayed :
     \/ ToCome(c, Last, p[1])
     \/ OnItsWay(c, Last, p[1], 0)
     \/ \E w \in work : w.job = Try(c, Last, p[1]) /\ w.j < p[2]
     \/ OnItsWay(c, Last, p[1], p[2])}

TurnsCounted ==
  \A c \in Calls :
    ran[c].times + Cardinality(DirectTurns(c)) + Cardinality(RelayedTurns(c))
      <= AllTurns

Positions ==
  \A c \in Calls : client[c].k \in 1 .. Last /\ client[c].i \in 1 .. Tries

\* The requests on their way come from a caller, or from a worker that has the
\* caller's request.
RequestsAreTurns ==
  /\ provides \subseteq Servers
  /\ \A m \in requests :
       /\ m.call \in Calls /\ m.k \in 1 .. Last /\ m.i \in 1 .. Tries /\ m.j \in 0 .. Tries
       /\ ~ToCome(m.call, m.k, m.i)
       /\ m.j = 0 => m = Try(m.call, m.k, m.i)
       /\ m.j # 0 => m.k = Last /\ m.to \in Servers

WorkIsOfRequests ==
  \A w \in work :
    /\ w.job.call \in Calls /\ w.job.i \in 1 .. Tries /\ w.j \in 1 .. Tries
    /\ ~ToCome(w.job.call, Last, w.job.i)
    /\ w.job = Try(w.job.call, Last, w.job.i)
    /\ w.uri \in Servers

\* A request is taken once, its worker counts, and no turn is on its way twice.
TurnsAreOnce ==
  /\ \A m \in requests, w \in work : m # w.job
  /\ \A v, w \in work : v.job = w.job => v = w
  /\ \A m, n \in requests :
       m.call = n.call /\ m.k = n.k /\ m.i = n.i =>
         /\ m.j = n.j => m = n
         /\ m.k = Last /\ m.j = 0 => n.j = 0
  /\ \A m \in requests, w \in work :
       m.call = w.job.call /\ m.k = Last /\ m.i = w.job.i => m.j <= w.j

TurnsInv == DispatchInv /\ Positions /\ RequestsAreTurns /\ WorkIsOfRequests /\ TurnsAreOnce

LEMMA Numbers == Len(Targets) \in Nat /\ Tries \in Nat \ {0} /\ Last = Len(Targets) + 1
BY ServersAssumption, NumbersAssumption DEF Last

\* The parts of a caller's attempt.
LEMMA TryParts ==
  ASSUME NEW c, NEW k, NEW i
  PROVE  /\ Try(c, k, i).call = c /\ Try(c, k, i).k = k /\ Try(c, k, i).i = i /\ Try(c, k, i).j = 0
         /\ Try(c, k, i).to = IF k = Last THEN Disp ELSE Targets[k]
BY DEF Try

\* The parts of what a worker sends for a caller's request.
LEMMA ForwardParts ==
  ASSUME NEW w, NEW c, NEW i, w.job = Try(c, Last, i)
  PROVE  /\ Forward(w).call = c /\ Forward(w).k = Last /\ Forward(w).i = i
         /\ Forward(w).to = w.uri /\ Forward(w).j = w.j
BY DEF Forward, Try

LEMMA WorkParts ==
  ASSUME NEW job, NEW uri, NEW j
  PROVE  Work(job, uri, j).job = job /\ Work(job, uri, j).uri = uri /\ Work(job, uri, j).j = j
BY DEF Work

\* The turns are finitely many.
LEMMA TurnsAreFinite ==
  ASSUME NEW c
  PROVE  /\ IsFiniteSet(AllDirect) /\ Cardinality(AllDirect) = Len(Targets) * Tries
         /\ IsFiniteSet(AllRelayed) /\ Cardinality(AllRelayed) = Tries * Tries
         /\ IsFiniteSet(DirectTurns(c)) /\ Cardinality(DirectTurns(c)) \in Nat
         /\ IsFiniteSet(RelayedTurns(c)) /\ Cardinality(RelayedTurns(c)) \in Nat
<1>1. /\ IsFiniteSet(1 .. Tries) /\ Cardinality(1 .. Tries) = Tries
      /\ IsFiniteSet(1 .. Len(Targets)) /\ Cardinality(1 .. Len(Targets)) = Len(Targets)
  <2>1. ASSUME NEW n \in Nat PROVE IsFiniteSet(1 .. n) /\ Cardinality(1 .. n) = n
    BY FS_Interval
  <2>2. QED
    BY <2>1, Numbers
<1>2. /\ IsFiniteSet(AllDirect) /\ Cardinality(AllDirect) = Len(Targets) * Tries
      /\ IsFiniteSet(AllRelayed) /\ Cardinality(AllRelayed) = Tries * Tries
  <2>1. ASSUME NEW S, NEW T, IsFiniteSet(S), IsFiniteSet(T)
        PROVE  IsFiniteSet(S \X T) /\ Cardinality(S \X T) = Cardinality(S) * Cardinality(T)
    BY <2>1, FS_Product
  <2>2. /\ IsFiniteSet(AllDirect)
        /\ Cardinality(AllDirect) = Cardinality(1 .. Len(Targets)) * Cardinality(1 .. Tries)
        /\ IsFiniteSet(AllRelayed)
        /\ Cardinality(AllRelayed) = Cardinality(1 .. Tries) * Cardinality(1 .. Tries)
    BY <1>1, <2>1, Zenon DEF AllDirect, AllRelayed
  <2>3. QED
    BY <1>1, <2>2, Zenon
<1>3. DirectTurns(c) \in SUBSET AllDirect /\ RelayedTurns(c) \in SUBSET AllRelayed
  BY DEF DirectTurns, RelayedTurns
<1>4. QED
  BY <1>2, <1>3, FS_Subset, FS_CardinalityType

LEMMA TurnsAreNumbers ==
  Len(Targets) * Tries \in Nat /\ Tries * Tries \in Nat /\ AllTurns \in Nat
<1>1. Len(Targets) * Tries \in Nat /\ Tries * Tries \in Nat
  BY TurnsAreFinite, FS_CardinalityType
<1>2. \A a, b \in Nat : a + b \in Nat
  OBVIOUS
<1>3. QED
  BY <1>1, <1>2 DEF AllTurns

\* A step that executes nothing and opens no turn again.
LEMMA NoMoreTurns ==
  ASSUME CallersKnown, TurnsCounted, UNCHANGED ran,
         \A c \in Calls : /\ DirectTurns(c)' \subseteq DirectTurns(c)
                          /\ RelayedTurns(c)' \subseteq RelayedTurns(c)
  PROVE  TurnsCounted'
<1>1. SUFFICES ASSUME NEW c \in Calls
               PROVE  ran[c].times + Cardinality(DirectTurns(c)') + Cardinality(RelayedTurns(c)')
                        <= AllTurns
  BY DEF TurnsCounted
<1>2. /\ Cardinality(DirectTurns(c)') \in Nat /\ Cardinality(DirectTurns(c)') <= Cardinality(DirectTurns(c))
      /\ Cardinality(RelayedTurns(c)') \in Nat /\ Cardinality(RelayedTurns(c)') <= Cardinality(RelayedTurns(c))
  BY TurnsAreFinite, FS_Subset, FS_CardinalityType
<1>3. /\ Cardinality(DirectTurns(c)) \in Nat /\ Cardinality(RelayedTurns(c)) \in Nat
      /\ AllTurns \in Nat
  BY TurnsAreFinite, TurnsAreNumbers
<1>4. ran[c].times \in Nat
  BY DEF CallersKnown
<1>5. ran[c].times + Cardinality(DirectTurns(c)) + Cardinality(RelayedTurns(c))
        <= AllTurns
  BY DEF TurnsCounted
<1>6. QED
  BY <1>2, <1>3, <1>4, <1>5

\* A caller that comes to a turn has that turn behind it, and no other again.
LEMMA ComingToATurn ==
  ASSUME DispatchInv, Positions, NEW c \in Calls, NEW k \in 1 .. Last, NEW i \in 1 .. Tries,
         ToCome(c, k, i), SendTry(c, k, i)
  PROVE  /\ Positions' /\ ~ToCome(c, k, i)'
         /\ \A d \in Calls, l \in 1 .. Last, n \in 1 .. Tries : ToCome(d, l, n)' => ToCome(d, l, n)
<1>1. /\ client' = [client EXCEPT ![c].pc = "wait", ![c].k = k, ![c].i = i]
      /\ client \in [Calls -> Caller]
  BY DEF SendTry, DispatchInv, CallersKnown
<1>2. /\ client'[c].pc = "wait" /\ client'[c].k = k /\ client'[c].i = i
      /\ \A d \in Calls \ {c} : client'[d] = client[d]
  BY <1>1 DEF Caller
<1>3. k \in Int /\ i \in Int /\ client[c].k \in Int /\ client[c].i \in Int
  BY Numbers DEF Positions
<1>4. Positions'
  BY <1>2 DEF Positions
<1>5. ~ToCome(c, k, i)'
  BY <1>2, <1>3 DEF ToCome
<1>6. ASSUME NEW l \in 1 .. Last, NEW n \in 1 .. Tries, ToCome(c, l, n)'
      PROVE  ToCome(c, l, n)
  <2>1. l > k \/ (l = k /\ n > i)
    BY <1>2, <1>6 DEF ToCome
  <2>2. l \in Int /\ n \in Int
    BY Numbers
  <2>3. QED
    BY <1>3, <2>1, <2>2 DEF ToCome
<1>7. ASSUME NEW d \in Calls \ {c}, NEW l, NEW n, ToCome(d, l, n)'
      PROVE  ToCome(d, l, n)
  BY <1>2, <1>7 DEF ToCome
<1>8. QED
  BY <1>4, <1>5, <1>6, <1>7

\* What is true of the turns after a step that opens none.
TurnsKept ==
  /\ Positions' /\ RequestsAreTurns' /\ WorkIsOfRequests' /\ TurnsAreOnce'
  /\ \A c \in Calls : /\ DirectTurns(c)' \subseteq DirectTurns(c)
                       /\ RelayedTurns(c)' \subseteq RelayedTurns(c)

\* Requests that are dropped, taken or answered open no turn.
LEMMA FewerRequests ==
  ASSUME TurnsInv, Positions', requests' \subseteq requests, work' \subseteq work, UNCHANGED provides,
         \A c \in Calls, k \in 1 .. Last, i \in 1 .. Tries : ToCome(c, k, i)' => ToCome(c, k, i)
  PROVE  TurnsKept
<1>1. Last \in 1 .. Last /\ (1 .. Len(Targets)) \subseteq 1 .. Last
  BY Numbers
<1>2. RequestsAreTurns'
  BY DEF TurnsInv, RequestsAreTurns
<1>3. WorkIsOfRequests'
  BY <1>1 DEF TurnsInv, WorkIsOfRequests
<1>4. TurnsAreOnce'
  BY DEF TurnsInv, TurnsAreOnce
<1>5. ASSUME NEW c \in Calls
      PROVE  DirectTurns(c)' \subseteq DirectTurns(c) /\ RelayedTurns(c)' \subseteq RelayedTurns(c)
  <2>1. DirectTurns(c)' \subseteq DirectTurns(c)
    BY <1>1 DEF DirectTurns, AllDirect, OnItsWay
  <2>2. RelayedTurns(c)' \subseteq RelayedTurns(c)
    BY <1>1 DEF RelayedTurns, AllRelayed, OnItsWay
  <2>3. QED
    BY <2>1, <2>2
<1>6. QED
  BY <1>2, <1>3, <1>4, <1>5 DEF TurnsKept

\* A caller that sends a request uses a turn it has not come to.
LEMMA SendTryKeepsTurns ==
  ASSUME TurnsInv, NEW c \in Calls, NEW k \in 1 .. Last, NEW i \in 1 .. Tries,
         ToCome(c, k, i), SendTry(c, k, i), UNCHANGED <<work, provides>>
  PROVE  TurnsKept
<1> DEFINE new == Try(c, k, i)
<1>1. /\ Positions' /\ ~ToCome(c, k, i)'
      /\ \A d \in Calls, l \in 1 .. Last, n \in 1 .. Tries : ToCome(d, l, n)' => ToCome(d, l, n)
  BY ComingToATurn DEF TurnsInv
<1>2. requests' \subseteq requests \cup {new}
  BY DEF SendTry
<1>3. new.call = c /\ new.k = k /\ new.i = i /\ new.j = 0
  BY TryParts
<1>4. Last \in 1 .. Last /\ (1 .. Len(Targets)) \subseteq 1 .. Last /\ 0 \in 0 .. Tries
  BY Numbers
<1>5. \A m \in requests : ~(m.call = c /\ m.k = k /\ m.i = i)
  BY DEF TurnsInv, RequestsAreTurns
<1>6. \A w \in work : ~(w.job.call = c /\ k = Last /\ w.job.i = i)
  BY DEF TurnsInv, WorkIsOfRequests
<1>7. new = Try(new.call, new.k, new.i)
  BY <1>3
<1>8. RequestsAreTurns'
  <2> HIDE DEF new
  <2>1. provides' \subseteq Servers
    BY DEF TurnsInv, RequestsAreTurns
  <2>2. ASSUME NEW m \in requests'
        PROVE  /\ m.call \in Calls /\ m.k \in 1 .. Last /\ m.i \in 1 .. Tries /\ m.j \in 0 .. Tries
               /\ ~ToCome(m.call, m.k, m.i)'
               /\ m.j = 0 => m = Try(m.call, m.k, m.i)
               /\ m.j # 0 => m.k = Last /\ m.to \in Servers
    <3>1. CASE m = new
      BY <1>1, <1>3, <1>4, <1>7, <3>1
    <3>2. CASE m \in requests
      BY <1>1, <3>2 DEF TurnsInv, RequestsAreTurns
    <3>3. QED
      BY <1>2, <3>1, <3>2
  <2>3. QED
    BY <2>1, <2>2 DEF RequestsAreTurns
<1>9. WorkIsOfRequests'
  BY <1>1, <1>4 DEF TurnsInv, WorkIsOfRequests
<1> HIDE DEF new
<1>10. TurnsAreOnce'
  <2>1. \A w \in work : new # w.job
    BY <1>3, <1>6, TryParts DEF TurnsInv, WorkIsOfRequests
  <2>2. \A m \in requests', w \in work' : m # w.job
    BY <1>2, <2>1 DEF TurnsInv, TurnsAreOnce
  <2>3. \A v, w \in work' : v.job = w.job => v = w
    BY DEF TurnsInv, TurnsAreOnce
  <2>4. ASSUME NEW m \in requests', NEW n \in requests', m.call = n.call, m.k = n.k, m.i = n.i
        PROVE  (m.j = n.j => m = n) /\ (m.k = Last /\ m.j = 0 => n.j = 0)
    <3>1. CASE m = new
      BY <1>2, <1>3, <1>5, <2>4, <3>1
    <3>2. CASE n = new
      BY <1>2, <1>3, <1>5, <2>4, <3>2
    <3>3. CASE m \in requests /\ n \in requests
      BY <2>4, <3>3 DEF TurnsInv, TurnsAreOnce
    <3>4. QED
      BY <1>2, <3>1, <3>2, <3>3
  <2>5. \A m \in requests', w \in work' :
          m.call = w.job.call /\ m.k = Last /\ m.i = w.job.i => m.j <= w.j
    BY <1>2, <1>3, <1>6 DEF TurnsInv, TurnsAreOnce
  <2>6. QED
    BY <2>2, <2>3, <2>4, <2>5 DEF TurnsAreOnce
<1>11. ASSUME NEW d \in Calls, NEW l \in 1 .. Last, NEW n \in 1 .. Tries, NEW j, OnItsWay(d, l, n, j)'
       PROVE  OnItsWay(d, l, n, j) \/ ToCome(d, l, n)
  BY <1>2, <1>3, <1>11 DEF OnItsWay
<1>12. ASSUME NEW d \in Calls
       PROVE  DirectTurns(d)' \subseteq DirectTurns(d) /\ RelayedTurns(d)' \subseteq RelayedTurns(d)
  <2>1. DirectTurns(d)' \subseteq DirectTurns(d)
    BY <1>1, <1>4, <1>11 DEF DirectTurns, AllDirect
  <2>2. RelayedTurns(d)' \subseteq RelayedTurns(d)
    BY <1>1, <1>4, <1>11 DEF RelayedTurns, AllRelayed
  <2>3. QED
    BY <2>1, <2>2
<1>13. QED
  BY <1>1, <1>8, <1>9, <1>10, <1>12 DEF TurnsKept

\* A caller that is answered, or gives up.
LEMMA AnswerKeepsTurns ==
  ASSUME TurnsInv, NEW c \in Calls, NEW answer, Answer(c, answer), UNCHANGED <<work, provides>>
  PROVE  TurnsKept
<1>1. /\ client \in [Calls -> Caller]
      /\ client' = [client EXCEPT ![c].pc = "done", ![c].answer = answer]
  BY DEF Answer, TurnsInv, DispatchInv, CallersKnown
<1>2. /\ client'[c].pc = "done" /\ client'[c].k = client[c].k /\ client'[c].i = client[c].i
      /\ \A d \in Calls \ {c} : client'[d] = client[d]
  BY <1>1 DEF Caller
<1>3. Positions'
  BY <1>2 DEF TurnsInv, Positions
<1>4. \A d \in Calls, k \in 1 .. Last, i \in 1 .. Tries : ToCome(d, k, i)' => ToCome(d, k, i)
  BY <1>2 DEF ToCome
<1>5. requests' \subseteq requests
  BY DEF Answer
<1>6. QED
  BY <1>3, <1>4, <1>5, FewerRequests

\* A caller that passes on to its next target comes to the first try there.
LEMMA NextTargetKeepsTurns ==
  ASSUME TurnsInv, NEW c \in Calls, NextTarget(c), UNCHANGED <<work, provides>>
  PROVE  TurnsKept
<1>1. CASE client[c].k < Last
  <2>1. /\ client[c].k + 1 \in 1 .. Last /\ 1 \in 1 .. Tries
        /\ client[c].k + 1 > client[c].k
    BY <1>1, Numbers DEF TurnsInv, Positions
  <2>2. ToCome(c, client[c].k + 1, 1)
    BY <2>1 DEF ToCome
  <2>3. SendTry(c, client[c].k + 1, 1)
    BY <1>1 DEF NextTarget
  <2>4. QED
    BY <2>1, <2>2, <2>3, SendTryKeepsTurns
<1>2. CASE ~(client[c].k < Last)
  BY <1>2, AnswerKeepsTurns DEF NextTarget
<1>3. QED
  BY <1>1, <1>2

\* The three actions of a caller.
LEMMA CallerKeepsTurns ==
  ASSUME TurnsInv, NEW c \in Calls, Call(c) \/ TimeOut(c) \/ Receive(c)
  PROVE  TurnsKept /\ UNCHANGED ran
<1>1. UNCHANGED <<work, provides, ran>>
  BY DEF Call, TimeOut, Receive
<1>2. CASE Call(c)
  <2>1. ToCome(c, 1, 1) /\ SendTry(c, 1, 1)
    BY <1>2 DEF Call, ToCome
  <2>2. 1 \in 1 .. Last /\ 1 \in 1 .. Tries
    BY Numbers
  <2>3. QED
    BY <1>1, <2>1, <2>2, SendTryKeepsTurns
<1>3. CASE TimeOut(c)
  <2>1. CASE MayRetry(client[c].i)
    <3>1. /\ client[c].k \in 1 .. Last /\ client[c].i + 1 \in 1 .. Tries
          /\ client[c].i + 1 > client[c].i
      BY <2>1, Numbers DEF TurnsInv, Positions, MayRetry
    <3>2. ToCome(c, client[c].k, client[c].i + 1)
      BY <3>1 DEF ToCome
    <3>3. SendTry(c, client[c].k, client[c].i + 1)
      BY <1>3, <2>1 DEF TimeOut
    <3>4. QED
      BY <1>1, <3>1, <3>2, <3>3, SendTryKeepsTurns
  <2>2. CASE ~MayRetry(client[c].i)
    BY <1>1, <1>3, <2>2, NextTargetKeepsTurns DEF TimeOut
  <2>3. QED
    BY <2>1, <2>2
<1>4. CASE Receive(c)
  <2>1. NextTarget(c) \/ \E answer : Answer(c, answer)
    BY <1>4 DEF Receive
  <2>2. QED
    BY <1>1, <2>1, NextTargetKeepsTurns, AnswerKeepsTurns
<1>5. QED
  BY <1>1, <1>2, <1>3, <1>4

\* Ends and starts of processes, subscriptions and bayWatch.
LEMMA DirectoryKeepsTurns ==
  ASSUME TurnsInv,
         \/ BayWatch \/ RestartDispatcher
         \/ \E s \in Servers : EndServer(s) \/ StartServer(s) \/ Subscribe(s)
         \/ UNCHANGED vars
  PROVE  TurnsKept /\ UNCHANGED ran
<1>1. /\ UNCHANGED <<client, provides, ran>>
      /\ requests' \subseteq requests /\ work' \subseteq work
  BY DEF BayWatch, Snapshot, Heartbeat, RestartDispatcher, EndServer, StartServer, Subscribe, vars
<1>2. Positions'
  BY <1>1 DEF TurnsInv, Positions
<1>3. \A c, k, i : ToCome(c, k, i)' => ToCome(c, k, i)
  BY <1>1 DEF ToCome
<1>4. QED
  BY <1>1, <1>2, <1>3, FewerRequests

\* A worker that has its answer.
LEMMA ForwardReceiveKeepsTurns ==
  ASSUME TurnsInv, ForwardReceive
  PROVE  TurnsKept /\ UNCHANGED ran
<1>1. UNCHANGED <<client, requests, provides, ran>> /\ work' \subseteq work
  BY DEF ForwardReceive
<1>2. Positions'
  BY <1>1 DEF TurnsInv, Positions
<1>3. \A c, k, i : ToCome(c, k, i)' => ToCome(c, k, i)
  BY <1>1 DEF ToCome
<1>4. QED
  BY <1>1, <1>2, <1>3, FewerRequests

\* A worker that gets a request m, or sends it again: the turns it may still
\* use, w.j and later, were those of m, or those it had.
LEMMA ForwardKeepsTurns ==
  ASSUME TurnsInv, NEW c \in Calls, NEW i \in 1 .. Tries, NEW w, w.job = Try(c, Last, i),
         w.j \in 1 .. Tries, w.uri \in Servers, ~ToCome(c, Last, i),
         \A m \in requests' : m \in requests \/ m = Forward(w),
         \A v \in work' : v = w \/ (v \in work /\ v.job # w.job),
         w.job \notin requests',
         \A m \in requests : m.call = c /\ m.k = Last /\ m.i = i => m.j < w.j,
         OnItsWay(c, Last, i, 0) \/ (\E v \in work : v.job = w.job /\ v.j < w.j),
         UNCHANGED <<client, provides>>
  PROVE  TurnsKept
<1> DEFINE new == Forward(w)
<1>1. new.call = c /\ new.k = Last /\ new.i = i /\ new.to = w.uri /\ new.j = w.j
  BY ForwardParts
<1>2. /\ w.job.call = c /\ w.job.k = Last /\ w.job.i = i /\ w.job.j = 0
  BY TryParts
<1>3. w.j \in 1 .. Tries /\ w.j \in Int /\ w.j # 0 /\ Last \in 1 .. Last
  BY Numbers
<1> HIDE DEF new
<1>4. \A d, k, n : ToCome(d, k, n)' <=> ToCome(d, k, n)
  BY DEF ToCome
<1>5. Positions'
  BY DEF TurnsInv, Positions
<1>6. \A m \in requests' : m \in requests \/ m = new
  BY DEF new
<1>7. RequestsAreTurns'
  <2>1. ASSUME NEW m \in requests'
        PROVE  /\ m.call \in Calls /\ m.k \in 1 .. Last /\ m.i \in 1 .. Tries /\ m.j \in 0 .. Tries
               /\ ~ToCome(m.call, m.k, m.i)'
               /\ m.j = 0 => m = Try(m.call, m.k, m.i)
               /\ m.j # 0 => m.k = Last /\ m.to \in Servers
    <3>1. CASE m = new
      BY <1>1, <1>3, <1>4, <3>1
    <3>2. CASE m \in requests
      BY <1>4, <3>2 DEF TurnsInv, RequestsAreTurns
    <3>3. QED
      BY <1>6, <3>1, <3>2
  <2>2. QED
    BY <2>1 DEF RequestsAreTurns, TurnsInv
<1>8. WorkIsOfRequests'
  BY <1>2, <1>4 DEF WorkIsOfRequests, TurnsInv
<1>9. TurnsAreOnce'
  <2>1. ASSUME NEW m \in requests', NEW v \in work'
        PROVE  m # v.job
    <3>1. CASE v = w
      BY <3>1
    <3>2. CASE m = new
      <4>1. v.job.j = 0
        BY <1>2, TryParts DEF TurnsInv, WorkIsOfRequests
      <4>2. QED
        BY <1>1, <1>3, <3>2, <4>1
    <3>3. CASE v \in work /\ m \in requests
      BY <3>3 DEF TurnsInv, TurnsAreOnce
    <3>4. QED
      BY <1>6, <3>1, <3>2, <3>3
  <2>2. \A v, u \in work' : v.job = u.job => v = u
    BY DEF TurnsInv, TurnsAreOnce
  <2>3. ASSUME NEW m \in requests', NEW n \in requests', m.call = n.call, m.k = n.k, m.i = n.i
        PROVE  (m.j = n.j => m = n) /\ (m.k = Last /\ m.j = 0 => n.j = 0)
    <3>1. ASSUME NEW l \in requests', l \in requests, l.call = c, l.k = Last, l.i = i
          PROVE  l.j < w.j /\ l.j # 0
      <4>1. l.j = 0 => l = w.job
        BY <3>1 DEF TurnsInv, RequestsAreTurns
      <4>2. QED
        BY <3>1, <4>1
    <3>2. CASE m = new /\ n \in requests
      BY <1>1, <1>3, <2>3, <3>1, <3>2
    <3>3. CASE n = new /\ m \in requests
      BY <1>1, <1>3, <2>3, <3>1, <3>3
    <3>4. CASE m \in requests /\ n \in requests
      BY <2>3, <3>4 DEF TurnsInv, TurnsAreOnce
    <3>5. QED
      BY <1>1, <1>3, <1>6, <3>2, <3>3, <3>4
  <2>4. ASSUME NEW m \in requests', NEW v \in work',
               m.call = v.job.call, m.k = Last, m.i = v.job.i
        PROVE  m.j <= v.j
    <3>1. CASE v = w /\ m = new
      BY <1>1, <1>3, <3>1
    <3>2. CASE v = w /\ m \in requests
      <4>1. m.j < w.j /\ m.j \in Int
        BY <1>2, <2>4, <3>2 DEF TurnsInv, RequestsAreTurns
      <4>2. QED
        BY <1>3, <3>2, <4>1
    <3>3. CASE v \in work /\ v.job # w.job
      <4>1. v.job = Try(v.job.call, Last, v.job.i)
        BY <3>3 DEF TurnsInv, WorkIsOfRequests
      <4>2. m # new
        BY <1>1, <2>4, <3>3, <4>1
      <4>3. QED
        BY <1>6, <2>4, <3>3, <4>2 DEF TurnsInv, TurnsAreOnce
    <3>4. QED
      BY <1>6, <3>1, <3>2, <3>3
  <2>5. QED
    BY <2>1, <2>2, <2>3, <2>4 DEF TurnsAreOnce
<1>10. ASSUME NEW d \in Calls
       PROVE  DirectTurns(d)' \subseteq DirectTurns(d) /\ RelayedTurns(d)' \subseteq RelayedTurns(d)
  <2>1. ASSUME NEW k, NEW n, NEW j, OnItsWay(d, k, n, j)'
        PROVE  OnItsWay(d, k, n, j) \/ (d = c /\ k = Last /\ n = i /\ j = w.j)
    BY <1>1, <1>6, <2>1 DEF OnItsWay
  <2>2. DirectTurns(d)' \subseteq DirectTurns(d)
    BY <1>3, <1>4, <2>1 DEF DirectTurns
  <2>3. ASSUME NEW n \in 1 .. Tries, NEW j \in 1 .. Tries, j >= w.j, d = c, n = i
        PROVE  \/ OnItsWay(d, Last, n, 0)
               \/ \E v \in work : v.job = Try(d, Last, n) /\ v.j < j
    <3>1. ASSUME NEW v \in work, v.job = w.job, v.j < w.j
          PROVE  v.job = Try(d, Last, n) /\ v.j < j
      <4>1. v.j \in Int /\ j \in Int
        BY Numbers DEF TurnsInv, WorkIsOfRequests
      <4>2. QED
        BY <1>3, <2>3, <3>1, <4>1
    <3>2. QED
      BY <2>3, <3>1
  <2>4. ASSUME NEW p \in RelayedTurns(d)'
        PROVE  p \in RelayedTurns(d)
    <3>1. p \in AllRelayed /\ p[1] \in 1 .. Tries /\ p[2] \in 1 .. Tries
      BY DEF RelayedTurns, AllRelayed
    <3>2. CASE ToCome(d, Last, p[1])' \/ OnItsWay(d, Last, p[1], 0)'
      BY <1>3, <1>4, <2>1, <3>1, <3>2 DEF RelayedTurns
    <3>3. CASE OnItsWay(d, Last, p[1], p[2])'
      <4>1. CASE OnItsWay(d, Last, p[1], p[2])
        BY <3>1, <4>1 DEF RelayedTurns
      <4>2. CASE d = c /\ p[1] = i /\ p[2] = w.j
        BY <1>3, <2>3, <3>1, <4>2 DEF RelayedTurns
      <4>3. QED
        BY <2>1, <3>3, <4>1, <4>2
    <3>4. ASSUME NEW v \in work', v.job = Try(d, Last, p[1]), v.j < p[2]
          PROVE  p \in RelayedTurns(d)
      <4>1. CASE v = w
        <5>1. d = c /\ p[1] = i
          BY <1>2, <3>4, <4>1, TryParts
        <5>2. p[2] >= w.j
          BY <1>3, <3>1, <3>4, <4>1
        <5>3. QED
          BY <2>3, <3>1, <5>1, <5>2 DEF RelayedTurns
      <4>2. CASE v \in work
        BY <3>1, <3>4, <4>2 DEF RelayedTurns
      <4>3. QED
        BY <4>1, <4>2
    <3>5. QED
      BY <3>2, <3>3, <3>4 DEF RelayedTurns
  <2>5. QED
    BY <2>2, <2>4
<1>11. QED
  BY <1>5, <1>7, <1>8, <1>9, <1>10 DEF TurnsKept

\* The requests to the dispatcher are the callers' own.
LEMMA DispatcherGetsTries ==
  ASSUME TurnsInv, NEW m \in requests, m.to = Disp
  PROVE  m.k = Last /\ m.j = 0 /\ m = Try(m.call, Last, m.i)
<1>1. m.k \in 1 .. Last /\ m.j = 0 /\ m = Try(m.call, m.k, m.i)
  BY ServersAssumption DEF TurnsInv, RequestsAreTurns
<1>2. CASE m.k # Last
  <2>1. m.k \in 1 .. Len(Targets)
    BY <1>1, <1>2, Numbers
  <2>2. Targets[m.k] \in Servers
    BY <2>1, ServersAssumption
  <2>3. m.to = Targets[m.k]
    BY <1>1, <1>2, TryParts
  <2>4. QED
    BY <2>2, <2>3, ServersAssumption
<1>3. QED
  BY <1>1, <1>2

LEMMA ElectKeepsTurns ==
  ASSUME TurnsInv, Elect
  PROVE  TurnsKept /\ UNCHANGED ran
<1>1. UNCHANGED <<client, provides, ran>>
  BY ElectCases
<1>2. PICK m \in requests :
        /\ m.to = Disp
        /\ \/ \E uri \in Servers :
                /\ work' = work \cup {Work(m, uri, 1)}
                /\ requests' = (requests \ {m}) \cup {Forward(Work(m, uri, 1))}
           \/ requests' = requests \ {m} /\ UNCHANGED work
  BY ElectCases
<1>3. m.call \in Calls /\ m.i \in 1 .. Tries /\ ~ToCome(m.call, Last, m.i)
  BY <1>2, DispatcherGetsTries DEF TurnsInv, RequestsAreTurns
<1>4. ASSUME NEW uri \in Servers,
             work' = work \cup {Work(m, uri, 1)},
             requests' = (requests \ {m}) \cup {Forward(Work(m, uri, 1))}
      PROVE  TurnsKept
  <2> DEFINE w == Work(m, uri, 1)
  <2>1. w.job = m /\ w.uri = uri /\ w.j = 1
    BY WorkParts
  <2>2. w.job = Try(m.call, Last, m.i) /\ w.j \in 1 .. Tries /\ w.uri \in Servers
    BY <1>2, <2>1, DispatcherGetsTries, Numbers DEF TurnsInv, RequestsAreTurns
  <2>3. Forward(w).j = 1
    BY <2>1, <2>2, ForwardParts
  <2> HIDE DEF w
  <2>4. \A n \in requests' : n \in requests \/ n = Forward(w)
    BY <1>4 DEF w
  <2>5. \A v \in work' : v = w \/ (v \in work /\ v.job # w.job)
    BY <1>4, <2>1 DEF w, TurnsInv, TurnsAreOnce
  <2>6. m.j = 0 /\ m.k = Last
    BY <1>2, DispatcherGetsTries
  <2>7. w.job \notin requests'
    BY <1>4, <2>1, <2>3, <2>6 DEF w
  <2>8. \A n \in requests : n.call = m.call /\ n.k = Last /\ n.i = m.i => n.j < w.j
    BY <2>1, <2>6 DEF TurnsInv, TurnsAreOnce
  <2>9. OnItsWay(m.call, Last, m.i, 0)
    BY <2>6 DEF OnItsWay
  <2>10. QED
    BY <1>1, <1>3, <2>2, <2>4, <2>5, <2>7, <2>8, <2>9, ForwardKeepsTurns
<1>5. CASE requests' = requests \ {m} /\ UNCHANGED work
  <2>1. Positions'
    BY <1>1 DEF TurnsInv, Positions
  <2>2. \A c, k, i : ToCome(c, k, i)' => ToCome(c, k, i)
    BY <1>1 DEF ToCome
  <2>3. QED
    BY <1>1, <1>5, <2>1, <2>2, FewerRequests
<1>6. QED
  BY <1>1, <1>2, <1>4, <1>5

LEMMA ForwardTimeOutKeepsTurns ==
  ASSUME TurnsInv, ForwardTimeOut
  PROVE  TurnsKept /\ UNCHANGED ran
<1>1. UNCHANGED <<client, provides, ran>>
  BY DEF ForwardTimeOut
<1>2. PICK w \in work :
        \/ /\ MayRetry(w.j)
           /\ work' = (work \ {w}) \cup {Work(w.job, w.uri, w.j + 1)}
           /\ requests' = (requests \ Dropped(Forward(w))) \cup {Forward(Work(w.job, w.uri, w.j + 1))}
        \/ work' = work \ {w} /\ requests' \subseteq requests
  BY DEF ForwardTimeOut
<1>3. /\ w.job.call \in Calls /\ w.job.i \in 1 .. Tries /\ w.j \in 1 .. Tries /\ w.uri \in Servers
      /\ ~ToCome(w.job.call, Last, w.job.i) /\ w.job = Try(w.job.call, Last, w.job.i)
  BY DEF TurnsInv, WorkIsOfRequests
<1>4. CASE /\ MayRetry(w.j)
           /\ work' = (work \ {w}) \cup {Work(w.job, w.uri, w.j + 1)}
           /\ requests' = (requests \ Dropped(Forward(w))) \cup {Forward(Work(w.job, w.uri, w.j + 1))}
  <2> DEFINE again == Work(w.job, w.uri, w.j + 1)
  <2>1. again.job = w.job /\ again.uri = w.uri /\ again.j = w.j + 1
    BY WorkParts
  <2>2. again.j \in 1 .. Tries /\ w.j < again.j /\ w.j \in Int /\ again.j # 0
    BY <1>3, <1>4, <2>1, Numbers DEF MayRetry
  <2>3. Forward(again).j # w.job.j
    BY <1>3, <2>1, <2>2, ForwardParts, TryParts
  <2> HIDE DEF again
  <2>4. \A n \in requests' : n \in requests \/ n = Forward(again)
    BY <1>4 DEF again
  <2>5. \A v \in work' : v = again \/ (v \in work /\ v.job # again.job)
    BY <1>4, <2>1 DEF again, TurnsInv, TurnsAreOnce
  <2>6. again.job \notin requests'
    BY <2>1, <2>3, <2>4 DEF TurnsInv, TurnsAreOnce
  <2>7. ASSUME NEW n \in requests, n.call = w.job.call, n.k = Last, n.i = w.job.i
        PROVE  n.j < again.j
    <3>1. n.j <= w.j /\ n.j \in Int
      BY <2>7 DEF TurnsInv, TurnsAreOnce, RequestsAreTurns
    <3>2. QED
      BY <2>1, <2>2, <3>1
  <2>8. \E v \in work : v.job = again.job /\ v.j < again.j
    BY <2>1, <2>2
  <2>9. again.job = Try(w.job.call, Last, w.job.i) /\ again.uri \in Servers
    BY <1>3, <2>1
  <2>10. QED
    BY <1>1, <1>3, <2>2, <2>4, <2>5, <2>6, <2>7, <2>8, <2>9, ForwardKeepsTurns
<1>5. CASE work' = work \ {w} /\ requests' \subseteq requests
  <2>1. Positions'
    BY <1>1 DEF TurnsInv, Positions
  <2>2. \A c, k, i : ToCome(c, k, i)' => ToCome(c, k, i)
    BY <1>1 DEF ToCome
  <2>3. QED
    BY <1>1, <1>5, <2>1, <2>2, FewerRequests
<1>6. QED
  BY <1>1, <1>2, <1>4, <1>5

LEMMA OneLess ==
  ASSUME NEW T \in Nat, NEW n \in Nat, NEW m \in Nat, NEW a \in Nat, NEW b \in Nat,
         NEW x \in Nat, NEW y \in Nat,
         n + a + b <= T, m <= n + 1, x <= a, y <= b, x < a \/ y < b
  PROVE  m + x + y <= T
OBVIOUS

LEMMA NoMore ==
  ASSUME NEW T \in Nat, NEW n \in Nat, NEW a \in Nat, NEW b \in Nat,
         NEW x \in Nat, NEW y \in Nat, n + a + b <= T, x <= a, y <= b
  PROVE  n + x + y <= T
OBVIOUS

\* A server that takes a request uses up its turn, whether or not it has the
\* service.
LEMMA ExecuteUsesATurn ==
  ASSUME TurnsInv, TurnsCounted, NEW s \in Servers, Execute(s)
  PROVE  TurnsKept /\ TurnsCounted'
<1>1. PICK m \in requests, n \in {0, 1}, result \in {"success", "error", "unknown"} :
        /\ m.to = s
        /\ requests' = requests \ {m}
        /\ ran' = [ran EXCEPT ![m.call].times = @ + n, ![m.call].success = @ \/ result = "success"]
  <2>1. CASE s \in provides
    BY <2>1 DEF Execute
  <2>2. CASE s \notin provides
    BY <2>2 DEF Execute
  <2>3. QED
    BY <2>1, <2>2
<1>2. UNCHANGED <<client, work, provides>>
  BY DEF Execute
<1>3. \A c, k, i : ToCome(c, k, i)' <=> ToCome(c, k, i)
  BY <1>2 DEF ToCome
<1>4. TurnsKept
  <2>1. Positions'
    BY <1>2 DEF TurnsInv, Positions
  <2>2. QED
    BY <1>1, <1>2, <1>3, <2>1, FewerRequests
<1> DEFINE c == m.call
<1>5. /\ c \in Calls /\ m.k \in 1 .. Last /\ m.i \in 1 .. Tries /\ m.j \in 0 .. Tries
      /\ ~ToCome(c, m.k, m.i)
  BY DEF TurnsInv, RequestsAreTurns
<1>6. \A l \in requests' : ~(l.call = c /\ l.k = m.k /\ l.i = m.i /\ l.j = m.j)
  BY <1>1 DEF TurnsInv, TurnsAreOnce
<1> HIDE DEF c
<1>7. /\ ran'[c].times = ran[c].times + n /\ ran[c].times \in Nat
      /\ \A d \in Calls \ {c} : ran'[d] = ran[d]
  BY <1>1, <1>5 DEF c, TurnsInv, DispatchInv, CallersKnown
<1>8. \/ <<m.k, m.i>> \in DirectTurns(c) /\ <<m.k, m.i>> \notin DirectTurns(c)'
      \/ <<m.i, m.j>> \in RelayedTurns(c) /\ <<m.i, m.j>> \notin RelayedTurns(c)'
  <2>1. OnItsWay(c, m.k, m.i, m.j) /\ ~OnItsWay(c, m.k, m.i, m.j)' /\ ~ToCome(c, m.k, m.i)'
    BY <1>3, <1>5, <1>6 DEF OnItsWay, c
  <2>2. CASE m.j = 0
    <3>1. m = Try(c, m.k, m.i)
      BY <2>2 DEF TurnsInv, RequestsAreTurns, c
    <3>2. m.k # Last
      BY <1>1, <3>1, TryParts, ServersAssumption
    <3>3. m.k \in 1 .. Len(Targets)
      BY <1>5, <3>2, Numbers
    <3>4. <<m.k, m.i>> \in AllDirect
      BY <1>5, <3>3 DEF AllDirect
    <3> DEFINE p == <<m.k, m.i>>
    <3>5. p[1] = m.k /\ p[2] = m.i
      OBVIOUS
    <3> HIDE DEF p
    <3>6. p \in DirectTurns(c) /\ p \notin DirectTurns(c)'
      BY <2>1, <2>2, <3>4, <3>5 DEF DirectTurns, p
    <3>7. QED
      BY <3>6 DEF p
  <2>3. CASE m.j # 0
    <3>1. m.k = Last /\ m.j \in 1 .. Tries /\ m.j \in Int
      BY <1>5, <2>3, Numbers DEF TurnsInv, RequestsAreTurns
    <3>2. <<m.i, m.j>> \in AllRelayed
      BY <1>5, <3>1 DEF AllRelayed
    <3>3. ~OnItsWay(c, Last, m.i, 0)'
      <4>1. SUFFICES ASSUME NEW l \in requests', l.call = c, l.k = Last, l.i = m.i, l.j = 0
                     PROVE  FALSE
        BY DEF OnItsWay
      <4>2. QED
        BY <1>1, <2>3, <3>1, <4>1 DEF TurnsInv, TurnsAreOnce, c
    <3>4. ASSUME NEW w \in work, w.job = Try(c, Last, m.i) PROVE ~(w.j < m.j)
      <4>1. w.job.call = c /\ w.job.i = m.i
        BY <3>4, TryParts
      <4>2. m.j <= w.j /\ w.j \in Int
        BY <3>1, <4>1 DEF TurnsInv, TurnsAreOnce, WorkIsOfRequests, c
      <4>3. QED
        BY <3>1, <4>2
    <3> DEFINE p == <<m.i, m.j>>
    <3>5. p[1] = m.i /\ p[2] = m.j
      OBVIOUS
    <3> HIDE DEF p
    <3>6. p \in RelayedTurns(c)
      BY <2>1, <3>1, <3>2, <3>5 DEF RelayedTurns, p
    <3>7. p \notin RelayedTurns(c)'
      BY <1>2, <2>1, <3>1, <3>3, <3>4, <3>5 DEF RelayedTurns
    <3>8. QED
      BY <3>6, <3>7 DEF p
  <2>4. QED
    BY <2>2, <2>3
<1>9. ASSUME NEW d \in Calls
      PROVE  /\ IsFiniteSet(DirectTurns(d)) /\ DirectTurns(d)' \subseteq DirectTurns(d)
             /\ IsFiniteSet(RelayedTurns(d)) /\ RelayedTurns(d)' \subseteq RelayedTurns(d)
             /\ Cardinality(DirectTurns(d)) \in Nat /\ Cardinality(DirectTurns(d)') \in Nat
             /\ Cardinality(RelayedTurns(d)) \in Nat /\ Cardinality(RelayedTurns(d)') \in Nat
             /\ Cardinality(DirectTurns(d)') <= Cardinality(DirectTurns(d))
             /\ Cardinality(RelayedTurns(d)') <= Cardinality(RelayedTurns(d))
  <2>1. DirectTurns(d)' \subseteq DirectTurns(d) /\ RelayedTurns(d)' \subseteq RelayedTurns(d)
    BY <1>4 DEF TurnsKept
  <2>2. QED
    BY <2>1, TurnsAreFinite, FS_Subset, FS_CardinalityType
<1>10. \/ Cardinality(DirectTurns(c)') < Cardinality(DirectTurns(c))
       \/ Cardinality(RelayedTurns(c)') < Cardinality(RelayedTurns(c))
  BY <1>5, <1>8, <1>9, FS_Subset DEF c
<1>11. AllTurns \in Nat
  BY TurnsAreNumbers
<1>12. ASSUME NEW d \in Calls
       PROVE  ran'[d].times + Cardinality(DirectTurns(d)') + Cardinality(RelayedTurns(d)')
                <= AllTurns
  <2>1. /\ ran[d].times + Cardinality(DirectTurns(d)) + Cardinality(RelayedTurns(d))
             <= AllTurns
        /\ ran[d].times \in Nat
    BY DEF TurnsCounted, TurnsInv, DispatchInv, CallersKnown
  <2>2. CASE d = c
    <3>1. /\ DirectTurns(c) = DirectTurns(d) /\ DirectTurns(c)' = DirectTurns(d)'
          /\ RelayedTurns(c) = RelayedTurns(d) /\ RelayedTurns(c)' = RelayedTurns(d)'
      BY <2>2, Zenon
    <3>2. \/ Cardinality(DirectTurns(d)') < Cardinality(DirectTurns(d))
          \/ Cardinality(RelayedTurns(d)') < Cardinality(RelayedTurns(d))
      BY <1>10, <3>1
    <3>3. ran'[d].times <= ran[d].times + 1 /\ ran'[d].times \in Nat
      BY <1>5, <1>7, <2>2 DEF c
    <3>4. /\ Cardinality(DirectTurns(d)) \in Nat /\ Cardinality(DirectTurns(d)') \in Nat
          /\ Cardinality(RelayedTurns(d)) \in Nat /\ Cardinality(RelayedTurns(d)') \in Nat
          /\ Cardinality(DirectTurns(d)') <= Cardinality(DirectTurns(d))
          /\ Cardinality(RelayedTurns(d)') <= Cardinality(RelayedTurns(d))
          /\ AllTurns \in Nat
      BY <1>9, <1>11
    <3>5. QED
      BY <2>1, <3>2, <3>3, <3>4, OneLess
  <2>3. CASE d # c
    <3>1. ran'[d] = ran[d]
      BY <1>7, <2>3
    <3>2. /\ Cardinality(DirectTurns(d)) \in Nat /\ Cardinality(DirectTurns(d)') \in Nat
          /\ Cardinality(RelayedTurns(d)) \in Nat /\ Cardinality(RelayedTurns(d)') \in Nat
          /\ Cardinality(DirectTurns(d)') <= Cardinality(DirectTurns(d))
          /\ Cardinality(RelayedTurns(d)') <= Cardinality(RelayedTurns(d))
      BY <1>9
    <3>3. QED
      BY <1>11, <2>1, <3>1, <3>2, NoMore
  <2>4. QED
    BY <2>2, <2>3
<1>13. QED
  BY <1>4, <1>12 DEF TurnsCounted

LEMMA TurnsStep ==
  ASSUME TurnsInv, TurnsCounted, [Next]_vars
  PROVE  TurnsInv' /\ TurnsCounted'
<1>1. DispatchInv'
  BY CallerStep, ExecuteStep, ElectStep, ForwardTimeOutStep, ForwardReceiveStep, DirectoryStep
  DEF Next, TurnsInv
<1>2. ASSUME NEW s \in Servers, Execute(s)
      PROVE  TurnsKept /\ TurnsCounted'
  BY <1>2, ExecuteUsesATurn
<1>3. ASSUME ~\E s \in Servers : Execute(s)
      PROVE  TurnsKept /\ UNCHANGED ran
  BY <1>3, CallerKeepsTurns, ElectKeepsTurns, ForwardTimeOutKeepsTurns, ForwardReceiveKeepsTurns,
     DirectoryKeepsTurns DEF Next
<1>4. ASSUME TurnsKept, UNCHANGED ran
      PROVE  TurnsCounted'
  BY <1>4, NoMoreTurns DEF TurnsKept, TurnsInv, DispatchInv
<1>5. QED
  BY <1>1, <1>2, <1>3, <1>4 DEF TurnsKept, TurnsInv

LEMMA TurnsInit == Init => TurnsInv /\ TurnsCounted
<1>1. SUFFICES ASSUME Init PROVE TurnsInv /\ TurnsCounted
  OBVIOUS
<1>2. DispatchInv
  <2>1. CallersKnown
    BY <1>1 DEF Init, CallersKnown, Caller
  <2>2. QED
    BY <1>1, <2>1 DEF Init, DispatchInv, RequestsKnown, SuccessesExecuted, Unanswered, SuccessIsExecuted
<1>3. Positions
  BY <1>1, Numbers DEF Init, Positions
<1>4. RequestsAreTurns /\ WorkIsOfRequests /\ TurnsAreOnce
  BY <1>1 DEF Init, RequestsAreTurns, WorkIsOfRequests, TurnsAreOnce
<1>5. ASSUME NEW c \in Calls
      PROVE  ran[c].times + Cardinality(DirectTurns(c)) + Cardinality(RelayedTurns(c))
               <= AllTurns
  <2>1. /\ Cardinality(DirectTurns(c)) \in Nat /\ Cardinality(DirectTurns(c)) <= Len(Targets) * Tries
        /\ Cardinality(RelayedTurns(c)) \in Nat /\ Cardinality(RelayedTurns(c)) <= Tries * Tries
    BY TurnsAreFinite, FS_Subset DEF DirectTurns, RelayedTurns
  <2>2. ran[c].times = 0
    BY <1>1 DEF Init
  <2>3. ASSUME NEW p \in Nat, NEW q \in Nat, NEW a \in Nat, NEW b \in Nat, a <= p, b <= q
        PROVE  0 + a + b <= p + q
    BY <2>3
  <2>4. QED
    BY <2>1, <2>2, <2>3, TurnsAreNumbers, Zenon DEF AllTurns
<1>6. QED
  BY <1>2, <1>3, <1>4, <1>5 DEF TurnsInv, TurnsCounted

\* As long as turns are counted, no more executions than there are turns.
LEMMA CountedIsBounded == TurnsInv /\ TurnsCounted => ExecutionsBounded
<1>1. ASSUME TurnsInv, TurnsCounted, NEW c \in Calls
      PROVE  ran[c].times <= AllTurns
  <2>1. /\ ran[c].times \in Nat
        /\ ran[c].times + Cardinality(DirectTurns(c)) + Cardinality(RelayedTurns(c))
             <= AllTurns
    BY <1>1 DEF TurnsInv, TurnsCounted, DispatchInv, CallersKnown
  <2>2. /\ Cardinality(DirectTurns(c)) \in Nat /\ Cardinality(RelayedTurns(c)) \in Nat
        /\ AllTurns \in Nat
    BY TurnsAreFinite, TurnsAreNumbers
  <2>3. QED
    BY <2>1, <2>2
<1>2. QED
  BY <1>1, Zenon DEF ExecutionsBounded

\* However long answers take and whichever processes end, a call is executed at
\* most Tries times by each server of the configuration, and at most Tries
\* times for each request the dispatcher gets: no turn is used twice
\* (LazyPirateClient::send, ServiceWorker::doCall).
THEOREM ExecutedNoMoreThanSent == Spec => []ExecutionsBounded
<1>1. TurnsInv /\ TurnsCounted /\ [Next]_vars => TurnsInv' /\ TurnsCounted'
  BY TurnsStep
<1>2. QED
  BY <1>1, CountedIsBounded, TurnsInit, PTL DEF Spec

-----------------------------------------------------------------------------
(* Dispatch implements RemoteCall: a send is a step of it only when it is    *)
(* the first of its call, an execution when the server has the service, an   *)
(* answer when it is the caller's last.                                      *)

\* A caller that sends, or sends again, has heard nothing new.
LEMMA SendingIsUnheard ==
  ASSUME DispatchInv, NEW c \in Calls, NEW k, NEW i, SendTry(c, k, i),
         client[c].pc \in {"idle", "wait"}
  PROVE  Heard' = [Heard EXCEPT ![c] = "wait"]
<1>1. \A d \in Calls : client'[d] = IF d = c THEN [client[c] EXCEPT !.pc = "wait", !.k = k, !.i = i]
                                             ELSE client[d]
  BY DEF SendTry, DispatchInv, CallersKnown
<1>2. client'[c].pc = "wait"
  BY <1>1 DEF DispatchInv, CallersKnown, Caller
<1>3. QED
  BY <1>1, <1>2 DEF Heard

\* An answer is what the caller hears.
LEMMA AnswerIsHeard ==
  ASSUME DispatchInv, NEW c \in Calls, NEW answer, Answer(c, answer)
  PROVE  Heard' = [Heard EXCEPT ![c] = answer]
<1>1. \A d \in Calls : client'[d] = IF d = c THEN [client[c] EXCEPT !.pc = "done", !.answer = answer]
                                             ELSE client[d]
  BY DEF Answer, DispatchInv, CallersKnown
<1>2. client'[c].pc = "done" /\ client'[c].answer = answer
  BY <1>1 DEF DispatchInv, CallersKnown, Caller
<1>3. QED
  BY <1>1, <1>2 DEF Heard

\* A caller that waits: it sends again, or hears its answer.
LEMMA WaitingCaller ==
  ASSUME DispatchInv, NEW c \in Calls, TimeOut(c) \/ Receive(c)
  PROVE  Promise!Hear(c) \/ UNCHANGED <<Heard, ran>>
<1>1. client[c].pc = "wait" /\ Heard[c] = "wait" /\ UNCHANGED ran
  BY DEF TimeOut, Receive, Heard
<1>2. ASSUME NEW k, NEW i, SendTry(c, k, i)
      PROVE  UNCHANGED <<Heard, ran>>
  BY <1>1, <1>2, SendingIsUnheard DEF Heard
<1>3. ASSUME NEW answer \in {"success", "error", "failed"}, Answer(c, answer),
             answer = "success" => ran[c].success
      PROVE  Promise!Hear(c)
  BY <1>1, <1>3, AnswerIsHeard DEF Promise!Hear
<1>4. ASSUME NextTarget(c)
      PROVE  Promise!Hear(c) \/ UNCHANGED <<Heard, ran>>
  BY <1>2, <1>3, <1>4 DEF NextTarget
<1>5. CASE TimeOut(c)
  BY <1>2, <1>4, <1>5 DEF TimeOut
<1>6. CASE Receive(c)
  <2>1. PICK r \in replies :
          /\ r.to = Current(c)
          /\ NextTarget(c) \/ Answer(c, Told(r.result))
    BY <1>6 DEF Receive
  <2>2. Told(r.result) = "success" => ran[c].success
    BY <2>1, TryIsOfItsCall DEF Current, Told, DispatchInv, SuccessesExecuted
  <2>3. Told(r.result) \in {"success", "error", "failed"}
    BY DEF Told
  <2>4. QED
    BY <1>3, <1>4, <2>1, <2>2, <2>3
<1>7. QED
  BY <1>5, <1>6

\* A server only gets requests of calls that were made; one that does not have
\* the service executes nothing.
LEMMA ServerExecutes ==
  ASSUME TurnsInv, (TurnsInv /\ TurnsCounted)', NEW s \in Servers, Execute(s)
  PROVE  (\E c \in Calls : Promise!Execute(c)) \/ UNCHANGED <<Heard, ran>>
<1>1. PICK m \in requests, result \in {"success", "error", "unknown"} :
        /\ result \in IF s \in provides THEN {"success", "error"} ELSE {"unknown"}
        /\ ran' = [ran EXCEPT ![m.call].times = @ + (IF s \in provides THEN 1 ELSE 0),
                              ![m.call].success = @ \/ result = "success"]
  BY DEF Execute
<1>2. UNCHANGED Heard
  BY DEF Execute, Heard
<1> DEFINE c == m.call
<1>3. c \in Calls /\ client[c].pc # "idle"
  BY DEF TurnsInv, RequestsAreTurns, ToCome
<1> HIDE DEF c
<1>4. Heard[c] # "idle"
  BY <1>3 DEF Heard, TurnsInv, DispatchInv, CallersKnown, Caller
<1>5. ran \in [Calls -> [times : Nat, success : BOOLEAN]]
  BY DEF TurnsInv, DispatchInv, CallersKnown
<1>6. CASE s \in provides
  <2> DEFINE success == ran[c].success \/ result = "success"
  <2>1. ran' = [ran EXCEPT ![c].times = @ + 1, ![c].success = success]
    BY <1>1, <1>6 DEF c
  <2>2. success \in {ran[c].success, TRUE}
    <3>1. CASE result = "success"
      BY <3>1, Zenon
    <3>2. CASE result # "success"
      BY <1>3, <1>5, <3>2
    <3>3. QED
      BY <3>1, <3>2
  <2> HIDE DEF success
  <2>3. ran'[c].times = ran[c].times + 1 /\ ran[c].times \in Nat
    BY <1>3, <1>5, <2>1
  <2>4. ran'[c].times <= AllTurns
    <3>1. ExecutionsBounded'
      BY CountedIsBounded, PTL
    <3>2. QED
      BY <1>3, <3>1, Zenon DEF ExecutionsBounded
  <2>5. ran[c].times < AllTurns
    BY <2>3, <2>4, TurnsAreNumbers
  <2>6. Promise!Execute(c)
    BY <1>2, <1>4, <2>1, <2>2, <2>5, Zenon DEF Promise!Execute
  <2>7. QED
    BY <1>3, <2>6
<1>7. CASE s \notin provides
  <2>1. ran' = [ran EXCEPT ![c].times = @ + 0, ![c].success = @ \/ FALSE]
    BY <1>1, <1>7 DEF c
  <2>2. ran' = ran
    BY <1>3, <1>5, <2>1
  <2>3. QED
    BY <1>2, <2>2
<1>8. QED
  BY <1>6, <1>7

LEMMA StepIsRemoteCallStep ==
  ASSUME TurnsInv, TurnsInv', TurnsCounted', [Next]_vars
  PROVE  [Promise!Next]_<<Heard, ran>>
<1>1. ASSUME NEW c \in Calls, Call(c)
      PROVE  Promise!Begin(c)
  <2>1. Heard[c] = "idle" /\ UNCHANGED ran
    BY <1>1 DEF Call, Heard
  <2>2. Heard' = [Heard EXCEPT ![c] = "wait"]
    BY <1>1, SendingIsUnheard DEF Call, TurnsInv
  <2>3. QED
    BY <2>1, <2>2 DEF Promise!Begin
<1>2. ASSUME NEW c \in Calls, TimeOut(c) \/ Receive(c)
      PROVE  Promise!Hear(c) \/ UNCHANGED <<Heard, ran>>
  BY <1>2, WaitingCaller DEF TurnsInv
<1>3. ASSUME NEW s \in Servers, Execute(s)
      PROVE  (\E c \in Calls : Promise!Execute(c)) \/ UNCHANGED <<Heard, ran>>
  BY <1>3, ServerExecutes
<1>4. ASSUME \/ Elect \/ ForwardTimeOut \/ ForwardReceive \/ BayWatch \/ RestartDispatcher
             \/ \E s \in Servers : EndServer(s) \/ StartServer(s) \/ Subscribe(s)
             \/ UNCHANGED vars
      PROVE  UNCHANGED <<Heard, ran>>
  <2>1. UNCHANGED <<client, ran>>
    BY <1>4 DEF Elect, ForwardTimeOut, ForwardReceive, BayWatch, Snapshot, Heartbeat,
      RestartDispatcher, EndServer, StartServer, Subscribe, vars
  <2>2. QED
    BY <2>1 DEF Heard
<1>5. QED
  BY <1>1, <1>2, <1>3, <1>4 DEF Next, Promise!Next

\* Whatever is lost, late, sent again, relayed or ends, callers and servers see
\* plain remote calls (diet_call, LazyPirateClient::send, SeDWorker::doCall).
THEOREM CallsAreRemoteCalls == Spec => RemoteCallSpec
<1>1. Init => Promise!Init
  BY DEF Init, Promise!Init, Heard
<1>2. TurnsInv /\ TurnsCounted /\ [Next]_vars => (TurnsInv /\ TurnsCounted)'
  BY TurnsStep
<1>3. TurnsInv /\ TurnsInv' /\ TurnsCounted' /\ [Next]_vars => [Promise!Next]_<<Heard, ran>>
  BY StepIsRemoteCallStep
<1>4. QED
  BY <1>1, <1>2, <1>3, TurnsInit, PTL DEF Spec, RemoteCallSpec, Promise!Spec
=============================================================================
