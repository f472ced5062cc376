-------------------------------- MODULE Dispatch --------------------------------
(***************************************************************************)
(* Remote calls: diet_call over LazyPirateClient, the workers of the       *)
(* servers, and the dispatcher with its directory of servers (Annuary),    *)
(* kept by the servers' subscriptions (keepRegistered) and by bayWatch.    *)
(*                                                                         *)
(* One service is called.  A request that was sent stays until its server  *)
(* takes it; that it is lost, or late, shows as a timeout, which may come  *)
(* at any moment.  Requests have no identifier in the code: a client that  *)
(* gives up waiting drops its socket, and the answer with it, so every     *)
(* attempt has a name here.                                                *)
(***************************************************************************)
EXTENDS Integers, Sequences, FiniteSets

CONSTANTS Calls, Servers,
          Targets,      \* the servers of the client's configuration, in order
          InitServers,  \* the servers of the dispatcher's configuration
          Disp,         \* the dispatcher
          Tries,        \* times a request is sent before it is given up
          Threads,      \* workers of the dispatcher
          Mortal,       \* bound: the servers that may end
          MaxCrashes    \* bound: ends of servers and of the dispatcher

ASSUME ServersAssumption ==
  Targets \in Seq(Servers) /\ InitServers \in Seq(Servers) /\ Disp \notin Servers
ASSUME NumbersAssumption == Tries \in Nat \ {0} /\ Threads \in Nat \ {0} /\ MaxCrashes \in Nat

VARIABLES client,    \* the callers
          requests,  \* requests on their way
          replies,   \* answers on their way
          work,      \* the requests the dispatcher's workers handle
          annuary,   \* the dispatcher's directory
          late,      \* subscriptions on their way, of servers that ended
          watch,     \* entries bayWatch still has to ping in its round
          up,        \* servers that run
          provides,  \* servers that have the service
          ran,       \* times a call was executed, and whether one had success
          crashes

vars == <<client, requests, replies, work, annuary, late, watch, up, provides, ran, crashes>>

\* An attempt of a call: the try i of its target k and, when it comes from the
\* dispatcher, the try j of the worker.
Attempt == [call : Calls, to : Servers \cup {Disp},
            k : 1 .. Len(Targets) + 1, i : 1 .. Tries, j : 0 .. Tries]
\* "unknown": the server does not have the service; "echo": the dispatcher sent
\* the request back.
Result == {"success", "error", "unknown", "echo"}
Entry == [name : {"umssed", "xmssed"}, uri : Servers]

\* configureAnnuary, the entries of the module the service belongs to.
InitAnnuary == [n \in DOMAIN InitServers |-> [name |-> "umssed", uri |-> InitServers[n]]]

Init ==
  /\ client = [c \in Calls |-> [pc |-> "idle", k |-> 1, i |-> 1, answer |-> "none"]]
  /\ requests = {} /\ replies = {} /\ work = {}
  /\ annuary = InitAnnuary
  /\ late = {} /\ watch = <<>>
  /\ up = Servers
  /\ provides \in SUBSET Servers
  /\ ran = [c \in Calls |-> [times |-> 0, success |-> FALSE]]
  /\ crashes = 0

-----------------------------------------------------------------------------
(* The client *)

\* The attempt the caller waits for.
Last == Len(Targets) + 1
Try(c, k, i) ==
  [call |-> c, to |-> IF k = Last THEN Disp ELSE Targets[k], k |-> k, i |-> i, j |-> 0]
Current(c) == Try(c, client[c].k, client[c].i)

\* The socket of an attempt is closed with linger 0: what was not delivered is
\* dropped.
Dropped(m) == IF m.to \in Servers \ up THEN {m} ELSE {}

SendTry(c, k, i) ==
  /\ client' = [client EXCEPT ![c].pc = "wait", ![c].k = k, ![c].i = i]
  /\ requests' = (requests \ Dropped(Current(c))) \cup {Try(c, k, i)}
Answer(c, answer) ==
  /\ client' = [client EXCEPT ![c].pc = "done", ![c].answer = answer]
  /\ requests' = requests \ Dropped(Current(c))

\* diet_call: the next server of the configuration, then the dispatcher.
NextTarget(c) ==
  IF client[c].k < Last THEN SendTry(c, client[c].k + 1, 1) ELSE Answer(c, "failed")

Call(c) ==
  /\ client[c].pc = "idle"
  /\ SendTry(c, 1, 1)
  /\ UNCHANGED <<replies, work, annuary, late, watch, up, provides, ran, crashes>>

\* The attempt a worker of the dispatcher waits for.
Forward(w) == [w.job EXCEPT !.to = w.uri, !.j = w.j]

\* An answer only gets to a socket that is still open.
Delivered(m, result) ==
  IF \/ m.j = 0 /\ client[m.call].pc = "wait" /\ m = Current(m.call)
     \/ \E w \in work : m = Forward(w)
  THEN {[to |-> m, result |-> result]} ELSE {}
Closed(m) == replies' = {r \in replies : r.to # m}

\* Mutant of MayRetry: one try too many.
MayRetryOnce(n) == n <= Tries

\* --retries > 0 after the try n timed out.
MayRetry(n) == n < Tries

\* Mutant of TimeOut: the client goes on polling after the last try.
TimeOutStays(c) ==
  /\ client[c].pc = "wait"
  /\ MayRetry(client[c].i)
  /\ SendTry(c, client[c].k, client[c].i + 1)
  /\ Closed(Current(c))
  /\ UNCHANGED <<work, annuary, late, watch, up, provides, ran, crashes>>

\* LazyPirateClient::send when poll returns nothing.
TimeOut(c) ==
  /\ client[c].pc = "wait"
  /\ IF MayRetry(client[c].i) THEN SendTry(c, client[c].k, client[c].i + 1) ELSE NextTarget(c)
  /\ Closed(Current(c))
  /\ UNCHANGED <<work, annuary, late, watch, up, provides, ran, crashes>>

\* Mutant of Told: every answer is taken for a success.
ToldAny(result) == "success"

\* raiseExceptionOnErrorResult: what is not "success" is an error.
Told(result) == IF result = "success" THEN "success" ELSE "error"

\* A server that does not have the service is passed over; the dispatcher's
\* answer is the last.
Receive(c) ==
  /\ client[c].pc = "wait"
  /\ \E r \in replies :
       /\ r.to = Current(c)
       /\ replies' = replies \ {r}
       /\ IF client[c].k < Last /\ r.result = "unknown" THEN NextTarget(c)
          ELSE Answer(c, Told(r.result))
  /\ UNCHANGED <<work, annuary, late, watch, up, provides, ran, crashes>>

-----------------------------------------------------------------------------
(* A server: SeDWorker::doCall *)

Execute(s) ==
  /\ s \in up
  /\ \E m \in requests :
       /\ m.to = s
       /\ requests' = requests \ {m}
       /\ \E result \in IF s \in provides THEN {"success", "error"} ELSE {"unknown"} :
            /\ replies' = replies \cup Delivered(m, result)
            /\ ran' = [ran EXCEPT ![m.call].times = @ + (IF s \in provides THEN 1 ELSE 0),
                                  ![m.call].success = @ \/ result = "success"]
  /\ UNCHANGED <<client, work, annuary, late, watch, up, provides, crashes>>

EndServer(s) ==
  /\ s \in up \cap Mortal /\ crashes < MaxCrashes
  /\ up' = up \ {s}
  /\ crashes' = crashes + 1
  /\ requests' = {m \in requests : m.to # s}
  /\ late' \in {late, late \cup {s}}
  /\ UNCHANGED <<client, replies, work, annuary, watch, provides, ran>>

StartServer(s) ==
  /\ s \notin up
  /\ up' = up \cup {s}
  /\ UNCHANGED <<client, requests, replies, work, annuary, late, watch, provides, ran, crashes>>

-----------------------------------------------------------------------------
(* The dispatcher *)

Entries == {annuary[n] : n \in DOMAIN annuary}

\* Mutant of Add: servers are told apart by their name alone.
AddByName(e) ==
  annuary' = IF \E f \in Entries : f.name = e.name THEN annuary ELSE Append(annuary, e)

Add(e) == annuary' = IF e \in Entries THEN annuary ELSE Append(annuary, e)

\* Annuary::remove and Annuary::get
Keep(S) == SelectSeq(annuary, LAMBDA e : e \in S)

\* keepRegistered asks again and again, registered or not.
Subscribe(s) ==
  /\ s \in up \cup late
  /\ late' = late \ {s}
  /\ Add([name |-> "xmssed", uri |-> s])
  /\ UNCHANGED <<client, requests, replies, work, watch, up, provides, ran, crashes>>

\* A worker sends the request it has taken to a server for the jth time.
Work(job, uri, j) == [job |-> job, uri |-> uri, j |-> j]

\* Server::hasService: a server subscribes with the services it has; a configured
\* one is taken to have all of its module.
HasService == {e \in Entry : e.name = "umssed" \/ e.uri \in provides}

\* The entry n of the directory is the first that has the service.
Elected(n) == annuary[n] \in HasService /\ \A l \in 1 .. n - 1 : annuary[l] \notin HasService

\* ServiceWorker::doCall up to the call: a server is elected, or there is none.
Elect ==
  /\ Cardinality(work) < Threads
  /\ \E m \in requests :
       /\ m.to = Disp
       /\ \/ \E n \in DOMAIN annuary :
               LET w == Work(m, annuary[n].uri, 1) IN
               /\ Elected(n)
               /\ work' = work \cup {w}
               /\ requests' = (requests \ {m}) \cup {Forward(w)}
               /\ UNCHANGED replies
          \/ /\ Entries \cap HasService = {}
             /\ requests' = requests \ {m}
             /\ replies' = replies \cup Delivered(m, "error")
             /\ UNCHANGED work
  /\ UNCHANGED <<client, annuary, late, watch, up, provides, ran, crashes>>

\* A call that fails leaves the profile as it was, and doCall does not look at
\* the return code: the request is the answer.
ForwardTimeOut ==
  /\ \E w \in work :
       IF MayRetry(w.j)
       THEN LET again == Work(w.job, w.uri, w.j + 1) IN
            /\ work' = (work \ {w}) \cup {again}
            /\ requests' = (requests \ Dropped(Forward(w))) \cup {Forward(again)}
            /\ Closed(Forward(w))
       ELSE /\ work' = work \ {w}
            /\ replies' = {r \in replies : r.to # Forward(w)} \cup Delivered(w.job, "echo")
            /\ requests' = requests \ Dropped(Forward(w))
  /\ UNCHANGED <<client, annuary, late, watch, up, provides, ran, crashes>>

ForwardReceive ==
  /\ \E w \in work, r \in replies :
       /\ r.to = Forward(w)
       /\ work' = work \ {w}
       /\ replies' = (replies \ {r}) \cup Delivered(w.job, r.result)
  /\ UNCHANGED <<client, requests, annuary, late, watch, up, provides, ran, crashes>>

\* bayWatch: a round over a copy of the directory.
Snapshot ==
  /\ watch = <<>>
  /\ watch' = annuary
  /\ UNCHANGED <<client, requests, replies, work, annuary, late, up, provides, ran, crashes>>

\* Mutant of Heartbeat: a server that does not answer is kept.
HeartbeatKeep ==
  /\ watch # <<>>
  /\ watch' = Tail(watch)
  /\ UNCHANGED <<client, requests, replies, work, annuary, late, up, provides, ran, crashes>>

\* A server that runs may be slow to answer.
Heartbeat ==
  /\ watch # <<>>
  /\ watch' = Tail(watch)
  /\ \/ Head(watch).uri \in up /\ UNCHANGED annuary
     \/ annuary' = Keep(Entry \ {Head(watch)})
  /\ UNCHANGED <<client, requests, replies, work, late, up, provides, ran, crashes>>

\* The dispatcher ends and starts again.
RestartDispatcher ==
  /\ crashes < MaxCrashes
  /\ crashes' = crashes + 1
  /\ requests' = {m \in requests : m.to # Disp}
  /\ work' = {} /\ late' = {} /\ watch' = <<>>
  /\ annuary' = InitAnnuary
  /\ replies' = {r \in replies : r.to.j = 0}
  /\ UNCHANGED <<client, up, provides, ran>>

-----------------------------------------------------------------------------
BayWatch == Snapshot \/ Heartbeat

Next ==
  \/ \E c \in Calls : Call(c) \/ TimeOut(c) \/ Receive(c)
  \/ \E s \in Servers :
       Execute(s) \/ EndServer(s) \/ StartServer(s) \/ Subscribe(s)
  \/ Elect \/ ForwardTimeOut \/ ForwardReceive
  \/ BayWatch \/ RestartDispatcher

Spec == Init /\ [][Next]_vars

\* A caller that waits is answered or times out; a server that runs subscribes,
\* the dispatcher takes the subscriptions and watches the servers.
FairSpec ==
  /\ Spec
  /\ \A c \in Calls : WF_vars(TimeOut(c) \/ Receive(c))
  /\ \A s \in Servers : WF_vars(Subscribe(s))
  /\ WF_vars(BayWatch)

-----------------------------------------------------------------------------
(* Properties *)

\* A caller is told "success" only of a call a server executed with success,
\* whatever timed out, was sent again or was relayed on the way.
SuccessIsExecuted ==
  \A c \in Calls : client[c].answer = "success" => ran[c].success

\* The times a call may be sent: Tries times to every server of the
\* configuration, and Tries times for each of the Tries requests to the
\* dispatcher.
AllTurns == Len(Targets) * Tries + Tries * Tries

\* A call is executed at most once for each time it may be sent.
ExecutionsBounded == \A c \in Calls : ran[c].times <= AllTurns

\* Clients and servers see plain remote calls, as RemoteCall says: a caller hears
\* once, of a success only after one, and only a call that was made is executed,
\* no more often than it may be sent.
Heard == [c \in Calls |-> IF client[c].pc = "done" THEN client[c].answer ELSE client[c].pc]
Promise == INSTANCE RemoteCall WITH Most <- AllTurns, heard <- Heard
RemoteCallSpec == Promise!Spec

\* Every call ends.
EveryCallEnds == \A c \in Calls : client[c].pc = "wait" ~> client[c].pc = "done"

\* A server that runs for good is in the directory again and again (it may be
\* slow, and be dropped, again and again too).
LiveServerIsKnown ==
  \A s \in Servers : <>[](s \in up) => []<>(\E e \in Entries : e.uri = s)

\* A server that has ended for good is in the end no longer elected.
DeadServerIsForgotten ==
  \A s \in Servers : <>[](s \notin up) => <>[](\A e \in Entries : e.uri # s)
=============================================================================
