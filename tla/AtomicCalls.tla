------------------------------ MODULE AtomicCalls ------------------------------
(***************************************************************************)
(* What the services rely on, and what the modules that take an SQL        *)
(* statement as one step assume of the database: a call does its write at  *)
(* one moment between its beginning and its end, or not at all, whatever   *)
(* the other threads do on their connections.  A call that returned has    *)
(* done it, a creation that threw has not, and nothing of a call that has  *)
(* ended lands later.                                                      *)
(***************************************************************************)
CONSTANTS Threads,
          Calls,      \* the calls a thread makes, each once
          Creations   \* those whose exception means that nothing was written

VARIABLES reliable,   \* FALSE when nothing is promised any more
          inProgress, committed, returned, thrown

atomicVars == <<reliable, inProgress, committed, returned, thrown>>

Init ==
  /\ reliable = TRUE
  /\ inProgress = {} /\ committed = {} /\ returned = {} /\ thrown = {}

\* A thread makes one call at a time.
Begin(t, c) ==
  /\ \A d \in Calls : <<t, d>> \notin inProgress
  /\ <<t, c>> \notin returned \cup thrown
  /\ inProgress' = inProgress \cup {<<t, c>>}
  /\ UNCHANGED <<reliable, committed, returned, thrown>>

Land(t, c) ==
  /\ <<t, c>> \in inProgress
  /\ committed' = committed \cup {<<t, c>>}
  /\ UNCHANGED <<reliable, inProgress, returned, thrown>>

Return(t, c) ==
  /\ <<t, c>> \in inProgress \cap committed
  /\ inProgress' = inProgress \ {<<t, c>>}
  /\ returned' = returned \cup {<<t, c>>}
  /\ UNCHANGED <<reliable, committed, thrown>>

\* The write may land just when the call throws.
Throw(t, c) ==
  /\ <<t, c>> \in inProgress
  /\ inProgress' = inProgress \ {<<t, c>>}
  /\ thrown' = thrown \cup {<<t, c>>}
  /\ committed' \in {committed, committed \cup {<<t, c>>}}
  /\ c \in Creations => <<t, c>> \notin committed'
  /\ UNCHANGED <<reliable, returned>>

Next ==
  \/ reliable' = FALSE
  \/ \E t \in Threads, c \in Calls : Begin(t, c) \/ Land(t, c) \/ Return(t, c) \/ Throw(t, c)

Spec == Init /\ [][Next]_atomicVars
=============================================================================
