--------------------------- MODULE ConnPoolProofs ---------------------------
(***************************************************************************)
(* Proofs about ConnPool, for every set of threads and every pool size.    *)
(* The inductive invariant PoolInv adds KeptApart to the two invariants:   *)
(* without it, releasing a connection could leave it among the kept ones.  *)
(***************************************************************************)
EXTENDS ConnPool, TLAPS

PoolInv == TypeOK /\ MutexIffHeld /\ KeptApart

\* Every step of a thread keeps the variables of the pool in their types.
LEMMA StepTypeOK ==
  ASSUME TypeOK, [Next]_poolVars
  PROVE  TypeOK'
<1> USE PoolSizeAssumption DEF TypeOK, PC, Slots
<1>1. ASSUME NEW t \in Threads, Start(t) PROVE TypeOK'
  BY <1>1 DEF Start
<1>2. ASSUME NEW t \in Threads, Acquiring(t) PROVE TypeOK'
  <2>1. CASE SeeUsed(t)
    <3>1. i[t] \in Slots /\ (i[t] + 1 # PoolSize => i[t] + 1 \in Slots)
      OBVIOUS
    <3>2. QED  BY <2>1, <3>1 DEF SeeUsed
  <2>2. CASE SeeUnused(t)  BY <2>2 DEF SeeUnused
  <2>3. CASE TryLock(t)  BY <2>3 DEF TryLock
  <2>4. CASE TryLockFails(t)  BY <2>4 DEF TryLockFails
  <2>5. CASE MarkUsed(t)  BY <2>5 DEF MarkUsed
  <2>6. QED  BY <1>2, <2>1, <2>2, <2>3, <2>4, <2>5 DEF Acquiring
<1>3. ASSUME NEW t \in Threads, Releasing(t) PROVE TypeOK'
  BY <1>3 DEF Releasing, Unlock, ClearUsed
<1>4. ASSUME NEW t \in Threads, Keep(t) PROVE TypeOK'
  BY <1>4 DEF Keep
<1>5. ASSUME NEW t \in Threads, NEW s \in Slots, Resume(t, s) PROVE TypeOK'
  BY <1>5 DEF Resume
<1>6. CASE UNCHANGED poolVars
  BY <1>6 DEF poolVars
<1>7. QED
  BY <1>1, <1>2, <1>3, <1>4, <1>5, <1>6 DEF Next, Step

\* The variables of the pool always have their types.
THEOREM TypeCorrect == Spec => []TypeOK
<1>1. Init => TypeOK
  BY PoolSizeAssumption DEF Init, TypeOK, PC, Slots
<1>2. TypeOK /\ [Next]_poolVars => TypeOK'
  BY StepTypeOK
<1>3. QED
  BY <1>1, <1>2, PTL DEF Spec

-----------------------------------------------------------------------------
(* How each step changes what the threads hold. *)

\* A step that touches neither a mutex nor what its thread holds.
LEMMA QuietStep ==
  ASSUME PoolInv, NEW t \in Threads,
         Start(t) \/ SeeUsed(t) \/ SeeUnused(t) \/ TryLockFails(t)
           \/ MarkUsed(t) \/ ClearUsed(t) \/ Keep(t) \/ (\E s \in Slots : Resume(t, s))
  PROVE  /\ mmutex' = mmutex
         /\ \A u \in Threads : Held(u)' = Held(u)
         /\ KeptApart'
<1> USE DEF PoolInv, TypeOK, Held, KeptApart
<1>1. CASE Start(t)  BY <1>1 DEF Start
<1>2. CASE SeeUsed(t)  BY <1>2 DEF SeeUsed
<1>3. CASE SeeUnused(t)  BY <1>3 DEF SeeUnused
<1>4. CASE TryLockFails(t)  BY <1>4 DEF TryLockFails
<1>5. CASE MarkUsed(t)  BY <1>5 DEF MarkUsed
<1>6. CASE ClearUsed(t)  BY <1>6 DEF ClearUsed
<1>7. CASE Keep(t)  BY <1>7 DEF Keep
<1>8. CASE \E s \in Slots : Resume(t, s)  BY <1>8 DEF Resume
<1>9. QED
  BY <1>1, <1>2, <1>3, <1>4, <1>5, <1>6, <1>7, <1>8

\* A successful trylock gives its slot, which nobody held, to its thread.
LEMMA TryLockStep ==
  ASSUME PoolInv, NEW t \in Threads, TryLock(t)
  PROVE  /\ i[t] \in Slots
         /\ \A u \in Threads : i[t] \notin Held(u)
         /\ mmutex' = [mmutex EXCEPT ![i[t]] = t]
         /\ Held(t)' = Held(t) \cup {i[t]}
         /\ \A u \in Threads \ {t} : Held(u)' = Held(u)
         /\ KeptApart'
<1>1. i[t] \in Slots
  BY DEF PoolInv, TypeOK
<1>2. \A u \in Threads : i[t] \notin Held(u)
  BY <1>1, NoThreadAssumption DEF PoolInv, MutexIffHeld, TryLock
<1>3. QED
  BY <1>1, <1>2 DEF PoolInv, TypeOK, Held, KeptApart, TryLock

\* Unlocking takes its slot from its thread and from nobody else.
LEMMA UnlockStep ==
  ASSUME PoolInv, NEW t \in Threads, Unlock(t)
  PROVE  /\ i[t] \in Held(t)
         /\ i[t] \in Slots
         /\ mmutex' = [mmutex EXCEPT ![i[t]] = NoThread]
         /\ Held(t)' = Held(t) \ {i[t]}
         /\ \A u \in Threads \ {t} : Held(u)' = Held(u)
         /\ KeptApart'
BY DEF PoolInv, TypeOK, Held, KeptApart, Unlock

\* Threads hold slots of the pool.
LEMMA HeldAreSlots ==
  ASSUME TypeOK, NEW t \in Threads
  PROVE  Held(t) \subseteq Slots
BY DEF TypeOK, Held

\* No step of getConnection or releaseConnection breaks the invariant.
LEMMA PoolInvStep ==
  ASSUME PoolInv, [Next]_poolVars
  PROVE  PoolInv'
<1>1. TypeOK'
  BY StepTypeOK DEF PoolInv
<1>2. ASSUME NEW t \in Threads, Step(t)
      PROVE  MutexIffHeld' /\ KeptApart'
  <2>1. CASE TryLock(t)
    <3> USE TryLockStep, <2>1
    <3>1. KeptApart'  OBVIOUS
    <3>2. ASSUME NEW s \in Slots, NEW u \in Threads
          PROVE  mmutex'[s] = u <=> s \in Held(u)'
      BY NoThreadAssumption DEF PoolInv, TypeOK, MutexIffHeld
    <3>3. QED  BY <3>1, <3>2 DEF MutexIffHeld
  <2>2. CASE Unlock(t)
    <3> USE UnlockStep, <2>2
    <3>1. KeptApart'  OBVIOUS
    <3>2. ASSUME NEW s \in Slots, NEW u \in Threads
          PROVE  mmutex'[s] = u <=> s \in Held(u)'
      BY NoThreadAssumption DEF PoolInv, TypeOK, MutexIffHeld
    <3>3. QED  BY <3>1, <3>2 DEF MutexIffHeld
  <2>3. CASE ~TryLock(t) /\ ~Unlock(t)
    <3>1. /\ mmutex' = mmutex
          /\ \A u \in Threads : Held(u)' = Held(u)
          /\ KeptApart'
      BY <1>2, <2>3, QuietStep DEF Step, Acquiring, Releasing
    <3>2. QED  BY <3>1 DEF PoolInv, MutexIffHeld
  <2>4. QED  BY <2>1, <2>2, <2>3
<1>3. CASE UNCHANGED poolVars
  BY <1>3 DEF PoolInv, TypeOK, MutexIffHeld, KeptApart, Held, poolVars
<1>4. QED
  BY <1>1, <1>2, <1>3 DEF PoolInv, Next

\* Types, mutexes and slots agree whatever the threads do.
THEOREM PoolInvariant == Spec => []PoolInv
<1>1. Init => PoolInv
  BY PoolSizeAssumption, NoThreadAssumption
  DEF Init, PoolInv, TypeOK, PC, Slots, MutexIffHeld, KeptApart, Held
<1>2. PoolInv /\ [Next]_poolVars => PoolInv'
  BY PoolInvStep
<1>3. QED
  BY <1>1, <1>2, PTL DEF Spec

\* A locked mutex always belongs to the thread that may use the connection.
THEOREM MutexesAreHeld == Spec => []MutexIffHeld
<1>1. PoolInv => MutexIffHeld
  BY DEF PoolInv
<1>2. QED
  BY <1>1, PoolInvariant, PTL

\* No two threads ever run statements on the same connection.
THEOREM ConnectionsAreExclusive == Spec => []Exclusive
<1>1. PoolInv => Exclusive
  BY HeldAreSlots DEF PoolInv, MutexIffHeld, Exclusive
<1>2. QED
  BY <1>1, PoolInvariant, PTL

-----------------------------------------------------------------------------
\* A raised flag is lowered by a release still to come: it never outlives the
\* use of its connection.
LEMMA FlagStep ==
  ASSUME PoolInv, FlagAccountedFor, [Next]_poolVars
  PROVE  FlagAccountedFor'
<1> USE DEF FlagAccountedFor, PoolInv, TypeOK
<1>1. ASSUME NEW t \in Threads, Start(t) PROVE FlagAccountedFor'
  BY <1>1 DEF Start
<1>2. ASSUME NEW t \in Threads, SeeUsed(t) PROVE FlagAccountedFor'
  BY <1>2 DEF SeeUsed
<1>3. ASSUME NEW t \in Threads, SeeUnused(t) \/ TryLock(t) \/ TryLockFails(t)
      PROVE  FlagAccountedFor'
  BY <1>3 DEF SeeUnused, TryLock, TryLockFails
<1>4. ASSUME NEW t \in Threads, MarkUsed(t) PROVE FlagAccountedFor'
  BY <1>4 DEF MarkUsed
<1>5. ASSUME NEW t \in Threads, Unlock(t) PROVE FlagAccountedFor'
  BY <1>5 DEF Unlock
<1>6. ASSUME NEW t \in Threads, ClearUsed(t) PROVE FlagAccountedFor'
  BY <1>6 DEF ClearUsed
<1>7. ASSUME NEW t \in Threads, Keep(t) PROVE FlagAccountedFor'
  BY <1>7 DEF Keep
<1>8. ASSUME NEW t \in Threads, NEW s \in Slots, Resume(t, s)
      PROVE  FlagAccountedFor'
  BY <1>8 DEF Resume
<1>9. CASE UNCHANGED poolVars
  BY <1>9 DEF poolVars
<1>10. QED
  BY <1>1, <1>2, <1>3, <1>4, <1>5, <1>6, <1>7, <1>8, <1>9
  DEF Next, Step, Acquiring, Releasing

\* A slot marked as used always has a thread that will clear the mark.
THEOREM FlagsAreAccountedFor == Spec => []FlagAccountedFor
<1>1. Init => FlagAccountedFor
  BY DEF Init, FlagAccountedFor
<1>2. PoolInv /\ FlagAccountedFor /\ [Next]_poolVars => FlagAccountedFor'
  BY FlagStep
<1>3. QED
  BY <1>1, <1>2, PoolInvariant, PTL DEF Spec

-----------------------------------------------------------------------------
(* The pool implements the allocator: trylock grants, unlock releases, and *)
(* every other step is invisible to the users of the connections.          *)

InUse == [t \in Threads |-> Held(t)]

\* Every step of the pool grants a connection, releases one, or changes nothing
\* an allocator knows of.
LEMMA StepIsAllocatorStep ==
  ASSUME PoolInv, [Next]_poolVars
  PROVE  [Allocator!Next]_InUse
<1>1. ASSUME NEW t \in Threads, TryLock(t)
      PROVE  Allocator!Grant(t)
  <2>1. i[t] \in Allocator!Conns
    BY <1>1, TryLockStep DEF Allocator!Conns, Slots
  <2>2. \A u \in Threads : i[t] \notin InUse[u]
    BY <1>1, TryLockStep DEF InUse
  <2>3. InUse' = [InUse EXCEPT ![t] = @ \cup {i[t]}]
    BY <1>1, TryLockStep DEF InUse
  <2>4. QED  BY <2>1, <2>2, <2>3 DEF Allocator!Grant, InUse
<1>2. ASSUME NEW t \in Threads, Unlock(t)
      PROVE  Allocator!Release(t)
  <2>1. i[t] \in InUse[t]
    BY <1>2, UnlockStep DEF InUse
  <2>2. InUse' = [InUse EXCEPT ![t] = @ \ {i[t]}]
    BY <1>2, UnlockStep DEF InUse
  <2>3. QED  BY <2>1, <2>2 DEF Allocator!Release, InUse
<1>3. ASSUME NEW t \in Threads, Step(t), ~TryLock(t), ~Unlock(t)
      PROVE  InUse' = InUse
  BY <1>3, QuietStep DEF InUse, Step, Acquiring, Releasing
<1>4. CASE UNCHANGED poolVars
  BY <1>4 DEF poolVars, InUse, Held
<1>5. QED
  BY <1>1, <1>2, <1>3, <1>4 DEF Next, Allocator!Next

\* Whoever uses the pool sees a plain allocator of connections.
THEOREM PoolImplementsAllocator == Spec => AllocatorSpec
<1>1. Init => Allocator!Init
  BY DEF Init, Allocator!Init, Held
<1>2. PoolInv /\ [Next]_poolVars => [Allocator!Next]_InUse
  BY StepIsAllocatorStep
<1>3. QED
  BY <1>1, <1>2, PoolInvariant, PTL DEF Spec, AllocatorSpec, Allocator!Spec, InUse
=============================================================================
