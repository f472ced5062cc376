CONSTANTS
  t1 = t1
  t2 = t2
  t3 = t3
  NoThread = NoThread
  Threads <- ThreeThreads
  Todo <- MixedTodo
  PoolSize = 2
  Faults = {"sql", "lost", "commit", "rollback", "autocommit"}
  MaxErrors = 2
SPECIFICATION MyFairSpec
CHECK_DEADLOCK FALSE
INVARIANTS
  TalksOnlyToItsOwn
  NothingLeftLocked
PROPERTIES
  AtomicCallsSpec
  EveryCallEnds
