CONSTANTS
  t1 = t1
  t2 = t2
  NoThread = NoThread
  Threads <- TwoThreads
  Todo <- MixedTodo
  PoolSize = 3
  MaxErrors = 0
SPECIFICATION PgSpec
CHECK_DEADLOCK FALSE
INVARIANTS
  PlainWritesCommit
