CONSTANTS
  t1 = t1
  t2 = t2
  NoThread = NoThread
  Threads <- TwoThreads
  Todo <- BothTodo
  PoolSize = 3
  MaxErrors = 1
SPECIFICATION PgSpec
CHECK_DEADLOCK FALSE
INVARIANTS
  ReturnedNotLost
  TransactionKeepsItsConnection
  Exclusive
  FlagAccountedFor
PROPERTIES
  AllocatorSpec
