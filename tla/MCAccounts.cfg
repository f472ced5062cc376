CONSTANTS
  r1 = r1  r2 = r2  r3 = r3
  m1 = m1  u1 = u1  u2 = u2  s1 = s1  a1 = a1  a2 = a2
  NoOne = NoOne
  Requests <- ThreeRequests
  Existing <- OldObjects
  Described <- TheirRows
  OldAccounts <- TwoAccounts
  AccountsAre <- AccountsOfU
  Mixes <- AllMixes
  MaxFaults = 1
SPECIFICATION FairSpec
CHECK_DEADLOCK FALSE
INVARIANTS UniqueIds FailedIsUnusable AccountsAreOnce DeletionIsComplete
PROPERTY EveryRequestEnds
