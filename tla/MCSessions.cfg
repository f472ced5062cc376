CONSTANTS
  r1 = r1  r2 = r2  s1 = s1  s2 = s2  root = root  user = user
  Requests = {r1, r2}
  Opened = {s1}
  Users = {root, user}
  Admins = {root}
  Ops <- AllOps
  Policies = {"TIMEOUT"}
  MaxFaults = 1
  Workers = 2
  Monitor = Monitor
  None = None
SPECIFICATION FairSpec
ACTION_CONSTRAINT NamedInOrder
INVARIANTS TypeOK HistoryIsTrue CloseCloses LockedUserHasNoSession
PROPERTIES ClosedForGood IdleSessionsClose
CHECK_DEADLOCK FALSE
