CONSTANTS
  j1 = j1  j2 = j2  u1 = u1
  Jobs = {j1, j2}
  Limits = {j1}
  Users = {u1}
  Monitor = Monitor
  None = None
  MaxRaces = 1
SPECIFICATION FairSpec
INVARIANTS TypeOK AliveIsOnBoard
PROPERTIES SchedulerSpec LimitIsEnforced EndIsTold
CHECK_DEADLOCK FALSE
