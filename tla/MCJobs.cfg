CONSTANTS
  j1 = j1  j2 = j2  c1 = c1  o1 = o1
  root = root  user = user  sroot = sroot  suser = suser
  Jobs = {j1, j2}
  Cancels = {c1}
  Outputs = {o1}
  Monitor = Monitor
  Users = {root, user}
  Admins = {root}
  Sessions = {sroot, suser}
  User <- TwoUsers
  None = None
  All = All
  Faults = {"database", "refused", "fork", "ignored", "unreachable", "crash"}
  MaxFaults = 1
SPECIFICATION FairSpec
INVARIANTS TypeOK CancelKills OwnersCancel
PROPERTIES SchedulerSpec EndedIsFinal EveryEndIsSeen
