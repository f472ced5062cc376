CONSTANTS
  r1 = r1  r2 = r2  s1 = s1  s2 = s2  root = root  user = user
  Requests = {r1}
  Opened = {s1, s2}
  Users = {root, user}
  Admins = {root}
  Ops <- LockOps
  Policies = {"DEFAULT"}
  MaxFaults = 0
  Workers = 1
  Monitor = Monitor
  None = None
SPECIFICATION Spec
PROPERTIES LockClosesOwnSessions
