CONSTANTS
  r1 = r1  r2 = r2  s1 = s1  s2 = s2  root = root  user = user
  Requests = {r1, r2}
  Opened = {s1}
  Users = {user}
  Admins = {}
  Ops <- CloseOps
  Policies = {"DEFAULT"}
  MaxFaults = 0
  Workers = 2
  Monitor = Monitor
  None = None
SPECIFICATION Spec
PROPERTIES NotClosedWhileActive
