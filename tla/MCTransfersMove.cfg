CONSTANTS
  t1 = t1  t2 = t2  s1 = s1
  Transfers = {t1, t2}
  Stops = {s1}
  Kinds <- SomeKinds
  MaxFaults = 0
SPECIFICATION Spec
INVARIANT MoveKeepsTheFile
