CONSTANTS
  s1 = s1  s2 = s2
  Calls = {c1}
  Servers = {s1, s2}
  Targets <- OneServer
  InitServers <- NoServer
  Disp = Disp
  Tries = 2
  Threads = 1
  Mortal = {s1}
  MaxCrashes = 1
SPECIFICATION FairSpec
INVARIANTS SuccessIsExecuted ExecutionsBounded
PROPERTIES EveryCallEnds LiveServerIsKnown DeadServerIsForgotten
