CONSTANTS
  c1 = c1
  s1 = s1
  s2 = s2
  Callers = {c1}
  Starters = {s1, s2}
  MaxLaunches = 3
  MAX_RETRY = 2
SPECIFICATION ManagerSpec
INVARIANTS
  StatesHaveThreads
PROPERTIES
  CrashLeadsToRestart
  WaitReadyEnds
CHECK_DEADLOCK FALSE
