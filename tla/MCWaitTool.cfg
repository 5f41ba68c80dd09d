CONSTANTS
  w1 = w1
  w2 = w2
  s1 = s1
  s2 = s2
  NoWait = NoWait
  Waits = {w1, w2}
  r1 = r1
  r2 = r2
  Sessions = {s1, s2}
  Requests = {r1, r2}
  MaxPending = 2
  MaxEvaluations = 2
SPECIFICATION Spec
INVARIANTS
  CompletedIsOver
  IdleTimerMeansQuiet
PROPERTIES
  UndisturbedWaitEnds
CHECK_DEADLOCK FALSE
