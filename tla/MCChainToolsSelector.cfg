SPECIFICATION Spec

CONSTANTS
  c1 = c1
  c2 = c2
  c3 = c3
  s1 = s1
  s2 = s2
  Calls = {c1}
  Sessions = {s1}
  NoSession = NoSession
  NoCall = NoCall
  Steps = 2
  Text <- MCText
  Parts = {"attributes", "box"}
  Chosen = {"networkConditions"}

INVARIANT
  FailsForAReason

CHECK_DEADLOCK FALSE
