SPECIFICATION Spec

CONSTANTS
  c1 = c1
  c2 = c2
  c3 = c3
  s1 = s1
  s2 = s2
  Calls = {c1, c2}
  Sessions = {s1, s2}
  NoSession = NoSession
  NoCall = NoCall
  Steps = 2
  Text <- MCText
  Parts = {"attributes", "box"}
  Chosen = {"networkConditions"}

INVARIANTS
  NothingLeftPressed
  TypedOnceInOrder
  LastPartAnswers

PROPERTIES
  ResetLeavesNothing
  CallsEnd

CHECK_DEADLOCK FALSE
