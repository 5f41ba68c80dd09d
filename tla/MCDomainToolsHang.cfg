SPECIFICATION Spec

CONSTANTS
  c1 = c1
  c2 = c2
  c3 = c3
  s1 = s1
  s2 = s2
  r1 = r1
  NoSession = NoSession
  Calls = {c1}
  Sessions = {s1}
  Requests = {r1}
  RuleIds = {1}
  MaxTools = 1

INVARIANT EveryPausedRequestGoesOn

CONSTRAINT FewTools


CHECK_DEADLOCK FALSE
