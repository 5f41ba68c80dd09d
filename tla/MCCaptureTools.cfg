CONSTANTS
  c1 = c1
  c2 = c2
  c3 = c3
  s1 = s1
  s2 = s2
  r1 = r1
  NoCall = NoCall
  NoSession = NoSession
  Over = Over
  Calls = {c1, c2, c3}
  Sessions = {s1, s2}
  Requests = {r1}
SPECIFICATION Spec
INVARIANTS
  CollectsWhatWasAsked
  CaptureIsFed
  OrderlyStopsCleanUp
  OrderlyStopIsAwaited
SYMMETRY Symmetry
CHECK_DEADLOCK FALSE
