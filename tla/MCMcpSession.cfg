CONSTANTS
  c1 = c1
  c2 = c2
  c3 = c3
  NoCall = NoCall
  Calls = {c1, c2, c3}
  MaxSteps = 2
SPECIFICATION SessionSpec
INVARIANTS
  SessionTypeOK
  CallConserved
  AwaitedBySomeone
  NothingAwaitedInVain
PROPERTIES
  ClosedAnswersAll
  ImplementsCdpCalls
CHECK_DEADLOCK FALSE
