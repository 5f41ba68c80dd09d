SPECIFICATION Spec
CONSTANTS
  a = a
  b = b
  Clients = {a}
  MaxLines = 2
  Split = {2}
  MaxDeaths = 1
INVARIANTS
  HandshakeThenStream
  OwnAnswersOnce
PROPERTIES
  AnsweredOrClosed
  GoneReleasesChromium
CHECK_DEADLOCK FALSE
