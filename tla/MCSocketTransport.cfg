CONSTANTS
  a = a
  b = b
  Clients = {a, b}
  MaxFrames = 1
  Capacity = 1
SPECIFICATION ReadingSpec
INVARIANTS
  DisconnectIsLast
  RegisteredAreServed
PROPERTIES
  ImplementsClientStreams
  LeavingIsReported
CHECK_DEADLOCK FALSE
