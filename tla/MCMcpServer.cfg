CONSTANTS
  a = a
  b = b
  t1 = t1
  t2 = t2
  Clients = {a, b}
  Tabs = {t1, t2}
  NoTab = NoTab
  MaxRequests <- MCMaxRequests
SPECIFICATION Spec
INVARIANTS
  TypeOK
  OneResponsePerRequest
  SessionsFollowTabs
PROPERTIES
  CallsRunOnOwnTab
  ClientsAreIndependent
  EveryRequestAnswered
CHECK_DEADLOCK FALSE
