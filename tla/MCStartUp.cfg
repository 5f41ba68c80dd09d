SPECIFICATION Spec
CONSTANTS
  l1 = l1
  l2 = l2
  l3 = l3
  c1 = c1
  c2 = c2
  Launchers = {l1, l2}
  Clients = {c1, c2}
  MaxBrowsers = 2
  MaxDaemons = 2
  MaxStarts = 2
INVARIANT
  OneAfterTheOtherShare
PROPERTY
  StartsEnd
CHECK_DEADLOCK FALSE
