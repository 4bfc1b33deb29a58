CONSTANTS
  a = a
  b = b
  Null = Null
  Containers = {a, b}
  Bare = {b}
  MaxChanges = 3
  MaxRestarts = 1
  MaxErrors = 1
SPECIFICATION FairDiscoverySpec
PROPERTY MapSettles
CHECK_DEADLOCK FALSE
