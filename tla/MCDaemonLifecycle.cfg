CONSTANTS
  c1 = c1
  r1 = r1
  w1 = w1
  w2 = w2
  Conns = {c1}
  Requests = {r1}
  Workers = {w1, w2}
  MaxSpins = 3
SPECIFICATION FairSpec
INVARIANT NothingUsedAfterClose
PROPERTIES
  RulesStayRemoved
  StopTerminates
CHECK_DEADLOCK FALSE
