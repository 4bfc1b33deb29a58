CONSTANTS
  w1 = w1
  w2 = w2
  Workers = {w1, w2}
  QueueSize = 2
  MaxTries = 2
  MaxTasks = 5
SPECIFICATION FairSpec
INVARIANTS
  TypeOK
  OnePlace
  StatsAreExact
  FirstInFirstOut
PROPERTIES
  AcceptedIsTried
  StopReturns
CHECK_DEADLOCK FALSE
