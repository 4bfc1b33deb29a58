SPECIFICATION FairSpec
CONSTANTS
  Containers = {a}
  a = a
  Disabled = {}
  MaxConns = 1
  StaleHours = 1
  KeepHours = 2
  Offset = 0
  MaxUsage = 1
  MaxAge = 3
INVARIANTS
  TypeOK
  SamplesHaveRows
PROPERTIES
  OnlyStaleRowsGo
  SamplesAreKept
  OldSamplesGo
  SamplingGoesOn
CHECK_DEADLOCK FALSE
