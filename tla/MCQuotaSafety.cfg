CONSTANTS
  a = a
  b = b
  Containers = {a}
  Initial = {a}
  Disabled = {}
  Labelled = {}
  Quota = 1
  TcCanFail = TRUE
  ZoneLoads = TRUE
  MaxObjects = 2
  MaxTraffic = 2
  MaxDay = 2
  MaxVeth = 2
SPECIFICATION Spec
INVARIANTS
  TypeOK
  UsageIsReal
  OneNoticePerReset
  ResetLiftsThrottles
  ShapingFollowsState
