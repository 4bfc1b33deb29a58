CONSTANTS
  a = a
  b = b
  Containers = {a}
  Initial = {a}
  Disabled = {}
  Labelled = {a}
  Quota = 1
  TcCanFail = FALSE
  ZoneLoads = TRUE
  MaxObjects = 2
  MaxTraffic = 1
  MaxDay = 2
  MaxVeth = 1
SPECIFICATION FairSpec
 
PROPERTIES
  OverQuotaIsThrottled
  ResetHappens
