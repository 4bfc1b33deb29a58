CONSTANTS
  reset = reset
  discovery = discovery
  None = None
  Jobs = {reset, discovery}
  Interval <- MCInterval
  CheckInterval = 2
  MaxAge = 5
SPECIFICATION FairSpec
PROPERTIES
  NoJobAfterStop
  JobsAreServed
  StopReturns
CHECK_DEADLOCK FALSE
