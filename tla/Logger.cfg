CONSTANTS
  MaxSize = 2
  PerSecond = 2
  MaxLines = 7
  MaxTime = 5
SPECIFICATION LoggerSpec
PROPERTY ImplementsAppendLog
CHECK_DEADLOCK FALSE
