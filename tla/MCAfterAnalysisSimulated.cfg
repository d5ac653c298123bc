SPECIFICATION MCSpec
CONSTANTS
  Registry <- MCRegistry
  MaxClock = 14
  MaxStart = 3
  MaxEvents = 0
INVARIANT InconclusiveUninstrumented
CHECK_DEADLOCK FALSE
