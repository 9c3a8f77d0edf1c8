SPECIFICATION Spec
CONSTANTS
  Ip = {i1, i2}
  NoEntry = NoEntry
  MaxRequests = 2
  WindowMs = 3
  MaxClock = 6
INVARIANTS
  AtMostTwicePerInterval
  RefusalIsJustified
CHECK_DEADLOCK FALSE
