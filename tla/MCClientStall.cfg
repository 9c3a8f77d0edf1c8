SPECIFICATION FairSpec
CONSTANTS
  c1 = c1  c2 = c2  c3 = c3
  Call = {}
  ExpectedType <- NoTypes
  NoCall = NoCall
  ReconnectEnabled = TRUE
  MaxAttempts = 2
  MaxConnects = 1
PROPERTIES
  ReconnectEnds
CHECK_DEADLOCK FALSE
