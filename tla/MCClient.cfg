SPECIFICATION FairSpec
CONSTANTS
  c1 = c1  c2 = c2  c3 = c3
  Call = {c1, c2, c3}
  ExpectedType <- Types3
  NoCall = NoCall
  ReconnectEnabled = TRUE
  MaxAttempts = 2
  MaxConnects = 2
INVARIANTS
  Consistent
  AtMostOneInFlight
  AnswerMatchesCall
  InOrderAtMostOnce
PROPERTIES
  CallsSettle
  NoReconnectAfterDisconnect
  LateRegisterIsIgnored
  ConnectSettles
  DisconnectEndsSession
  ReconnectEndsIfOpened
CHECK_DEADLOCK FALSE
