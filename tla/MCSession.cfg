SPECIFICATION FairSpec
CONSTANTS
  Offerer = offerer
  Answerer = answerer
  Majors = {m1, m2}
  NoMajor = NoMajor
  MaxCalls = 1
  MaxApp = 1
INVARIANTS
  SettledCallsHaveNoTimer
  ConnectedStopsTheClock
  ReadyIsAgreed
  RejectedIsDown
  HelloComesFirst
PROPERTIES
  ConnectCallsSettle
  HelloSettles
CHECK_DEADLOCK FALSE
