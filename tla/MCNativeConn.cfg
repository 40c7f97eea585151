SPECIFICATION FairSpec
CHECK_DEADLOCK FALSE
CONSTANTS
  c1 = c1
  c2 = c2
  c3 = c3
  Callers = {c1, c2, c3}
  NoCaller = NoCaller
  Timeouts = {2}
  DefaultTimeout = 7
  MaxCalls = 1
  MaxCancels = 1
  MaxForeign = 2
INVARIANTS
  ClosedIsQuiet
PROPERTIES
  WaitsItsTimeout
  CancelEndsWait
  CallsAnswered
