CONSTANTS
  Ssids = {s1}
  Passwords = {p1}
  Blank = Blank
  QueueCap = 3
  MaxRetry = 1
  ImmediateStop = TRUE
  TimerQueueLen = 2
  MaxEvents = 1
  SlowTimers = TRUE
  Env <- Attended
  Requests = 4
SPECIFICATION UsersSpec
INVARIANT RequestGetsVerdict
INVARIANT ScanBitIsBacked
PROPERTY ApStopsOnline
PROPERTY StatusSpec
CHECK_DEADLOCK FALSE
