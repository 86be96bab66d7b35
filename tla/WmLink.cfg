CONSTANTS
  Ssids = {s1}
  Passwords = {p1}
  Blank = Blank
  QueueCap = 3
  MaxRetry = 2
  ImmediateStop = FALSE
  TimerQueueLen = 6
  MaxEvents = 3
  SlowTimers = TRUE
  Env <- Unattended
SPECIFICATION RetrySpec
INVARIANT Mirrored
INVARIANT SoundAtRest
INVARIANT NeverBlockedOnItself
PROPERTY RetryBudget
PROPERTY SavedSurvives
PROPERTY AlwaysReachableAgain
PROPERTY SavedIsRetried
PROPERTY ApEventuallyStops
