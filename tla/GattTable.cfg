CONSTANTS
  Keys = {"ssid", "pass"}
  Values = {"t1", "t2"}
  Unset = "unset"
  FlashErrors = 1
  MaximumRetry = 1
  Refusals = 2
  Texts = {"t1", "t2", "pointless"}
  Pointless = "pointless"
  Garbage = "garbage"
  Troubles = 2
SPECIFICATION FairSpec
INVARIANT SavedWasSent
PROPERTY OnlineInTheEnd
CHECK_DEADLOCK FALSE
