CONSTANTS
  Keys = {"ssid", "pass", "topic", "uuid"}
  Values = {1, 2, 3}
  Unset = 0
  FlashErrors = 2
  Packets = 3
  Bad = 9
  Requests = 2
  Troubles = 3
SPECIFICATION FairSpec
INVARIANT AnsweredIsSaved
INVARIANT SavedInOrder
PROPERTY FindableAgain
CHECK_DEADLOCK FALSE
