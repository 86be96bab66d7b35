CONSTANTS
  MaxRetry = 1
  Bluedroid = FALSE
  Prompt = TRUE
  MaxEvents = 2
  Requests = 3
SPECIFICATION FairSpec
INVARIANT ConnectedFollowsLink
INVARIANT PhoneCanReturn
INVARIANT HeapIsOwned
PROPERTY StatusConverges
CHECK_DEADLOCK FALSE
