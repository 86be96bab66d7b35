CONSTANTS
  BufferSize = 2
  Faults = 1
  Connections = 2
  GuestWrites = 1
  Reports = 2
SPECIFICATION FairSpec
INVARIANT AcknowledgedMeansNotified
INVARIANT ServerFindable
INVARIANT ConnectFollowsLink
PROPERTY WritesInTheEnd
CHECK_DEADLOCK FALSE
