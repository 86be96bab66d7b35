CONSTANTS
  MaxRuns = 2
  Versions <- OneVersion
  Refusable <- OneOfEach
  MaxInFlight = 1
SPECIFICATION Spec
INVARIANT AcksMatchRequests
INVARIANT AckIsGenuine
INVARIANT LeavesNoSubscription
PROPERTY Terminates
\* The demo ends.
CHECK_DEADLOCK FALSE
