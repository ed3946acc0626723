SPECIFICATION FairSpec
CONSTANTS
  MaxSubs = 5
  MaxCalls = 0
  MaxReceived = 0
  MaxDrops = 1
  MaxRestarts = 0
  MaxFailures = 0
  CanStop = FALSE
PROPERTIES ForceResubscribe
CHECK_DEADLOCK FALSE
