SPECIFICATION FairSpec
CONSTANTS
  MaxSubs = 8
  MaxCalls = 1
  MaxReceived = 1
  MaxDrops = 1
  MaxRestarts = 1
  MaxFailures = 1
  CanStop = TRUE
INVARIANTS TypeOK TempWillClose
PROPERTIES SubscriptionKept TempEnds CloseResubscribes RestartRecovers
CHECK_DEADLOCK FALSE
