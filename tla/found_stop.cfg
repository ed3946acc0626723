SPECIFICATION Spec
CONSTANTS
  MaxSubs = 5
  MaxCalls = 0
  MaxReceived = 0
  MaxDrops = 0
  MaxRestarts = 0
  MaxFailures = 0
  CanStop = TRUE
PROPERTIES CloseBeforeStop
CHECK_DEADLOCK FALSE
