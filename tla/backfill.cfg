SPECIFICATION FairSpec
CONSTANTS
  k1 = k1 k2 = k2 x = x
  between = between outside = outside reply = reply
  Keys = {k1, k2}
  Msgs = {between, outside, reply}
  Author <- MCAuthor
  PTag <- MCPTag
  Time <- MCTime
  Local = {reply}
  InitAccts <- MCInit
  Handler = Handler
  Listener = Listener
  MaxCalls = 1
  MaxLosses = 2
INVARIANTS TypeOK OnlyOlderMissed NothingMissed
PROPERTIES NewestArrives
CHECK_DEADLOCK FALSE
