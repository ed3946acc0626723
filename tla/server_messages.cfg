SPECIFICATION Spec
CONSTANTS
  u1 = u1 u2 = u2 k1 = k1 k2 = k2 x = x
  in1 = in1 in2 = in2 out1 = out1 between = between stray = stray noise = noise
  r1 = r1 r2 = r2 none = none hello = hello junk = junk
  Users = {u1}
  Pubkeys = {k1, x}
  AcctIds = {1}
  Events = {in1, out1, stray}
  LocalEvents = {out1}
  Texts = {hello, junk}
  Text <- MCText
  OddKeys = {x}
  Plain = {}
  Garbled = {}
  ProfileTimes = {}
  NoProfile = NoProfile
  NoKey = none
  Requests = {r1, r2}
  Listener = Listener
  Calls <- MessageCalls
  Author <- MCAuthor
  PTag <- MCPTag
  InitAccts <- InitOne
  MaxUnread = 2
  MaxFaults = 1
  NoText = NoText NoCall = NoCall NoAcct = NoAcct NoEvent = NoEvent
SYMMETRY Slots
INVARIANTS TypeOK IncomingHasPeer ProfileRequested IncomingPushed
