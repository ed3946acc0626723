SPECIFICATION FairSpec
CONSTANTS
  u1 = u1 u2 = u2 k1 = k1 k2 = k2 x = x
  in1 = in1 in2 = in2 out1 = out1 between = between stray = stray noise = noise
  r1 = r1 r2 = r2 none = none hello = hello junk = junk
  Users = {u1, u2}
  Pubkeys = {k1, k2, x}
  AcctIds = {1, 2}
  Events = {between}
  LocalEvents = {between}
  Texts = {hello, junk}
  Text <- MCText
  OddKeys = {k2}
  Plain = {}
  Garbled = {}
  ProfileTimes = {}
  NoProfile = NoProfile
  NoKey = none
  Requests = {r1, r2}
  Listener = Listener
  Calls <- MailboxCalls
  Author <- MCAuthor
  PTag <- MCPTag
  InitAccts <- InitOne
  MaxUnread = 1
  MaxFaults = 0
  NoText = NoText NoCall = NoCall NoAcct = NoAcct NoEvent = NoEvent
INVARIANTS Covered
PROPERTIES ImplementsMailbox EventuallyCovered HandedOverIsStored StoredIsPublished
