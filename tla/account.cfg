SPECIFICATION FairSpec
CONSTANTS
  u1 = u1 k1 = k1 k2 = k2 t1 = t1 t2 = t2
  Users = {u1}
  Pubkeys = {k1, k2}
  AcctIds = {1, 2}
  Events = {}
  Texts = {}
  ProfileTimes = {}
  NoProfile = NoProfile
  Tabs = {t1, t2}
  User = u1
  InitAccts <- MCInit
  NoAcct = NoAcct
  NoEvent = NoEvent
  MaxCalls = 4
  MaxTime = 1
  MaxFaults = 1
INVARIANTS TypeOK RetractionSent ConfigExact
PROPERTIES RetractionRecorded
CHECK_DEADLOCK FALSE
