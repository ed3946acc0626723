SPECIFICATION FairSpec
CONSTANTS
  MaxVersion = 4
  MaxFaults = 2
INVARIANTS TypeOK
PROPERTIES PeersNeverOlder RefreshSees
