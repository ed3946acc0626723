SPECIFICATION Spec
CONSTANTS
  alice = alice bob = bob
  fromAlice = fromAlice fromBob = fromBob toAlice = toAlice
  Peers = {alice, bob}
  NoPeer = NoPeer
  Incoming = {fromAlice, fromBob}
  Outgoing = {toAlice}
  ChatOf <- MCChatOf
  NoMsg = NoMsg
  MaxSelects = 3
  MaxDeliveries = 2
  MaxFaults = 1
INVARIANTS TypeOK IncomingOnce ChatExact
CHECK_DEADLOCK FALSE
