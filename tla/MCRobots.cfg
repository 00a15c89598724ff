CONSTANTS
  p1 = p1
  p2 = p2
  Peers <- TwoPeers
  HostOf <- OneHost
  LOST = 1
  REMOVE = 3
  PERIOD = 0
  COUNT = 2
  Wait = 1
  MaxInbox = 2
SPECIFICATION FairSpec
INVARIANTS RosterFaithful
PROPERTIES SilentLeaves NewcomerTold
