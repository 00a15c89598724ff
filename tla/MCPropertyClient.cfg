CONSTANTS
  s1 = s1
  s2 = s2
  Servers <- TwoServers
  None = None
  Lists <- TwoLists
SPECIFICATION FairSpec
INVARIANTS ViewAgrees
PROPERTIES StatusSettles CommandsReturn
CHECK_DEADLOCK FALSE
