CONSTANTS
  s1 = s1
  s2 = s2
  Servers <- TwoServers
  None = None
  Lists <- TwoLists
SPECIFICATION Spec
INVARIANTS AbsentTolerated
CHECK_DEADLOCK FALSE
