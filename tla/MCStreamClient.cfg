SPECIFICATION FairClientSpec
CONSTANTS
    Programs <- MCPrograms
    MaxMessages = 3
    MaxFailures = 2
INVARIANT ClientInv
PROPERTIES DeliversInOrder Recovers
CHECK_DEADLOCK FALSE
