SPECIFICATION FairSpec
CONSTANTS
    a = a
    b = b
    k1 = k1
    k2 = k2
    Nodes <- MCNodes
    Senders <- MCSenders
    Keys <- MCKeys
    NoKey = NoKey
    Garbage = Garbage
    MaxSent = 2
    MaxArrivals = 1
    MaxFaults = 2
INVARIANTS NoReplay
PROPERTIES SendsInOrder QueueDrains
CHECK_DEADLOCK FALSE
