SPECIFICATION FairSpec
CONSTANTS
    None = None
    StartIds <- MCOneStart
    Wrap = 16
    PeerCount = 1
    MaxClients = 2
    MaxRounds = 1
    Malformed = TRUE
PROPERTIES RunsEnd GoneForgotten QueuesDrain
CHECK_DEADLOCK FALSE
