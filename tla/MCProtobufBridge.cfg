SPECIFICATION Spec
CONSTANTS
    None = None
    StartIds <- MCStartIds
    Wrap = 16
    PeerCount = 1
    MaxClients = 2
    MaxRounds = 2
    Malformed = TRUE
INVARIANTS OneToOne Served Roster
CHECK_DEADLOCK FALSE
