SPECIFICATION FairSpec
CONSTANTS
    bnt = bnt
    btt = btt
    irl = irl
    None = None
    Scenarios <- MCScenarios
    Unregistered <- MCUnregistered
    TaskCount <- MCTaskCount
    ItemCount <- MCItemCount
    MaxItems = 5
    PrepTime = 2
    ExecTime = 2
    MaxGap = 2
    MaxPending = 1
    MaxGenerations = 1
PROPERTIES PhasesEnd
