SPECIFICATION Spec
CONSTANTS
    bnt = bnt
    btt = btt
    irl = irl
    None = None
    Scenarios <- MCScenarios
    Unregistered <- MCUnregistered
    TaskCount <- MCTaskCount
    ItemCount <- MCItemCount
    MaxItems = 5
    PrepTime = 2
    ExecTime = 3
    MaxGap = 2
    MaxPending = 2
    MaxGenerations = 2
INVARIANTS DisclosedOnlyAfterStart GoodsMatchScenario TimerBounded
PROPERTIES FreshTimer PhaseOrder ImplementsContest
