CONSTANTS
  w1 = w1
  w2 = w2
  Workers = {w1, w2}
  Coalesce = {w2}
  Host = host
  NoBarrier = NoBarrier
  MaxBarriers = 4
  MaxPending = 1
SPECIFICATION FairSpec
INVARIANTS ReachedAll ReadyForNext BarrierKept
PROPERTIES RoundsEnd WokenRun
CHECK_DEADLOCK FALSE
