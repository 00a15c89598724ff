CONSTANTS
  t1 = t1
  t2 = t2
  t3 = t3
  la = la
  lb = lb
  Threads = {t1, t2, t3}
  Lists = {la, lb}
  Member <- TwoLists
  Callers = {main}
  Free = Free
  Worker = Worker
  ConcLoop = {t2}
  OneShot = {t2, t3}
  MayFailInit = {t2}
  MayFailStart = {t2}
  MayVeto = {t1}
  MayFailFinalize = {t1}
  MayHold = {t1}
SPECIFICATION FairSpec
INVARIANTS PrepareExclusive Settled
PROPERTIES FinalizedAtRest CallsEnd KeepsPromise
CHECK_DEADLOCK FALSE
