CONSTANTS
  t1 = t1
  t2 = t2
  t3 = t3
  None = None
  Threads = {t1, t2, t3}
  Items = {a, b}
  Pairs = {p1, p2}
  MaxElements = 2
  MaxWaiting = 1
  Ops <- MCOps
SPECIFICATION FairSpec
INVARIANTS
  QueueShape
  DequeuersRestarted
  QueuersRestarted
PROPERTIES TimedCallReturns RefinesBoundedQueue
CHECK_DEADLOCK FALSE
