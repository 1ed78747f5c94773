CONSTANTS
  t1 = t1
  t2 = t2
  t3 = t3
  None = None
  Threads = {t1, t2, t3}
  Ops = {"wait", "wait_unlock", "timeout", "signal", "broadcast", "event", "exit"}
  Count = 2
  MaxGeneration = 3
SYMMETRY Symmetry
SPECIFICATION BarrierSpec
INVARIANTS
  WaiterReachable
  QueueClean
  BarrierCount
PROPERTY GenerationComplete
CHECK_DEADLOCK FALSE
