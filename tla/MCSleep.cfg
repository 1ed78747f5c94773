CONSTANTS
  t1 = t1
  t2 = t2
  t3 = t3
  m1 = m1
  m2 = m2
  None = None
  Threads = {t1, t2}
  Mutexes = {}
  MaxPending = 1
  InitialThread = t1
  Ops = {"create", "sleep", "io", "deliver", "deregister", "console", "signal",
         "preempt", "stop", "gc", "block"}
SPECIFICATION Spec
INVARIANTS
  TypeOK
  RunQueueOK
  ContinuationOK
  NoLostWakeup
  SleepOK
  BlockOnIOOK
