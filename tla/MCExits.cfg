CONSTANTS
  t1 = t1
  t2 = t2
  t3 = t3
  m1 = m1
  m2 = m2
  None = None
  InitialThread = t1
  Threads = {t1, t2, t3}
  Mutexes = {m1}
  MaxPending = 1
  Ops = {"create", "lock", "exit", "signal", "join", "detach"}
SYMMETRY Symmetry
SPECIFICATION Spec
INVARIANTS
  MutexOK
  HandOffOK
  JoinOK
  DeadThreadOK
PROPERTY MutexFIFO
