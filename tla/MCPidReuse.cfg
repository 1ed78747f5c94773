SPECIFICATION Spec
CONSTANTS
  Pids = {p1, p2}
  Slots <- MCSlots
  Objects = {o1, o2}
  Threads = {t1}
  Faults = {}
  PidReuse = TRUE
SYMMETRY Symmetry
INVARIANT SignalsReachChild
