SPECIFICATION Spec
CONSTANTS
  Pids = {p1, p2}
  Slots <- OneSlot
  Objects = {o1}
  Threads = {t1}
  Faults = {"tcsetpgrp"}
  PidReuse = FALSE
PROPERTY WaitReturns
