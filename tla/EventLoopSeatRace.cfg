SPECIFICATION Spec
CONSTANTS
  Threads = {t1, t2}
  Tasks = {x1, x2}
  MaxTime = 1
  None = None
  Mixes <- MCMixes
  Hosts <- MCHosts
CHECK_DEADLOCK FALSE
INVARIANTS
  AckedSessionStaysDark
