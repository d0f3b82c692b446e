SPECIFICATION FairSpec
CONSTANTS
  v1 = v1
  v2 = v2
  v3 = v3
  r1 = r1
  r2 = r2
  Vms = {v1, v2, v3}
  Slaves = {}
  Main = v1
  Progs = {r1, r2}
  Root = r1
  Rescuers = {}
  Killers = {}
  MaxCycles = 1
  None = None
PROPERTIES AcquireServed ReadyRuns
CHECK_DEADLOCK FALSE
