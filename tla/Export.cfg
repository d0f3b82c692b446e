SPECIFICATION ExportFairSpec
CONSTANTS
  e1 = e1
  e2 = e2
  s1 = s1
  s2 = s2
  Exports = {e1, e2}
  Slaves = {s1, s2}
  MaxReqs = 2
  Flushers = {e1}
  MaxFlushes = 1
  Nil = Nil
INVARIANTS ExportTypeOK 
  
CHECK_DEADLOCK FALSE
