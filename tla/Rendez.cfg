SPECIFICATION FairSpec
CONSTANTS
  k1 = k1
  p1 = p1
  p2 = p2
  r1 = r1
  r2 = r2
  w1 = w1
  Sleepers = {p1, p2}
  Hosters = {p1}
  Interps = {p1}
  Wakers = {w1}
  Killers = {k1}
  Rendezes = {r1, r2}
  None = None
INVARIANTS TypeOK SleeperFound InterruptReported
 
CHECK_DEADLOCK FALSE
