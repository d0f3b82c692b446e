SPECIFICATION ChanFairSpec
CONSTANTS
  p1 = p1
  p2 = p2
  p3 = p3
  c1 = c1
  c2 = c2
  a1 = a1
  Kernel = Kernel
  None = None
  Chans = {c1, c2}
  Progs = {p1, p2, p3}
  Arrays = {a1}
  InitArr <- Two
  Tables <- Several
  Receivers = {p1}
  QLim = 1
  Mutable = FALSE
INVARIANTS ChanTypeOK Listed
PROPERTIES LeavesForCause Rendezvous 
CHECK_DEADLOCK FALSE
