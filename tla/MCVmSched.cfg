SPECIFICATION Spec
CONSTANTS
  v1 = v1
  v2 = v2
  v3 = v3
  v4 = v4
  s1 = s1
  r1 = r1
  r2 = r2
  Vms = {v1, v2, v3, v4}
  Slaves = {s1}
  Main = v1
  Progs = {r1, r2}
  Root = r1
  Rescuers = {r2}
  Killers = {r2}
  MaxCycles = 0
  None = None
SYMMETRY Symmetry
INVARIANTS TypeOK TokenInv 
INVARIANTS HeadIsOwn VmsSound ProgsAccounted
