SPECIFICATION FairSpec
CONSTANTS
  r1 = r1
  r2 = r2
  w1 = w1
  w2 = w2
  Readers = {r1, r2}
  Writers = {w1}
  Limit = 4
  Chunk = 2
  Sizes = {0, 3}
  Lens = {1, 2}
  MaxWrites = 2
  MaxOpens = 4
  EofMax = 1
  None = None
INVARIANTS TypeOK 
PROPERTIES StreamSpec 
CHECK_DEADLOCK FALSE
