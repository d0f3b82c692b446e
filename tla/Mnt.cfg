SPECIFICATION FairSpec
CONSTANTS
  p1 = p1
  p2 = p2
  p3 = p3
  Procs = {p1, p2, p3}
  MaxCalls = 1
  Victims = {p1}
  MaxIntrs = 1
  None = None
INVARIANTS TypeOK ReplyIsOwn ReaderSure
 
CHECK_DEADLOCK FALSE
