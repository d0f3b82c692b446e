SPECIFICATION FairSpec
CONSTANTS
  N = 2
  Fields = {1}
  Frames = {"x", "y"}
  Calls = {"c"}
  Progs = {"p", "q"}
  MaxHalt = 1
  Nil = Nil
PROPERTIES Collected
CHECK_DEADLOCK TRUE
