SPECIFICATION Spec
CONSTANTS
  N = 3
  Fields = {1}
  Frames = {"x", "y"}
  Calls = {"c"}
  Progs = {"p"}
  MaxHalt = 1
  Nil = Nil
INVARIANTS LiveKept
CHECK_DEADLOCK TRUE
