SPECIFICATION Spec
CONSTANTS
  N = 3
  Fields = {1}
  Frames = {"x", "y"}
  Calls = {}
  Progs = {"p", "q"}
  MaxHalt = 1
  Nil = Nil
INVARIANTS TypeOK LiveKept RefCounted Tricolour
PROPERTIES EpochComplete
CHECK_DEADLOCK TRUE
