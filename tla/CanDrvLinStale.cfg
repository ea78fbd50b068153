SPECIFICATION Spec
CONSTANTS
  Frames = {f1, f2, f3, f4}
  Faults = {"in_time"}
CHECK_DEADLOCK FALSE
INVARIANTS RcIsUpdated
