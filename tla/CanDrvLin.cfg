SPECIFICATION FairSpec
CONSTANTS
  Frames = {f1, f2, f3, f4}
  Faults = {"bad", "late", "in_time", "timer"}
CHECK_DEADLOCK FALSE
INVARIANTS TypeOK FramesConserved
PROPERTIES KeepsContract EveryFrameReported
