SPECIFICATION Spec
CONSTANTS
  in = in
  out = out
  Directions = {in, out}
  visitor = visitor
  stranger = stranger
  Cards = {visitor, stranger}
  WordsOf <- MCWordsOf
  Radix = 4
  Rights <- MCRights
  HwAddr = 223
  LockOf <- MCLockOf
  OtherLocks <- MCOtherLocks
  MaxReadings = 2
  MaxStray = 1
CHECK_DEADLOCK FALSE
INVARIANT NextIsProcessed
