SPECIFICATION Spec
CONSTANTS
  in = in
  out = out
  Directions = {in, out}
  visitor = visitor
  stranger = stranger
  Cards = {visitor, stranger}
  WordsOf <- MCWordsOf
  Radix = 4
  Rights <- MCRights
  HwAddr = 223
  LockOf <- MCLockOf
  OtherLocks <- MCOtherLocks
  MaxReadings = 2
  MaxStray = 0
CHECK_DEADLOCK FALSE
INVARIANTS TypeOK OneAtATime OpenedByItsCard
PROPERTIES ClosesAgain OneOpeningPerShowing
