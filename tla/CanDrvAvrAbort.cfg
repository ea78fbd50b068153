SPECIFICATION Spec
CONSTANTS
  Frames = {f1, f2, f3}
  NB_MOB = 2
  CAN_RECV_BUF_MAX = 1
  SendTimeout = 2
  IntBits = 1
  RX = rx
  NULL = null
CHECK_DEADLOCK FALSE
INVARIANT AbortedIsGone
