SPECIFICATION FairSpec
CONSTANTS
  Msgs <- MCMsgs
  Key <- MCKey
  Keys = {"key"}
  RCs = {"norm", "conf_timeout"}
  RC_UNKNOWN = "unknown"
  Receivers = {r1, r2}
  Limit = 2
  Timeout = 1
  MaxArrived = 3
CHECK_DEADLOCK FALSE
INVARIANTS TypeOK DescrOutlivesCallback BufferCounted
PROPERTIES ServesPort CallsReturn
