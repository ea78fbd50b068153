SPECIFICATION FairSpec
CONSTANTS
  Msgs <- MCMsgs
  Key <- MCKey
  Keys = {"key"}
  RCs = {"norm", "conf_timeout"}
  RC_UNKNOWN = "unknown"
  Receivers = {r1}
  Limit = 2
  Timeout <- NoTimeout
  MaxArrived = 1
CHECK_DEADLOCK FALSE
PROPERTIES ReturnsWhenDone
