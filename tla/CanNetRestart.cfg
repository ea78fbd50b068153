SPECIFICATION Spec
CONSTANTS
  Msgs <- PairMsgs
  Msg <- PairMsg
  Hwas = {1}
  Ids = {"zero", "hb", "a", "b", "c"}
  ZeroId = "zero"
  HeartbeatId = "hb"
  PeerFrames <- RestartFrames
  MaxNum = 2
  Tics = 2
  SendingMod = 256
  HwaMod = 256
  MaxAtoms = 3
  MaxFramesOut = 2
  FaultyDriver = FALSE
  SlowDriver = FALSE
  StaleConfirms = FALSE
CHECK_DEADLOCK FALSE
INVARIANTS DeliveredAsSent
