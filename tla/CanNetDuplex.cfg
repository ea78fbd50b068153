SPECIFICATION Spec
CONSTANTS
  Msgs <- DuplexMsgs
  Msg <- DuplexMsg
  Hwas = {1}
  Ids = {"zero", "hb", "a", "b", "c"}
  ZeroId = "zero"
  HeartbeatId = "hb"
  PeerFrames <- MCPeerFrames
  MaxNum = 2
  Tics = 2
  SendingMod = 256
  HwaMod = 256
  MaxAtoms = 3
  MaxFramesOut = 2
  FaultyDriver = TRUE
  SlowDriver = FALSE
  StaleConfirms = FALSE
CHECK_DEADLOCK FALSE
INVARIANTS TypeOK WireInOrder AnsweredOnceButFailed CountMatchesQueue BufferedInOrder AssembledFits
