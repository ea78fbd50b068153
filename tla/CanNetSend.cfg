SPECIFICATION FairSpec
CONSTANTS
  Msgs <- SendMsgs
  Msg <- SendMsg
  Hwas = {1}
  Ids = {"zero", "hb", "a", "b", "c"}
  ZeroId = "zero"
  HeartbeatId = "hb"
  PeerFrames = {}
  MaxNum = 2
  Tics = 2
  SendingMod = 256
  HwaMod = 256
  MaxAtoms = 0
  MaxFramesOut = 2
  FaultyDriver = FALSE
  SlowDriver = FALSE
  StaleConfirms = FALSE
CHECK_DEADLOCK FALSE
INVARIANTS AnsweredOnce ContextOwnsMessage NormsAreBacked
PROPERTIES KeepsPromise EveryMessageAnswered
