SPECIFICATION Spec
CONSTANTS
  Buttons = {b1, b2}
  Slots = 2
  HeartbeatTicks = 2
  MaxConfigs = 2
  MaxEvents = 3
  MaxMishaps = 1
  Tick = Tick
  Nothing = Nothing
INVARIANTS
  TypeOK
  NeverDeaf
  StateFollowsPins
CHECK_DEADLOCK FALSE
PROPERTY HeartbeatsGoOn
