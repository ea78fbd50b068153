SPECIFICATION Spec
CONSTANTS
  Buttons = {b1}
  Slots = 2
  HeartbeatTicks = 2
  MaxConfigs = 2
  MaxEvents = 3
  MaxMishaps = 1
  Tick = Tick
  Nothing = Nothing
CHECK_DEADLOCK FALSE
INVARIANT DeafOnlyWhenFull
