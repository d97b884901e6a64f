CONSTANTS
  Timers = {t1, t2}
  NoTimer = NoTimer
  MaxIdles = 2
  MaxRejoins = 0
  MaxWaits = 1
SPECIFICATION Spec
INVARIANT OnlyDisconnectedRemoved
CHECK_DEADLOCK FALSE
