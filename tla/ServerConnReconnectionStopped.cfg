CONSTANTS
  Timers = {t1, t2}
  NoTimer = NoTimer
  MaxIdles = 2
  MaxRejoins = 0
  MaxWaits = 1
SPECIFICATION FairSpec
PROPERTY ReconnectionStopped
CHECK_DEADLOCK FALSE
