CONSTANTS
  Timers = {t1, t2}
  NoTimer = NoTimer
  MaxIdles = 2
  MaxRejoins = 0
  MaxWaits = 0
SPECIFICATION FairSpec
PROPERTY DisconnectCompletes
CHECK_DEADLOCK FALSE
