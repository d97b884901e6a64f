CONSTANTS
  Timers = {t1, t2, t3}
  NoTimer = NoTimer
  MaxIdles = 2
  MaxRejoins = 1
  MaxWaits = 2
SPECIFICATION FairSpec
INVARIANTS
  TypeOK
  OneOperation
  StateMatchesSession
  FreedAfterIO
  PingTimerOwned
  RetryArmed
PROPERTIES
  ConnectedOnlyOnRequest
  ImplementsLifecycle
  QuitRemoves
  AttemptEnds
  RetryHappens
  ClosedLinkReleased
CHECK_DEADLOCK FALSE
