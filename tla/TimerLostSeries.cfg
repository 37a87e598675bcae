\* A stop while recovery reports a missed alarm.
CONSTANTS
  ScheduledKinds = {"series"}
  Timers = {t1, t2}
  Clients = {}
  Horizon = 1
  MaxTime = 5
  MaxArms = 1
  MaxCrashes = 2
  MaxOutages = 0
  MaxFaults = 0
  RingGrace = 1
  ActionMax = 1
  RetryInterval = 1
  RetryGrace = 1
  Period = 1
SPECIFICATION Spec
INVARIANT MissedSeriesContinues
CHECK_DEADLOCK FALSE
