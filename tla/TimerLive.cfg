\* One timer and a caller over one stop, one outage and one failed statement.
CONSTANTS
  ScheduledKinds = {"action", "ring"}
  Timers = {t1}
  Clients = {c1}
  Horizon = 1
  MaxTime = 3
  MaxArms = 2
  MaxCrashes = 1
  MaxOutages = 1
  MaxFaults = 1
  RingGrace = 1
  ActionMax = 1
  RetryInterval = 1
  RetryGrace = 1
  Period = 1
SPECIFICATION FairSpec
PROPERTIES PendingEnds MissedReported
CHECK_DEADLOCK FALSE
