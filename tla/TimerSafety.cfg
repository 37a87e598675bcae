\* Two callers and one timer, or two timers over a stop and a failure (Racing
\* and Failing in MCTimerScheduler).
CONSTANTS
  ScheduledKinds = {"ring", "series"}
  Timers = {t1, t2}
  Clients = {c1, c2}
  Horizon = 1
  MaxTime = 3
  MaxArms = 3
  MaxCrashes = 1
  MaxOutages = 1
  MaxFaults = 2
  RingGrace = 1
  ActionMax = 1
  RetryInterval = 1
  RetryGrace = 1
  Period = 1
SPECIFICATION Spec
ACTION_CONSTRAINT Explored
SYMMETRY Symmetry
INVARIANTS TypeOK TaskOnlyWhilePending PendingHasOwner FiredSeriesContinues TaskMatchesRow
PROPERTIES KeepsPromise
CHECK_DEADLOCK FALSE
