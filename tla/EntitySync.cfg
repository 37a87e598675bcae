SPECIFICATION FairSpec
CONSTANTS
  MaxEvents = 1
  Scenarios <- SyncScenarios
PROPERTIES SnapshotNeverOlder EventuallyMirrors
CHECK_DEADLOCK FALSE
