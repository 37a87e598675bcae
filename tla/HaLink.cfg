\* A service call and a command over two connections.
CONSTANTS
  Users = {call, query}
  Calls = {call}
  MaxSockets = 2
  MaxEvents = 1
  MaxDrops = 1
SPECIFICATION FairSpec
INVARIANTS OneConnection UsersFollowTheirSocket NoSilentGap
PROPERTY EveryOperationEnds
CHECK_DEADLOCK FALSE
