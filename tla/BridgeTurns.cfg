CONSTANTS
  Callers = {c1, c2}
  Keys = {k1}
  Requests = {r1, r2}
  Sockets = {s1, s2}
  None = None
SPECIFICATION Spec
INVARIANTS OneReader OwnFrames WorkRepeatsAfterLoss SocketsAccounted CancelSparesOthers
PROPERTY EveryCallReturns
CHECK_DEADLOCK FALSE
