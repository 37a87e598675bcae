CONSTANTS
  LastTurn = 2
  Profiles = {p, q}
  NoProfile = none
  MaxTarget = 2
  MaxReplaced = 1
  MaxArms = 2
SPECIFICATION Spec
ACTION_CONSTRAINT Explored
SYMMETRY Symmetry
INVARIANTS SpeakerOfOwnTurn MarkedTurnsAreNotCarriedOut UnconfirmedLeavesNothing EnrollmentCounts CentroidsMatchSamples
CHECK_DEADLOCK FALSE
