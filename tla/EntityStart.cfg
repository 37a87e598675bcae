SPECIFICATION Spec
CONSTANTS
  MaxEvents = 1
  Scenarios <- StartScenario
INVARIANTS HiddenStaysOut
CHECK_DEADLOCK FALSE
