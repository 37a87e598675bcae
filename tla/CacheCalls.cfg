CONSTANTS
  Keys = {k1, k2}
  Entities = {e1}
  NoKey = NoKey
  NoEntity = NoEntity
  Workers = {w1, w2}
  Validators = {v1, v2}
  Scenarios <- SafetyScenarios
  MaxHits = 1
  FlushInterval = 2
  EvictionInterval = 2
  LruTrigger = 1
  LruTarget = 1
  MarkWindow = 2

SPECIFICATION Spec
SYMMETRY Symmetry
INVARIANTS AnswersStayWithTheirAction
PROPERTIES AbortIffInvalidated NoRevival CorrectionSticks
CHECK_DEADLOCK FALSE
