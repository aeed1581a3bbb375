SPECIFICATION Spec
CONSTANTS
  NULL = NULL
  DELETED = DELETED
  t1 = t1  t2 = t2  t3 = t3  s1 = s1  s2 = s2
  OpIds = {t1, t2}
  Slots = {s1}
  Stages <- MCPackStages
  Changes <- MCSerialChanges
  MaxQuantity = 2
  OrderQuantity = 1
  MaxClock = 2
  Gated = {}
  Required = {}
  Thresholds = {}
SYMMETRY Symmetric
INVARIANTS TypeOK OneTaskPerStage
PROPERTIES StartedOnce CompletedFollowFlow
