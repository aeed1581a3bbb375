SPECIFICATION Spec
CONSTANTS
  NULL = NULL
  DELETED = DELETED
  t1 = t1  t2 = t2  t3 = t3  s1 = s1  s2 = s2
  OpIds = {t1, t2, t3}
  Slots = {s1}
  Stages <- MCPaperStages
  Changes <- MCLinkChanges
  MaxQuantity = 1
  OrderQuantity = 1
  MaxClock = 1
  Gated = {"CUTTING"}
  Required = {"PAPER_SELECTION"}
  Thresholds = {"partial_any", "full"}
SYMMETRY OthersSymmetric
PROPERTIES StartsThroughGate DeletesAtMostItsCutting
