SPECIFICATION Spec
CONSTANTS
  NULL = NULL
  DELETED = DELETED
  p1 = p1  p2 = p2  p3 = p3  card = card  kraft = kraft
  OpIds = {p1, p2, p3}
  Items = {card, kraft}
  Paper = {card, kraft}
  NamedSize <- MCNamedSize
  OrderQuantity = 9
  Changes <- MCChanges
  Amounts <- MCAmounts
SYMMETRY Symmetric
INVARIANTS TypeOK PaperIsSelected 
PROPERTY SheetsCountOnce
CHECK_DEADLOCK FALSE
