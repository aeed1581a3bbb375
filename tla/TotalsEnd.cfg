SPECIFICATION MovesSpec
CONSTANTS
  NULL = NULL
  DELETED = DELETED
  o1 = o1  o2 = o2  r1 = r1  r2 = r2
  s1 = s1  s2 = s2  paper = paper  handle = handle
  RowIds = {r1, r2}
  Items = {paper, handle}
  Paper = {paper}
  Orders = {o1, o2}
  Slots = {s1, s2}
  Quantities = {2}
  Contents <- MCMoves
PROPERTY Ends
CHECK_DEADLOCK FALSE
