SPECIFICATION Spec
CONSTANTS
  NULL = NULL  Gone = Gone
  i1 = i1  i2 = i2  i3 = i3  w1 = w1  w2 = w2  s1 = s1  v1 = v1
  n1 = n1  n2 = n2  r1 = r1  r2 = r2  r3 = r3
  Ids = {i1, i2, i3}
  Rows = {w1, w2}
  Skus = {s1}
  Services = {v1}
  Names = {n1, n2}
  Stocks = {0, 1}
  Requests = {r1, r2, r3}
  NewItems <- MCNewItems
  Changes <- MCChanges
  Contains <- MCContains
  Initial <- MCInitial
  Kinds <- MCKinds
SYMMETRY Symmetry
INVARIANTS TypeOK CacheIsCurrent OneItemPerService MaterialFindsItsItem
PROPERTY LoneSyncCopies
CHECK_DEADLOCK FALSE
