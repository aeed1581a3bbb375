SPECIFICATION Spec
CONSTANTS
  NULL = NULL
  b1 = b1  c1 = c1  c2 = c2  c3 = c3
  Browsers = {b1}
  Calls = {c1, c2, c3}
  Kinds <- MCKinds
  AccessLife = 1
  RefreshLife = 2
  MaxTime = 1
INVARIANTS TypeOK QueueIsServed LoneSessionKept
PROPERTY Settles
CHECK_DEADLOCK FALSE
