SPECIFICATION Spec
CONSTANTS
  NONE = NONE
  j1 = j1  j2 = j2  j3 = j3
  Jobs = {j1, j2}
  Quantity = 2
  Finishes = {1, 3}
  MaxBundled = 3
INVARIANTS NeverClaimsMore
PROPERTIES CompletionReachesZoho
