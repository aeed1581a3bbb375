SPECIFICATION ReliableSpec
CONSTANTS
  NONE = NONE
  j1 = j1  j2 = j2  j3 = j3
  Jobs = {j1}
  Quantity = 4
  Finishes = {1, 2, 4, 5}
  MaxBundled = 5
INVARIANTS TypeOK RunningTotal
PROPERTIES LedgerSpec
