SPECIFICATION Spec
CONSTANTS
  IDLE = IDLE
  w1 = w1  w2 = w2
  Writers = {w1, w2}
  Payloads = {"whole", "partial"}
  Limit = 3
  MaxEntries = 4
  MaxClock = 4
SYMMETRY WriterSymmetric
INVARIANTS TypeOK Rooted ForksBounded SerialLogIsLinear SerialChainVerifies RemovalIsNoticed
