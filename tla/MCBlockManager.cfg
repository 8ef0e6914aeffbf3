SPECIFICATION BMSpec
CONSTANTS
  s1 = s1
  s2 = s2
  s3 = s3
  b1 = b1
  b2 = b2
  b3 = b3
  Seqs = {s1, s2, s3}
  Blocks = {b1, b2, b3}
  BlockSize = 2
  TokenCounts <- Counts
  MaxPins = 1
SYMMETRY Symmetry
INVARIANTS BMInv NoLeak
PROPERTIES StoredSlotsFixed ImplementsPool
CHECK_DEADLOCK FALSE
