SPECIFICATION Spec
CONSTANTS
  b1 = b1
  b2 = b2
  b3 = b3
  b4 = b4
  NoToken = NoToken
  Blocks = {b1, b2, b3, b4}
  Seqs = {0, 1, 2}
  BlockSize = 2
  TokenCounts <- Counts
  MaxPins = 0
  MaxBatchTokens = 2
  ChunkSize = 2
  PromptLens = {1, 3}
  MaxNews = {0, 3}
  Priorities = {0, 1}
  PrefixLens = {2}
SYMMETRY Symmetry
INVARIANT NeverRaises
CHECK_DEADLOCK FALSE
