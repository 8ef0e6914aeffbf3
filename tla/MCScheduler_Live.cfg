SPECIFICATION FairSpec
CONSTANTS
  b1 = b1
  b2 = b2
  NoToken = NoToken
  Blocks = {b1, b2}
  Seqs = {0, 1, 2}
  BlockSize = 3
  TokenCounts <- Counts
  MaxPins = 0
  MaxBatchTokens = 3
  ChunkSize = 2
  PromptLens = {3}
  MaxNews = {0, 3}
  Priorities = {0, 1}
  PrefixLens = {2}
PROPERTIES KeepsPromise UsesAllocator EveryRequestFinishes
CHECK_DEADLOCK FALSE
