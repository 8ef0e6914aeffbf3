SPECIFICATION Spec
CONSTANTS
  b1 = b1
  b2 = b2
  b3 = b3
  x = x
  y = y
  NoToken = NoToken
  Blocks = {b1, b2, b3}
  Seqs = {0, 1, 2}
  BlockSize = 2
  TokenCounts <- Counts
  MaxPins = 1
  Tokens = {x, y}
  Eos = y
  Prompts <- SharedPrompts
  MaxNews = {1, 3}
  Buckets = {3, 5}
SYMMETRY Symmetry
INVARIANTS CacheInv CachedBlocksKeepTheirKV AttendsOwnContext CallsLeaveNothing
PROPERTIES UsesAllocator
CHECK_DEADLOCK FALSE
