SPECIFICATION Spec
CONSTANTS
  b1 = b1
  b2 = b2
  b3 = b3
  Blocks = {b1, b2, b3}
  Seqs = {1, 2}
  BlockSize = 2
  TokenCounts = {1, 2, 3}
  MaxPins = 0
  TileSize = 2
  Precision = 14
  Gelu <- MCGelu
  Embed <- MCEmbed
  Query <- MCQuery
  KeyOf <- MCKey
  ValueOf <- MCValue
  Mix <- MCMix
  SourceModel <- Small
  Pairs <- MCPairs
  Prompts <- MCPrompts
  MaxCalls = 2
  MaxBatch = 2
  TableWidth = 2
SYMMETRY Symmetry
INVARIANTS EscalationInv MappedIsAdmissible TransferExact FirstTokenExact
CHECK_DEADLOCK FALSE
