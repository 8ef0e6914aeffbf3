SPECIFICATION DisaggFairSpec
CONSTANTS
  None = None
  Requests = {1, 3, 4, 5}
  PromptLen <- Own
  NumBlocks = 2
  TokensPerBlock = 2
  MaxNew = 2
INVARIANTS DisaggInv PipelineKeepsOrder
PROPERTIES EveryRequestAnswered ShutdownEndsWorkers
CHECK_DEADLOCK FALSE
