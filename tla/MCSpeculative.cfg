SPECIFICATION Spec
CONSTANTS
  x = x
  y = y
  z = z
  t1 = t1
  t2 = t2
  t3 = t3
  d1 = d1
  d2 = d2
  d3 = d3
  Tokens = {x, y, z}
  Eos = z
  Unit = 2
  Target <- TargetModel
  Draft <- DraftModel
  Prompts <- SomePrompts
  MaxNews = {0, 4}
  K = 2
  Calls = {1, 2}
  TgtBlocks = {t1, t2, t3}
  DrfBlocks = {d1, d2, d3}
  BlockSize = 3
  TokenCounts <- Counts
SYMMETRY Symmetry
INVARIANTS SpecInv TestedAtOwnPosition CallsLeaveNothing
PROPERTY DecodesAsTarget
CHECK_DEADLOCK FALSE
