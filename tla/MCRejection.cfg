SPECIFICATION Spec
CONSTANTS
  Vocab = {"a", "b", "c"}
  TopPUnit = 7
  Rows <- MCRows
  Params <- MCParams
  K = 2
INVARIANTS Lossless TargetCanEmit KeptIsNucleus
CHECK_DEADLOCK FALSE
