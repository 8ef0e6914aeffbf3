SPECIFICATION FairSpec
CONSTANTS
  Requests <- TwoRequests
  Streams = {1}
  Limits = {1, 2}
  Kinds = {"char", "special"}
  MinReplicas = 1
  MaxReplicas = 2
  SeqsPerReplica = 1
  ScaleUpTenths = 8
  ScaleDownTenths = 4
  Loads = {0, 1, 2}
INVARIANTS ServerInv AnsweredOnce AnswerIsOutput
PROPERTIES NoFlap EveryAwaitReturns StopEndsThread
CHECK_DEADLOCK FALSE
