SPECIFICATION Spec
CONSTANTS
  Requests <- TwoRequests
  Streams = {1}
  Limits = {4}
  Kinds = {"char", "lead", "trail"}
  MinReplicas = 1
  MaxReplicas = 3
  SeqsPerReplica = 1
  ScaleUpTenths = 8
  ScaleDownTenths = 4
  Loads = {0, 1, 2}
INVARIANT DecodedIsStreamed
CHECK_DEADLOCK FALSE
