SPECIFICATION TcpFairSpec
CONSTANTS
  Messages = {1, 2, 3}
  BodyLen <- Length
  HeaderLen = 2
  MaxRecv = 2
INVARIANT TransportInv
PROPERTIES EveryMessageArrives CloseEndsReceiver
CHECK_DEADLOCK FALSE
