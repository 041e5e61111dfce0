SPECIFICATION Spec
CONSTANTS
  Requests = {"r", "s", "w", "p"}
  Cmd <- MCCmd
  RxMax = 4
  TxMax = 4
  PortDepth = 4
  CtrMax = 2
  CacheMax = 0
CHECK_DEADLOCK FALSE
PROPERTIES
  AllAnswered
