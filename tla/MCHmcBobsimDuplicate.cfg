SPECIFICATION Safe
CONSTANTS
  Requests = {"r", "s", "w"}
  Cmd <- MCCmd
  RxMax = 2
  TxMax = 1
  PortDepth = 3
  CtrMax = 2
  CacheMax = 3
CHECK_DEADLOCK FALSE
INVARIANTS
  AnsweredOnce
