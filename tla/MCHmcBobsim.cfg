SPECIFICATION Spec
CONSTANTS
  Requests = {"r", "s", "w", "p"}
  Cmd <- MCCmd
  RxMax = 1
  TxMax = 1
  PortDepth = 3
  CtrMax = 3
  CacheMax = 3
CHECK_DEADLOCK FALSE
INVARIANTS
  TypeOK
  CountdownNotified
  NothingForgotten
  ReadsInOrder
PROPERTIES
  ImplementsMemory
  AnsweredUnlessRefused
