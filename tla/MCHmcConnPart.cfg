SPECIFICATION Spec
CONSTANTS
  Links = 4
  Connected = {0, 2}
  Packets = {"a", "b", "c"}
  Route <- MCRoute
  FlightMax = 1
  RxMax = 1
  TxMax = 2
INVARIANTS
  TypeOK
  PickIsNearest
  VisitsEach
PROPERTIES
  TurnComes
  FlowsAreChannels
  IdleQueueUsed
