SPECIFICATION Spec
CONSTANTS
  Links = 4
  Connected = {0, 2}
  Packets = {"a", "c"}
  Route <- MCRoute
  FlightMax = 1
  RxMax = 1
  TxMax = 1
PROPERTIES
  RoundRobinServes
