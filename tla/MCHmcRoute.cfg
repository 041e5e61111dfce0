SPECIFICATION Spec
CONSTANTS
  Cubes = {0, 1, 2, 3}
  LinkIds = {0, 1, 2, 3}
  Slids = {0}
  Configs <- MCParallel
  Hosts <- MCHosts
INVARIANTS
  RoutesShortest
  RoutesGoOn
  NetworkUsable
PROPERTIES
  RoutesStay
