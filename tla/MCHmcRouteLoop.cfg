SPECIFICATION Spec
CONSTANTS
  Cubes = {0, 1, 2, 3}
  LinkIds = {0, 1, 2}
  Slids = {}
  Configs <- MCWires
  Hosts <- MCNone
INVARIANTS
  RoutesDeliver
