SPECIFICATION Spec
CONSTANTS
  Cubes = {0, 1}
  LinkIds = {0, 1}
  Slids = {0}
  Configs <- MCAny
  Hosts <- MCHosts
PROPERTIES
  SetupReported
