SPECIFICATION Spec
CONSTANTS
  Cubes = {0}
  Quads = {0, 1}
  Slots = {1}
  Vaults = {1}
  Slids = {1}
  Nodes <- TreeNodes
  NoNode <- None
  Bits = {0, 1}
  Up <- MCUp
  Id <- MCId
  Group <- MCGroup
  Depth <- MCDepth
  LeafBit <- MCLeafBit
INVARIANTS
  Exact
  WorkReached
  IdleSkipped
