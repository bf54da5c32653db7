\* One map whose servers survive SIGKILL and whose launchers outlive every wait;
\* two maps on two slots.
CONSTANTS
  Keys = {k1, k2}
  Ids = {i1, i2}
  NoId = NoId
  PoolSize = 2
  MaxReplicas = 1
  Specs = {1}
  NoSpec = NoSpec
  Writers = {"patch"}
  Faults = {"kill", "slow"}
SPECIFICATION SafetySpec
SYMMETRY IdSymmetry
INVARIANTS CountsInv MapsApart
