\* Liveness: no symmetry.
CONSTANTS
  Keys = {k1}
  Ids = {i1, i2}
  NoId = NoId
  PoolSize = 1
  MaxReplicas = 1
  Specs = {1}
  NoSpec = NoSpec
  Writers = {"patch"}
  Faults = {"crash", "launch"}
SPECIFICATION LiveSpec
PROPERTIES PatchesConverge PatchedRuns DrainsEnd
