\* One map under all writers and most failures; one map of two replicas.
CONSTANTS
  Keys = {k1}
  Ids = {i1, i2, i3}
  NoId = NoId
  PoolSize = 3
  MaxReplicas = 2
  Specs = {1, 2}
  NoSpec = NoSpec
  Writers = {"patch", "scale", "delete"}
  Faults = {"crash", "launch", "start"}
SPECIFICATION SafetySpec
SYMMETRY IdSymmetry
INVARIANTS SafeInv NoOrphan NotOverspawned LedgerSound
PROPERTY NoOverlap
