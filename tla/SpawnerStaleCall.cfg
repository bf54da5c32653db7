\* Violated: a late OnSpecChange call of ScaleUpTo starts a stopped map.
CONSTANTS
  Keys = {k1}
  Ids = {i1, i2}
  NoId = NoId
  PoolSize = 1
  MaxReplicas = 1
  Specs = {1, 2}
  NoSpec = NoSpec
  Writers = {"scale"}
  Faults = {}
SPECIFICATION FairSpec
PROPERTY Converges
