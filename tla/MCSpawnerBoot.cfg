\* Violated: an on-demand map that is running is taken down by the boot.
CONSTANTS
  Keys = {k1}
  Ids = {i1, i2, i3}
  NoId = NoId
  PoolSize = 2
  MaxReplicas = 1
  Specs = {1}
  NoSpec = NoSpec
  Writers = {"patch"}
  Faults = {"crash"}
  Warm = {}
  MaxRestarts = 2
SPECIFICATION RestartSpec

PROPERTY AdoptedStays
