\* An always-warm map across two restarts.
CONSTANTS
  Keys = {k1}
  Ids = {i1, i2, i3}
  NoId = NoId
  PoolSize = 2
  MaxReplicas = 1
  Specs = {1}
  NoSpec = NoSpec
  Writers = {"patch"}
  Faults = {"crash"}
  Warm = {k1}
  MaxRestarts = 2
SPECIFICATION RestartSpec
SYMMETRY IdSymmetry
INVARIANTS RestartAccounts QuietRestartSafe
PROPERTIES QuietRestartAdopts WarmStays
