SPECIFICATION OnDemandSpec
CONSTANTS
  \* the map scaler
  Maps = {m1}
  Procs = {"loop", "cli"}
  ScaleMax = 2
  MinReplicas = 0
  MaxReplicas = 2
  PerInstance = 1
  IdleDrain = 2
  DemandGrace = 2
  ScanEvery = 2
  Crowd = 1
  MaxFaults = 1
  MaxOps = 1
  None = None
  Unread = Unread
  \* maps on demand
  GameMaps = {a, b}
  Warm = {}
  StoryMaps = {}
  Visited = {}
  MaxLive = 1
  IdleAfter = 1
  MinEmpty = 1
  TravelFaults = 0
  TravelOps = 0
  LogTrims = 0
  LogBound = 0
  NoTimer = NoTimer
  NoMap = NoMap
INVARIANT OnDemandTypeOK
PROPERTIES DrainsSafe TravelWakes SlotsReturn TravelAnswered
CHECK_DEADLOCK FALSE
