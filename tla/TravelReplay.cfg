SPECIFICATION TravelSpec
CONSTANTS
  GameMaps = {a}
  Warm = {}
  StoryMaps = {}
  Visited = {}
  MaxLive = 1
  IdleAfter = 1
  MinEmpty = 1
  TravelFaults = 0
  TravelOps = 0
  LogTrims = 1
  LogBound = 0
  NoTimer = NoTimer
  NoMap = NoMap
INVARIANTS
  NoReplay
CHECK_DEADLOCK FALSE
