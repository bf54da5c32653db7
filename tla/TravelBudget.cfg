SPECIFICATION TravelSpec
CONSTANTS
  GameMaps = {a, b}
  Warm = {}
  StoryMaps = {}
  Visited = {}
  MaxLive = 1
  IdleAfter = 1
  MinEmpty = 1
  TravelFaults = 0
  TravelOps = 0
  LogTrims = 0
  LogBound = 0
  NoTimer = NoTimer
  NoMap = NoMap
INVARIANTS
  BudgetKept
CHECK_DEADLOCK FALSE
