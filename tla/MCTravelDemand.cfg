\* Two on-demand maps and a warm one that leaves one place to them.
CONSTANTS
  GameMaps = {w, a, b}
  Warm = {w}
  StoryMap = a
  StoryMaps = {a}
  Visited = {a}
  MaxLive = 2
  IdleAfter = 2
  MinEmpty = 1
  TravelFaults = 1
  TravelOps = 1
  LogTrims = 1
  LogBound = 2
  NoTimer = NoTimer
  NoMap = NoMap
SPECIFICATION DemandSpec
INVARIANT BudgetHeld
PROPERTIES NobodyPutOut KeptWhileFresh StoryStopped
CHECK_DEADLOCK FALSE
