SPECIFICATION ResetSpec
CONSTANTS
 MaxWorlds = 3
 ResetOps = 3
 ResetFaults = 1
 PowerCuts = 1
INVARIANT NeverResetOverData
CHECK_DEADLOCK FALSE
