SPECIFICATION Spec
CONSTANTS
  MaxUpdates = 3
  Kinds <- Behind
  Window = 3
  MaxLeases = 0
  DeadLeases = 3
  MaxCrashes = 0
  Calm = {}
  MaxRefusals = 0
INVARIANT CommandsRunOnce
CHECK_DEADLOCK FALSE
