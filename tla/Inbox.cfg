SPECIFICATION FairSpec
CONSTANTS
  MaxUpdates = 3
  Kinds <- Mixed
  Window = 3
  MaxLeases = 1
  DeadLeases = 1
  MaxCrashes = 1
  Calm <- Few
  MaxRefusals = 1
INVARIANTS EveryUpdateIsHeld AnswerSentOnce ClosedWasServed
PROPERTY EveryUpdateIsServed
CHECK_DEADLOCK FALSE
