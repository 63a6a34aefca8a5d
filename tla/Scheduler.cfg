SPECIFICATION FairSpec
CHECK_DEADLOCK FALSE
CONSTANTS
  Proc = {p1, p2}
  Nobody = nobody
  Job = {j1}
  MaxTime = 1
  MaxFault = 1
INVARIANTS OneTurnPerOccurrence NothingLeftBehind ToldOncePerFault
PROPERTY DoneIsSettled
