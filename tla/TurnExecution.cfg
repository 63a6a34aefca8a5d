SPECIFICATION Spec
CHECK_DEADLOCK FALSE
CONSTANTS
  Proc = {p1, p2}
  Nobody = nobody
  MaxTier = 1
  Rerunnable = {1}
  MaxCall = 2
  MaxRuns = 2
  MaxCrash = 2
  MaxExpire = 1
SYMMETRY Symmetry
INVARIANTS
  UnrepeatableRunsOnce
  TranscriptIsHonest
  TaintCovers
