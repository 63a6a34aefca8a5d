SPECIFICATION TLFairSpec
CONSTANTS
  Turn = {t1, t2}
  Proc = {p1, p2}
  Renewable = {t1}
  Addressed = {t1}
  MaxAutonomous = 1
  MaxRestart = 1
INVARIANTS UnsentIsVisible
PROPERTIES EventWakes DueIsTaken
