SPECIFICATION FairSpec
CONSTANTS
  Process = {h1, c1}
  Hosts = {h1}
  Pid = {i1, i2}
  PidOf <- OwnPid
  Episode = {1, 2, 3}
  Proposal = {}
  Broken = {3}
  Says <- Objects
  Cites <- Evidence
  Limit = 1
  Ceiling = 2
  DrainLimit = 2
  MaxFaults = 1
  MaxRefusals = 1
  MaxForgets = 0
CHECK_DEADLOCK FALSE
INVARIANTS NothingForgotten MinedOnce
PROPERTIES LaneRests
