SPECIFICATION Spec
CONSTANTS
  Process = {h1, h2}
  Hosts = {h1, h2}
  Pid = {i1, i2}
  PidOf <- OwnPid
  Episode = {1, 2}
  Proposal = {11}
  Broken = {}
  Says <- Objects
  Cites <- Evidence
  Limit = 1
  Ceiling = 2
  DrainLimit = 1
  MaxFaults = 1
  MaxRefusals = 1
  MaxForgets = 1
CHECK_DEADLOCK FALSE
INVARIANTS BelievedOnce ForgottenIsNoEvidence
