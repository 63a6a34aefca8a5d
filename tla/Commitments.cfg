SPECIFICATION FairSpec
CONSTANTS
  Gateway = {g1, g2}
  Cli = {o1}
  Pid = {i1, i2, i3}
  PidOf <- OwnPid
  Promise = {1, 2}
  MaxDate = 1
  Limit = 1
  MaxChanges = 1
  MaxFaults = 2
INVARIANTS LogAgrees
PROPERTIES RefusedIsSilent LocksAreDurable OwedIsTold
CHECK_DEADLOCK FALSE
