CONSTANTS
  Item = {ip, host, task}
  KindOf <- Kinds
  TimeOf <- Times
  Threshold = 2
  Merge = {m1}
  Report = {r1}
  ip = ip
  host = host
  task = task
SPECIFICATION ViewsSpec
INVARIANTS ViewsTypeOK  ClustersAreRuns
CHECK_DEADLOCK FALSE
