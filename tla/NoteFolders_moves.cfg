CONSTANTS
  Worker = {w1, w2}
  Folder = {f1, f2, f3}
  Note = {}
  CaseOf <- OneCase
  None = None
  Nobody = Nobody
  f1 = f1
  f2 = f2
  f3 = f3
  c1 = c1
SPECIFICATION FairSpec
INVARIANTS TypeOK
PROPERTIES ForestKept RequestsFinish
CHECK_DEADLOCK FALSE
