CONSTANTS
  Worker = {w1, w2}
  Evidence = {e1}
  Key = {k1, k2, k3}
  File <- TwoFiles
  None = None
SPECIFICATION FairSpec
INVARIANTS TypeOK FileKept
PROPERTIES UploadDescribes RequestsFinish
CHECK_DEADLOCK FALSE
