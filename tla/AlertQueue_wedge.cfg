CONSTANTS
  Worker = {w1, w2}
  Alert = {a1, a2}
  Key = {k1}
  Reason = {r1}
  Case = {c1}
  OpenCases = {}
  None = None
SPECIFICATION Spec
INVARIANT NoIngestFails
CHECK_DEADLOCK FALSE
