CONSTANTS
  Worker = {w1, w2}
  Alert = {a1, a2}
  Key = {k1}
  Reason = {r1}
  Case = {c1, c2}
  OpenCases = {c2}
  None = None
SPECIFICATION Spec
SYMMETRY Symmetry
INVARIANTS TypeOK StatusExplained
PROPERTY CollapsesUndisturbed
CHECK_DEADLOCK FALSE
