CONSTANTS
  Worker = {w1, w2}
  Task = {t1, t2}
  Asset = {a1, a2}
  Entry = {e1}
  NameOf <- Names
  None = None
  t1 = t1
  t2 = t2
  a1 = a1
  a2 = a2
  hostA = hostA
SYMMETRY Symmetry
SPECIFICATION Spec
INVARIANTS TypeOK EntriesTell
PROPERTIES CompletionAnnounced LinksReplaced
