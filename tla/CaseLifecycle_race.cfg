CONSTANTS
  Worker = {w1, w2}
  c1 = c1
  c2 = c2
  c3 = c3
  Case <- TwoCases
  Rank <- Ranks
  Item = {i1}
  Payload <- FewPayloads
  MaxMerges = 1
  MaxChanges = 2
  None = None
SPECIFICATION FairSpec
INVARIANTS TypeOK StatusTold
PROPERTIES MergeUndisturbed RequestsFinish
CHECK_DEADLOCK FALSE
