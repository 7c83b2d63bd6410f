CONSTANTS
  e1 = e1
  e2 = e2
  m1 = m1
  m2 = m2
  Worker = {w1, w2}
  Runner = {r1}
  Module = {m1, m2}
  Event = {e1, e2}
  NewCase = {e2}
  Hook <- SomeHooks
  None = None
SPECIFICATION FairSpec
INVARIANTS TypeOK QueuedIsAnswered RunsOnce
PROPERTY QueuedRuns
CHECK_DEADLOCK FALSE
