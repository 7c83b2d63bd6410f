CONSTANTS
  Trigger = {t1}
  Deleter = {d1}
  Observable = {o1}
  Source = {s1, s2}
  TypeOf <- Types
  o1 = o1
  ip = ip
SPECIFICATION FairEnrichmentSpec
INVARIANTS EnrichmentTypeOK EntryBacked
PROPERTIES ResultsKept JobsAnswered
CHECK_DEADLOCK FALSE
