CONSTANTS
  Worker = {w1, w2, w3}
  Tenant = {t1, t2}
  Case = {c1, c2, c3}
SPECIFICATION FairSpec
INVARIANT TypeOK
PROPERTIES RegistrySpec EveryCreateSettles
CHECK_DEADLOCK FALSE
