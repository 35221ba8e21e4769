SPECIFICATION Spec
CONSTANTS
  Tasks = {t1, t2, t3}
  Nobody = Nobody
  Faults = TRUE
SYMMETRY TaskSymmetry
INVARIANTS
  TypeOK
  SettledIsConfigured
  CleanReadIsMeasured
