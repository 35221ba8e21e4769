SPECIFICATION Spec
CONSTANTS
  Tasks = {t1, t2}
  NoFile = NoFile
  Periods <- SomePeriods
  Faults <- NoFaults
INVARIANT LedOffWhenClosed
