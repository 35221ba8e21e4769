SPECIFICATION Spec
CONSTANTS
  Tasks = {t1}
  NoFile = NoFile
  Periods <- SomePeriods
  Faults <- NoFaults
PROPERTY EveryTickInverts
