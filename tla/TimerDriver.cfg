SPECIFICATION FairSpec
CONSTANTS
  Tasks = {t1, t2}
  NoFile = NoFile
  Periods <- SomePeriods
  Faults <- AllFaults
INVARIANTS
  TypeOK
  ExclusiveLed
  TimerOnlyWhileOpen
PROPERTIES
  PeriodTakesEffect
  CallsReturn
  OopsOnlyWhileLoading
  LeaseSpec
