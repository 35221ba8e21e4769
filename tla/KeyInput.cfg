SPECIFICATION FairSpec
CONSTANT Faults <- AllFaults
INVARIANTS
  TypeOK
  IrqBalanced
  ReportedMatchesPin
  QuietWhenUnbound
PROPERTIES
  CrashOnlyInProbe
  PinGivenBack
  DebounceSpec
  RestIsReported
