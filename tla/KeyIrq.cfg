SPECIFICATION FairSpec
CONSTANT Faults <- AllFaults
INVARIANTS
  TypeOK
  LevelSettles
  ReaderInSync
PROPERTIES
  RestIsRead
  CrashOnlyAtTheEnds
  DebounceSpec
