SPECIFICATION FairSpec
CONSTANTS
  Cap = 2
  Faults <- NoFaults
PROPERTY PersonStopsMotor
