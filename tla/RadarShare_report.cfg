SPECIFICATION ShareSpec
CONSTANTS
  Cap = 2
  Faults <- NoFaults
  SetTools = {set}
  FirstTools = {first}
  MaxTools = 1
INVARIANT ReportModeEntered
