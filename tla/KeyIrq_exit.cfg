SPECIFICATION Spec
CONSTANT Faults <- NoFaults
INVARIANT TimerDeletedAtExit
