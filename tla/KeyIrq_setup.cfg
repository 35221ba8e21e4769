SPECIFICATION Spec
CONSTANT Faults <- NoFaults
PROPERTY NoActivationBeforeSetup
