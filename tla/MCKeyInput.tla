----------------------------- MODULE MCKeyInput -----------------------------
EXTENDS KeyInput

AllFaults == FaultKinds
=============================================================================
