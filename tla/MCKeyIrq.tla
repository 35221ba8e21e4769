------------------------------ MODULE MCKeyIrq ------------------------------
EXTENDS KeyIrq

NoFaults  == {}
AllFaults == FaultKinds
=============================================================================
