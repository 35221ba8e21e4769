--------------------------- MODULE MCCollisionApp ---------------------------
EXTENDS CollisionApp

\* Fault sets the configurations choose from.
NoFaults  == {}
AllFaults == FaultKinds
=============================================================================
