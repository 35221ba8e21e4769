---------------------------- MODULE MCRadarShare ----------------------------
EXTENDS RadarShare

\* Fault sets the configurations choose from.
NoFaults  == {}
AllFaults == FaultKinds
=============================================================================
