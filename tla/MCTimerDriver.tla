---------------------------- MODULE MCTimerDriver ----------------------------
EXTENDS TimerDriver

\* A period that expires and one that never does; DEFAULT is another that expires.
SomePeriods == {10, -1}

NoFaults  == {}
AllFaults == {"dt", "number", "direction"}
=============================================================================
