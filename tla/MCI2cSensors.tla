---------------------------- MODULE MCI2cSensors ----------------------------
EXTENDS I2cSensors, TLC

TaskSymmetry == Permutations(Tasks)
=============================================================================
