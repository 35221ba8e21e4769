SPECIFICATION FairShareSpec
CONSTANTS
  Cap = 2
  Faults <- AllFaults
  SetTools = {set}
  FirstTools = {first}
  MaxTools = 1
INVARIANTS
  TypeOK
  ShareTypeOK
  AnswersBounded
  MotorObeysLastSample
  RadarSettles
  GateSet
PROPERTIES
  RelaySpec
  MotorFollowsPerson
  DisplayFollowsPerson
