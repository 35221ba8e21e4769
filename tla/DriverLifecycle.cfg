SPECIFICATION Spec
CONSTANTS
  Fleets <- Installed
  Tasks = {t1, t2}
  NoDriver = NoDriver
  Faults <- AllFaults
  Unbinds <- Unbound
SYMMETRY TaskSymmetry
INVARIANTS TypeOK NoLeak PinsAccounted UsesHeld BoundIsOpenable
PROPERTIES LostPinIsFinal EarlyOpenOnly
