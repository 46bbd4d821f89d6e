CONSTANTS
  Blocks = 3
  Modulus = 4
  MessageLimit = 5
  MaxAge = 2
  Faults = {"lose"}
  MaxFaults = 1
SPECIFICATION Spec
INVARIANT LossRepaired
CHECK_DEADLOCK FALSE
