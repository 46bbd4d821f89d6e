CONSTANTS
  Blocks = 6
  Modulus = 4
  MessageLimit = 2
  MaxAge = 2
  Faults = {"lose", "duplicate", "opening", "io", "stop"}
  MaxFaults = 3
SPECIFICATION FairSpec
INVARIANTS TypeOK Lockstep FailureHasCause
PROPERTIES CopySpec EveryStepCounts UndisturbedCompletes TransferEnds
CHECK_DEADLOCK FALSE
