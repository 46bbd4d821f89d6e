CONSTANTS
  Sessions = {s1}
  LogCapacity = 3
  Faults = {"interrupt"}
SPECIFICATION Spec
INVARIANT InterruptExitsCleanly
CHECK_DEADLOCK FALSE
