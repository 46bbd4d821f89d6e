CONSTANTS
  Sessions = {s1, s2}
  DB = db
  Names = {a}
  Faults = {}
  MaxClock = 4
  MaxFaults = 0
  MaxConsumers = 2
SPECIFICATION Spec
INVARIANT NoStaleUploads
CHECK_DEADLOCK FALSE
