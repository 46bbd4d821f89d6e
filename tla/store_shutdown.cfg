CONSTANTS
  Sessions = {s1, s2}
  DB = db
  Names = {a}
  Faults = {"stop", "io"}
  MaxClock = 3
  MaxFaults = 2
  MaxConsumers = 1
SPECIFICATION FairSpec
PROPERTY ShutdownEnds
CHECK_DEADLOCK FALSE
