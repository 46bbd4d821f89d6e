CONSTANTS
  Sessions = {s1, s2}
  DB = db
  Names = {a}
  Faults = {"crash"}
  MaxClock = 4
  MaxFaults = 1
  MaxConsumers = 2
SPECIFICATION Spec
INVARIANT UploadsSurviveKill
CHECK_DEADLOCK FALSE
