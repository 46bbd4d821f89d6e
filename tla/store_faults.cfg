CONSTANTS
  Sessions = {s1, s2, s3}
  DB = db
  Names = {a}
  Faults = {"crash", "stop", "io"}
  MaxClock = 3
  MaxFaults = 1
  MaxConsumers = 2
SPECIFICATION Spec
SYMMETRY SessionSymmetry
INVARIANTS TypeOK ConsumersCover FilesInUseKept NoUnusedOutOfDate
  NewestOnDisk
PROPERTIES LatestNeverRegresses StartsClean RowsOutliveFiles LibrarySpec
CHECK_DEADLOCK FALSE
