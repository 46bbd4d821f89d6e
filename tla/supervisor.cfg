CONSTANTS
  Sessions = {s1, s2}
  LogCapacity = 3
  Faults = {"interrupt", "bind", "read", "open"}
SPECIFICATION FairSpec
INVARIANTS TypeOK RoutinesDoneWithLog SignalsNeverBlock
PROPERTY TerminationEnds
CHECK_DEADLOCK FALSE
