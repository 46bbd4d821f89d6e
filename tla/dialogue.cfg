CONSTANTS
  Sessions = {s1, s2}
  Requests <- AllRequests
  Lower <- MCLower
  Base <- MCBase
  Parsed <- MCParsed
  Faults = {"lose", "duplicate", "io", "transfer", "interrupt", "kill"}
  MaxFaults = 2
SPECIFICATION FairSpec
INVARIANTS TypeOK BlockSizesAgree RedialLosesNoData DaemonSurvives NothingMisread
  WholeOrReported OneVersionPerUpload
PROPERTIES DialogueEnds UndisturbedSucceeds
CHECK_DEADLOCK FALSE
