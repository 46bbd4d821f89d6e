CONSTANTS
  Sessions = {s1}
  Requests <- Shipped
  Lower <- MCLower
  Base <- MCBase
  Parsed <- MCParsed
  Faults = {}
  MaxFaults = 0
SPECIFICATION Spec
INVARIANT ExitZeroMeansCopied
CHECK_DEADLOCK FALSE
