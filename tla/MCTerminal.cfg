CONSTANTS
  Sessions <- MCSessions
  MaxEmits = 4
  MaxLines = 2
  PendingCap = 2
  MaxEvents = 4
SPECIFICATION TerminalSpec
INVARIANTS KeysReachTheirReader LinesShown NewestEventsSent
PROPERTY TerminalReturns
CHECK_DEADLOCK FALSE
