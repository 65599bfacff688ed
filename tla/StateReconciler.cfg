CONSTANTS
  InitialBalance = 0
  Amounts = {2, 3}
  Threshold = 1
  DryRun = FALSE
  Base = 1
  MaxDelay = 3
  Alert = "callback"
  NoAnswer = NoAnswer
  MaxTrades = 3
  MaxFaults = 2
SPECIFICATION SrFairSpec
INVARIANTS BooksExplained
PROPERTIES Converges ShutdownEnds
CHECK_DEADLOCK FALSE
