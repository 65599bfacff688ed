CONSTANTS
  w1 = w1
  w2 = w2
  U = U
  S = S
  Tracked <- MCTracked
  Mints = {m1, m2}
  Modes = {U, S}
  Sizes = {2}
  Limit = 2
  Equity = 7
  MaxPositions = 4
  ModeLimits <- MCModeLimits
  MaxExposure = 5
  MaxTrades <- MCMaxTrades
  MaxFaults = 1
SPECIFICATION Spec
INVARIANTS EnteredOnce
CHECK_DEADLOCK FALSE
