CONSTANTS
  s1 = s1
  s2 = s2
  s3 = s3
  m1 = m1
  m2 = m2
  Signals = {s1, s2, s3}
  Mints = {m1, m2}
  Params <- MCParams
  Prices = {1, 2}
  NoPrice = NoPrice
  MaxPositions = 2
  Executor = "live"
  Redelivery = FALSE
  MaxTime = 2
  MaxCloses = 2
  Enabled = TRUE
SPECIFICATION KsSpec
INVARIANTS CloseOnce HoldingsTracked OneStepAfterPanic
PROPERTIES ClosedByAction ActiveEndsOrStopped PanicStops
CHECK_DEADLOCK FALSE
