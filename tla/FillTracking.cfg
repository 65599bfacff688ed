CONSTANTS
  t1 = t1
  t2 = t2
  t3 = t3
  s1 = s1
  s2 = s2
  Txs = {t1, t2, t3}
  Signals = {s1, s2}
  SignalOf <- MCSignalOf
  Amount <- MCAmount
  Expected <- MCExpected
  FinalityDepth = 1
  RootDepth = 2
  Named = TRUE
  Unstable = {t1}
  MaxHeight = 4
  MaxAhead = 1
SPECIFICATION FtFairSpec
INVARIANTS FinalizedStands
PROPERTIES ClosedOnce TimeoutsResolve FateLearned
CHECK_DEADLOCK FALSE
