CONSTANTS
  a = a
  b = b
  c = c
  t1 = t1
  t2 = t2
  w1 = w1
  w2 = w2
  NoTime = NoTime
  NoFile = NoFile
  Torn = Torn
  Signals = {a, b, c}
  Tokens = {t1, t2}
  Wallets = {w1, w2}
  Trade <- MCTrade
  Pnls <- MCPnls
  Initial = 12
  MaxPositions = 2
  MaxTokenPct = 25
  MaxWalletPct = 50
  MaxDailyLoss = 1
  Duration = 1
  Crashes = 0
  MaxTime = 3
SPECIFICATION FairSpec
PROPERTIES CooldownEnds
CHECK_DEADLOCK FALSE
