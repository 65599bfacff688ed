----------------------------- MODULE MCPortfolio -----------------------------
EXTENDS Portfolio

CONSTANTS a, b, c, t1, t2, w1, w2

\* Two signals share a wallet, two a token; the sizes straddle the limits.
MCTrade ==
  [s \in Signals |->
     CASE s = a -> [token |-> t1, wallet |-> w1, size |-> 4]
       [] s = b -> [token |-> t2, wallet |-> w1, size |-> 3]
       [] s = c -> [token |-> t1, wallet |-> w2, size |-> 1]]

\* Results an exit may report: a loss past the limit, a small gain.
MCPnls == {-2, 1}
=============================================================================
