--------------------------- MODULE MCRealtimeRunner ---------------------------
(* The instance of RealtimeRunner that TLC checks. *)
EXTENDS RealtimeRunner

CONSTANTS w1, w2, U, S

MCTracked == <<w1, w2>>
MCMaxTrades == [w \in Wallets |-> IF w = w1 THEN 3 ELSE 1]
MCModeLimits == [m \in Modes |-> IF m = U THEN 3 ELSE 2]
=============================================================================
