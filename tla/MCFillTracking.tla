--------------------------- MODULE MCFillTracking ---------------------------
(* The instance of FillTracking that TLC checks. *)
EXTENDS FillTracking

CONSTANTS t1, t2, t3, s1, s2

MCSignalOf == [t \in Txs |-> IF t = t3 THEN s2 ELSE s1]
MCAmount == [t \in Txs |-> IF t = t2 THEN 2 ELSE 1]
MCExpected == [s \in Signals |-> IF s = s1 THEN 3 ELSE 2]
=============================================================================
