--------------------------- MODULE MCPartialRetry ---------------------------
EXTENDS PartialRetry

\* int(10 * 0.7 ** n): the default size decay on an order of ten units
MCTarget == [n \in 1..MaxAttempts |-> (Size * 7^n) \div (10^n)]
=============================================================================
