------------------------- MODULE MCIdempotencyLock -------------------------
EXTENDS IdempotencyLock, TLC

\* Processes, keys and inodes are interchangeable.
Symmetry == Permutations(Processes) \cup Permutations(Keys) \cup Permutations(Inodes)
=============================================================================
