CONSTANTS
  Chains = {c1, c2}
  Size = 8
  MaxAttempts = 3
  Target <- MCTarget
  Redelivery = FALSE
  MaxCopies = 2
SPECIFICATION FairSpec
INVARIANTS BooksMatchVenue NoDuplicateClientId
PROPERTIES ChainsEnd ImplementsBudget
CHECK_DEADLOCK FALSE
