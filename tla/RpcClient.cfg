CONSTANTS
  Threads = {t1, t2}
  Keys = {k1}
  MaxBatch = 2
  Endpoints = 2
  MaxRetries = 1
  HasCallable = TRUE
  ShortAnswers = FALSE
  Timer = Timer
  Free = Free
  MaxRequests = 3
SPECIFICATION FairSpec
INVARIANTS NothingStranded InOnePlace BatchBounded
PROPERTIES RequestsAnswered CallersReturn
CHECK_DEADLOCK FALSE
