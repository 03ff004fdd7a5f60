SPECIFICATION Spec
CONSTANTS
  Transfers = {t1}
  Cleanups = {c1}
  Requests = {}
  MaxTries = 3
  NoTransfer = NoTransfer
INVARIANT
  CleanupRemovesData
CHECK_DEADLOCK FALSE
