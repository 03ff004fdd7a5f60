SPECIFICATION FairSpec
CONSTANTS
  Transfers = {t1, t2}
  Cleanups = {c1}
  Requests = {r1, r2}
  MaxTries = 3
  NoTransfer = NoTransfer
INVARIANTS
  TypeOK
  DataOutlivesTransfer
  RemovedOnRequest
  SuccessIsRemoval
PROPERTIES
  CallsEnd
  ContractSpec
CHECK_DEADLOCK FALSE
