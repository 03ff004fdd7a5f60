SPECIFICATION FairSpec
CONSTANTS
  Files = {f1, f2, f3}
  Sized = {f1, f2}
  MaxParallel = 2
  Derived = TRUE
  Faults = {"deleted", "url", "network", "local", "short"}
INVARIANTS
  TypeOK
  FinishedIsWhole
PROPERTIES
  QuietAfterReturn
  Returns
  ContractSpec
CHECK_DEADLOCK FALSE
