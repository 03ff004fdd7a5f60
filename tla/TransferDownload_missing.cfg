SPECIFICATION Spec
CONSTANTS
  Files = {f1, f2}
  Sized = {f1, f2}
  MaxParallel = 2
  Derived = TRUE
  Faults = {"url"}
INVARIANT
  MissingIsDeleted
CHECK_DEADLOCK FALSE
