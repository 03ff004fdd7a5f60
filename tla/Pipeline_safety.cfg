SPECIFICATION Spec
CONSTANTS
  Instances = {i1, i2}
  Transfers = {t1, t2}
  NoInstance = NoInstance
  NoTransfer = NoTransfer
  Seeding = FALSE
  Discord = FALSE
  Earlier = {}
  FaultKinds = {"crash", "db", "cleanup", "panic"}
  MaxFaults = 1
SYMMETRY Symmetry
INVARIANTS
  TypeOK
  ExclusiveClaim
  OneWatcher
  ContentKept
  CleanupOnlyAfterImport
  StrandedByFaultsOnly
PROPERTIES
  SettledIsFinal
  LedgerSpec
  LifeSpec
